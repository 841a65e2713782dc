------------------------------ MODULE Userland ------------------------------
(***************************************************************************)
(* A process and the kernel that serves it: tlibc (malloc.c, printf.c and  *)
(* the system call stubs), the shell, handle_syscall, libk's read and the  *)
(* UART, on top of the trap path of Traps.  A program is a sequence of     *)
(* library calls.  The process's heap is one page of cells; a cell is a    *)
(* machine word (0 or more) or one character (negative), and a string ends *)
(* at the first byte of a word that is zero.  The texts of a program are   *)
(* abstracted to their lengths.                                            *)
(***************************************************************************)
EXTENDS Traps, SequencesExt

CONSTANTS
    PAGE_CELLS,     \* cells in the heap page (PAGE_SIZE)
    HEADER,         \* cells of an AllocationItem, and of a FreeItem (32 bytes)
    MAGIC_STRING,   \* 0xDEADBEEF
    WORD,           \* words count modulo this (2^64)
    BYTE,           \* values of a byte (256)
    BUFFER_SIZE,    \* what init_printf asks for (200)
    TEXT,           \* characters of the shell's longest text (36)
    INPUT_SIZE,     \* the shell's input buffer (20)
    CWD_SIZE,       \* the buffer of pwd (40)
    PathLength,     \* characters of a process's working directory (11)
    Chars,          \* characters that can be typed, besides the carriage return
    MaxTyped,       \* bound: characters typed
    Programs        \* the programs that may run: sequences of calls

\* Characters: the text of a program, a byte of a word read as one, path, newline,
\* carriage return.
Text == -1
Odd == -2
PathChar == -3
NL == -4
CR == -5
None == 0

\* The calls that allocate memory.
Allocates(call) == call.op \in {"malloc", "init_printf"}

\* The words that malloc stores are not longer than MAGIC_STRING.
MAGIC_BYTES == 4

ASSUME UserlandAssumption ==
    /\ PAGE_CELLS \in Nat /\ MAGIC_STRING \in Nat /\ WORD \in Nat /\ BYTE \in Nat \ {0}
    /\ HEADER \in 3 .. PAGE_CELLS /\ PAGE_CELLS < MAGIC_STRING /\ MAGIC_STRING < WORD
    /\ MAGIC_STRING < BYTE ^ MAGIC_BYTES
    /\ {BUFFER_SIZE, TEXT, INPUT_SIZE, CWD_SIZE, PathLength} \subseteq Nat
    /\ Chars \subseteq Int /\ \A c \in Chars : c < CR
    /\ \A p \in Programs :
          p \in Seq(ToSet(p)) /\ \A c \in ToSet(p) : Allocates(c) => c.n \in Nat

VARIABLES
    prog,          \* the calls that are still to come
    umem,          \* the cells of the heap page
    first_item,    \* malloc.c: address of the free item
    chunks,        \* history: <<address, size>> of what malloc returned, in order
    buffer, ptr,   \* printf's buffer and the program's latest chunk
    args,          \* a7, a1 (or a0) and a2 of the system call in progress
    counter,       \* libk's read: characters stored so far
    rhr,           \* the UART's receive register, or None
    typed,         \* history: how many characters were typed
    input,         \* history: the latest read: address, size and characters
    console,       \* the characters put on the console, but for the kernel's own messages
    formatted      \* history: what printf formatted and read echoed, in order
libVars == <<umem, first_item, chunks, buffer, ptr>>
sysVars == <<args, counter, rhr, typed, input, console, formatted>>
vars == <<trapVars, prog, libVars, sysVars>>

Mapped(a) == a \in 0 .. PAGE_CELLS - 1
NoInput == [at |-> 0, size |-> 0, chars |-> <<>>, done |-> FALSE]
NoArgs == [a7 |-> 0, at |-> 0, len |-> 0]

\* umem with the cells of text stored from address a on.
Stored(a, text) ==
    [x \in DOMAIN umem |-> IF x >= a /\ x < a + Len(text) THEN text[x - a + 1] ELSE umem[x]]

\* How many bytes of a word are read as characters: those in front of the first zero.
byte(w, i) == (w \div BYTE ^ i) % BYTE
bytes_read(w) == CHOOSE k \in 0 .. MAGIC_BYTES :
                    /\ \A i \in 0 .. k - 1 : byte(w, i) # 0
                    /\ k < MAGIC_BYTES => byte(w, k) = 0

\* The string at a, up to the zero that ends it: in a word, if nothing else.
StringEnd(a) == CHOOSE e \in a .. PAGE_CELLS - 1 :
                    umem[e] >= 0 /\ \A x \in a .. e - 1 : umem[x] < 0
StringAt(a) ==
    LET e == StringEnd(a)
    IN  [k \in 1 .. e - a |-> umem[a + k - 1]] \o [k \in 1 .. bytes_read(umem[e]) |-> Odd]
-----------------------------------------------------------------------------
(* tlibc: the start of a process.  switch_to_process leaves the heap's     *)
(* address in a2; malloc_init makes the page one free item.                *)
Init ==
    /\ TrapInit
    /\ prog \in {<<[op |-> "init_printf", n |-> BUFFER_SIZE]>> \o p : p \in Programs}
    /\ umem = [x \in 0 .. PAGE_CELLS - 1 |->
                 IF x = 0 THEN PAGE_CELLS ELSE IF x = 1 THEN 1 ELSE 0]
    /\ first_item = 0 /\ chunks = <<>> /\ buffer = 0 /\ ptr = 0
    /\ args = NoArgs /\ counter = 0 /\ rhr = None /\ typed = 0
    /\ input = NoInput /\ console = <<>> /\ formatted = <<>>

Start ==
    /\ switch_to_process
    /\ UNCHANGED <<prog, libVars, sysVars>>

Running(op) == pc = "user" /\ prog # <<>> /\ Head(prog).op = op

\* The search meets a free item that is too small and not the last: next_item was
\* never set.  Or one of the stores is to a page that is not mapped.
malloc_faults(n) ==
    \/ umem[first_item] < n /\ (Mapped(first_item + 1) => umem[first_item + 1] = 0)
    \/ ~Mapped(first_item + 1)
    \/ ~Mapped(first_item + HEADER + n)

\* Mutant: the new free item does not leave room for the header.
malloc_overlap(n) ==
    LET item == first_item
        free == item + n
    IN  /\ umem' = [umem EXCEPT ![item] = MAGIC_STRING, ![item + 1] = n,
                                ![free] = (MAGIC_STRING - (n + HEADER)) % WORD]
        /\ first_item' = free
        /\ chunks' = Append(chunks, <<item + HEADER, n>>)

(* The header overlays the free item it is made from, so current->size is  *)
(* MAGIC_STRING when the rest is computed from it.  is_last and next_item  *)
(* of the new free item are whatever the page held.                        *)
malloc(n) ==
    LET item == first_item
        free == item + HEADER + n
    IN  /\ umem' = [umem EXCEPT ![item] = MAGIC_STRING, ![item + 1] = n,
                                ![free] = (MAGIC_STRING - (n + HEADER)) % WORD]
        /\ first_item' = free
        /\ chunks' = Append(chunks, <<item + HEADER, n>>)

Malloc ==
    /\ pc = "user" /\ prog # <<>> /\ Allocates(Head(prog))
    /\ ~malloc_faults(Head(prog).n)
    /\ malloc(Head(prog).n)
    /\ IF Running("malloc")
       THEN ptr' = first_item + HEADER /\ UNCHANGED buffer
       ELSE buffer' = first_item + HEADER /\ UNCHANGED ptr
    /\ prog' = Tail(prog)
    /\ UNCHANGED <<trapVars, sysVars>>

MallocFaults ==
    /\ pc = "user" /\ prog # <<>> /\ Allocates(Head(prog))
    /\ malloc_faults(Head(prog).n)
    /\ Trap("fault")
    /\ UNCHANGED <<prog, libVars, sysVars>>

\* syscall.c: the arguments move down by one register, the number goes to a7.
Syscall(number, at, len) ==
    /\ Trap("ecall")
    /\ args' = [a7 |-> number, at |-> at, len |-> len]
    /\ prog' = Tail(prog)
    /\ counter' = 0
    /\ UNCHANGED <<rhr, typed, console>>

\* The ordinary characters of a call of printf.
Texts(call) == [k \in 1 .. call.text |-> Text]

\* Mutant: the string is copied with the zero that ends it.
Formatted_with_zero(call) ==
    IF call.arg THEN Texts(call) \o StringAt(ptr) \o <<0>> ELSE Texts(call)

\* vprintf: ordinary characters, and a %s for those calls that have one.
Formatted(call) == IF call.arg THEN Texts(call) \o StringAt(ptr) ELSE Texts(call)

\* Nothing compares the length of the output with that of the buffer.
Printf ==
    /\ Running("printf")
    /\ LET text == Formatted(Head(prog)) IN
       /\ umem' = Stored(buffer, text)
       /\ Syscall(1, buffer, Len(text))
       /\ formatted' = formatted \o text
    /\ UNCHANGED <<first_item, chunks, buffer, ptr, input>>

Read ==
    /\ Running("read")
    /\ Syscall(0, ptr, Head(prog).n)
    /\ input' = [at |-> ptr, size |-> Head(prog).n, chars |-> <<>>, done |-> FALSE]
    /\ UNCHANGED <<libVars, formatted>>

Getcwd == Running("getcwd") /\ Syscall(79, ptr, Head(prog).n) /\ UNCHANGED <<libVars, input, formatted>>
Open == Running("open") /\ Syscall(2, 0, 0) /\ UNCHANGED <<libVars, input, formatted>>

\* A program that hands the kernel an address that is not mapped, and one that
\* uses such an address itself.
WriteWild == Running("write_wild") /\ Syscall(1, PAGE_CELLS, 1) /\ UNCHANGED <<libVars, input, formatted>>
LoadWild ==
    /\ Running("load_wild") /\ Trap("fault")
    /\ UNCHANGED <<prog, libVars, sysVars>>
-----------------------------------------------------------------------------
\* The shell: texts, ls, one line of input, and the command that it names.  All its
\* texts are as long as the longest.
printf(arg, text) == [op |-> "printf", arg |-> arg, text |-> text]
puts == printf(FALSE, TEXT)
ls == <<[op |-> "open"], puts>>
pwd == <<[op |-> "malloc", n |-> CWD_SIZE], [op |-> "getcwd", n |-> CWD_SIZE], printf(TRUE, 0)>>
shell_main ==
    <<[op |-> "malloc", n |-> INPUT_SIZE], puts, puts, puts, puts>>
        \o ls \o <<puts, [op |-> "read", n |-> INPUT_SIZE], printf(TRUE, TEXT), [op |-> "command"]>>

\* strcmp(buffer, word) = 0.  The words stand for "pwd" and "ls".
strcmp(a, word) == StringAt(a) = word
Word_pwd == <<CR - 1>>
Word_ls == <<CR - 2, CR - 1>>

Command ==
    /\ Running("command")
    /\ prog' = Tail(prog) \o (IF strcmp(ptr, Word_pwd) THEN pwd ELSE <<>>)
                          \o (IF strcmp(ptr, Word_ls) THEN ls ELSE <<>>)
    /\ UNCHANGED <<trapVars, libVars, sysVars>>
-----------------------------------------------------------------------------
(* The kernel.                                                             *)
Handler ==
    /\ machine_exception_handler
    /\ UNCHANGED <<prog, libVars, sysVars>>

Service(number) == pc = "syscall" /\ args.a7 = number

\* write: a copy of the user's characters on the kernel heap, printed with %s.
FirstZero(text) == SelectInSeq(text, LAMBDA c : c >= 0)
WriteFaults == \E a \in args.at .. args.at + args.len - 1 : ~Mapped(a)
handle_write ==
    /\ Service(1) /\ ~WriteFaults
    /\ LET text == [k \in 1 .. args.len |-> umem[args.at + k - 1]]
           zero == FirstZero(text)
       IN  console' = console \o (IF zero = 0 THEN text ELSE SubSeq(text, 1, zero - 1))
    /\ SyscallDone
    /\ UNCHANGED <<cause, sp, sscratch, s, stack, start_sp, calls, bus,
                   prog, libVars, args, counter, rhr, typed, input, formatted>>

handle_write_faults ==
    /\ Service(1) /\ WriteFaults
    /\ KernelFault
    /\ UNCHANGED <<prog, libVars, sysVars>>

\* Mutant: one turn too many.
ReadMore_one_more == counter <= args.len
ReadMore == counter < args.len

\* Mutant: in place of the last character.
ZeroAt_before == args.at + counter - 1
ZeroAt == args.at + counter

Echo(c) == IF c = CR THEN NL ELSE c

\* One turn of libk's read: get_char, echo, store.
read ==
    /\ Service(0) /\ ReadMore /\ rhr # None
    /\ rhr' = None
    /\ console' = Append(console, Echo(rhr)) /\ formatted' = Append(formatted, Echo(rhr))
    /\ IF rhr = CR
       THEN umem' = [umem EXCEPT ![ZeroAt] = 0] /\ SyscallDone
                /\ input' = [input EXCEPT !.done = TRUE] /\ UNCHANGED counter
       ELSE umem' = [umem EXCEPT ![args.at + counter] = rhr] /\ UNCHANGED pc
                /\ input' = [input EXCEPT !.chars = Append(@, rhr)] /\ counter' = counter + 1
    /\ UNCHANGED <<cause, sp, sscratch, s, stack, start_sp, calls, bus,
                   prog, first_item, chunks, buffer, ptr, args, typed>>

\* Mutant: a full buffer waits for the carriage return.
read_full_waits ==
    /\ Service(0) /\ ~ReadMore /\ rhr = CR
    /\ SyscallDone
    /\ input' = [input EXCEPT !.done = TRUE]
    /\ UNCHANGED <<cause, sp, sscratch, s, stack, start_sp, calls, bus,
                   prog, libVars, args, counter, rhr, typed, console, formatted>>

\* The buffer is full: no zero is stored.
read_full ==
    /\ Service(0) /\ ~ReadMore
    /\ SyscallDone
    /\ input' = [input EXCEPT !.done = TRUE]
    /\ UNCHANGED <<cause, sp, sscratch, s, stack, start_sp, calls, bus,
                   prog, libVars, args, counter, rhr, typed, console, formatted>>

(* The path was stored without its zero, so the copy goes on with the size *)
(* of the next chunk of the kernel heap, which is that of a                *)
(* ProcessListItem: one byte that is not zero.  The size argument is not   *)
(* looked at, and no zero is stored either.                                *)
copy_into == [k \in 1 .. PathLength |-> PathChar] \o <<Odd>>

handle_getcwd ==
    /\ Service(79)
    /\ umem' = Stored(args.at, copy_into)
    /\ SyscallDone
    /\ UNCHANGED <<cause, sp, sscratch, s, stack, start_sp, calls, bus,
                   prog, first_item, chunks, buffer, ptr, sysVars>>

\* open, whose lookup is that of Ext2, and any other number.
handle_other ==
    /\ pc = "syscall" /\ args.a7 \notin {0, 1, 79}
    /\ SyscallDone
    /\ UNCHANGED <<cause, sp, sscratch, s, stack, start_sp, calls, bus, prog, libVars, sysVars>>

Return ==
    /\ jump_back_to_userspace
    /\ UNCHANGED <<prog, libVars, sysVars>>

\* A character comes in; one that finds the register full is lost.
Type(c) ==
    /\ typed < MaxTyped
    /\ typed' = typed + 1
    /\ rhr' = IF rhr = None THEN c ELSE rhr
    /\ UNCHANGED <<trapVars, prog, libVars, args, counter, input, console, formatted>>

Kernel ==
    \/ Handler \/ handle_write \/ handle_write_faults \/ read \/ read_full
    \/ handle_getcwd \/ handle_other \/ Return
User ==
    \/ Malloc \/ MallocFaults \/ Printf \/ Read \/ Getcwd \/ Open \/ WriteWild \/ LoadWild
    \/ Command
Next == Start \/ User \/ Kernel \/ \E c \in Chars \cup {CR} : Type(c)

\* The hart executes the kernel's code; nothing is assumed of who types.
Spec == Init /\ [][Next]_vars /\ WF_vars(Kernel)
-----------------------------------------------------------------------------
(* What malloc has returned lies in the heap page, one chunk behind the    *)
(* other with a header in between, and the free item behind the last: also *)
(* when the page is exhausted, though malloc never asks whether there is   *)
(* room and takes MAGIC_STRING for the size of the free item.              *)
UserChunksDisjoint ==
    /\ \A i \in 1 .. Len(chunks) - 1 : chunks[i][1] + chunks[i][2] + HEADER = chunks[i + 1][1]
    /\ chunks # <<>> => Last(chunks)[1] + Last(chunks)[2] = first_item
    /\ Mapped(first_item)

(* Programs that use tlibc the way the shell does.  room is the size of    *)
(* the latest chunk, fresh says that nothing was read into it yet: read is *)
(* not asked for more than the chunk holds, getcwd's path fits, and what a *)
(* chunk holds fits in printf's buffer with the text around it and the     *)
(* bytes of the word behind the chunk.  Only the start of a process calls  *)
(* init_printf.                                                            *)
Fits(call, room, fresh) ==
    /\ call.op # "init_printf"
    /\ call.op = "read" => call.n \in 0 .. room
    /\ call.op = "getcwd" => fresh /\ PathLength + 1 <= room
    /\ call.op = "printf" => call.text \in 0 .. BUFFER_SIZE
    /\ (call.op = "printf" /\ call.arg) =>
          0 <= room /\ call.text + room + MAGIC_BYTES <= BUFFER_SIZE

NoCall(op, q, i, j) == \A k \in i .. j : q[k].op # op

Careful(q, room, fresh) ==
    \A i \in 1 .. Len(q) :
        /\ NoCall("malloc", q, 1, i - 1) => Fits(q[i], room, fresh /\ NoCall("read", q, 1, i - 1))
        /\ \A j \in 1 .. i - 1 :
              (q[j].op = "malloc" /\ NoCall("malloc", q, j + 1, i - 1)) =>
                  Fits(q[i], q[j].n, NoCall("read", q, j + 1, i - 1))

NoRoom == -1
CarefulPrograms ==
    /\ TEXT <= BUFFER_SIZE
    /\ PathLength + 1 <= CWD_SIZE /\ CWD_SIZE + MAGIC_BYTES <= BUFFER_SIZE
    /\ \A p \in Programs : Careful(p, NoRoom, TRUE)

(* A library call or system call that fills a buffer stays in the chunk of *)
(* that buffer: printf, which checks no length, with a string that read    *)
(* left without a zero; read itself; and getcwd, which copies a path that  *)
(* has no zero either.                                                     *)
FillsOneChunk ==
    [][(umem' # umem /\ chunks' = chunks) =>
          \E c \in ToSet(chunks) :
              \A x \in DOMAIN umem : umem'[x] # umem[x] => (c[1] <= x /\ x < c[1] + c[2])]_vars

(* The characters that read took from the UART are in the program's buffer *)
(* when it returns, in order and with a zero behind them if there is room, *)
(* and later calls of malloc, printf and getcwd leave them there.          *)
InputKept ==
    (pc = "user" /\ input.done) =>
        /\ \A k \in 1 .. Len(input.chars) : umem[input.at + k - 1] = input.chars[k]
        /\ Len(input.chars) < input.size => umem[input.at + Len(input.chars)] = 0

(* What printf formats in the process reaches the console completely and   *)
(* in order, through the buffer, the trap, the kernel's copy and its %s;   *)
(* so does the echo of what is typed.                                      *)
ConsoleFaithful == pc = "user" => console = formatted

(* A system call returns, or the machine is lost, unless it is a read that *)
(* waits for somebody to type.                                             *)
WaitsForInput == Service(0) /\ ReadMore /\ rhr = None
SyscallReturns ==
    pc \in {"handler", "syscall", "return"} ~> (pc \in {"user", "dead", "wild"} \/ WaitsForInput)
=============================================================================
