----------------------------- MODULE Boot_proofs ----------------------------
(***************************************************************************)
(* Proofs about the boot tables, for every radix, page size, image and     *)
(* content of .bss.                                                        *)
(***************************************************************************)
EXTENDS Boot, TLAPS

(* Quotient and remainder.                                                 *)
LEMMA Quotient ==
    ASSUME NEW x \in Nat, NEW n \in Nat \ {0}
    PROVE  /\ x \div n \in Nat /\ x % n \in 0 .. n - 1
           /\ x = n * (x \div n) + (x % n)
BY SMT

(* The quotient is the only number of its kind.                            *)
LEMMA QuotientUnique ==
    ASSUME NEW n \in Nat \ {0}, NEW q \in Nat, NEW r \in 0 .. n - 1,
           NEW d \in Nat, NEW e \in 0 .. n - 1, n * q + r = n * d + e
    PROVE  q = d /\ r = e
<1>1. ASSUME NEW i \in Nat, NEW j \in Nat, i < j PROVE n * i + n <= n * j
  <2>1. i + 1 <= j
    BY <1>1
  <2>2. n * (i + 1) <= n * j
    BY <2>1
  <2> QED
    BY <2>2
<1>2. n * q \in Nat /\ n * d \in Nat
  OBVIOUS
<1>3. ~(q < d)
  BY <1>1, <1>2
<1>4. ~(d < q)
  BY <1>1, <1>2
<1>5. q = d
  BY <1>3, <1>4
<1> QED
  BY <1>5, <1>2

(* A multiple of the divisor is added to the quotient.                     *)
LEMMA AddMultiple ==
    ASSUME NEW x \in Nat, NEW k \in Nat, NEW n \in Nat \ {0}
    PROVE  (x + k * n) \div n = (x \div n) + k /\ (x + k * n) % n = x % n
<1> DEFINE y == x + k * n
           q == x \div n
           r == x % n
<1>1. y \in Nat
  OBVIOUS
<1>2. q \in Nat /\ r \in 0 .. n - 1 /\ x = n * q + r
  BY Quotient
<1>3. y \div n \in Nat /\ y % n \in 0 .. n - 1 /\ y = n * (y \div n) + (y % n)
  <2> HIDE DEF y
  <2> QED
    BY <1>1, Quotient
<1>4. y = n * (q + k) + r
  <2> HIDE DEF q, r
  <2>1. n * (q + k) = n * q + k * n /\ n * q \in Nat /\ k * n \in Nat
    BY <1>2
  <2> DEFINE a == n * q
             b == k * n
  <2> HIDE DEF a, b
  <2>2. x = a + r /\ y = x + b /\ n * (q + k) = a + b /\ a \in Nat /\ b \in Nat
    BY <1>2, <2>1 DEF a, b
  <2> QED
    BY <1>2, <2>2
<1> HIDE DEF y, q, r
<1>5. y \div n = q + k /\ y % n = r
  BY <1>2, <1>3, <1>4, QuotientUnique
<1> QED
  BY <1>5 DEF y, q, r

(* A number below a multiple has a smaller quotient, and the converse.     *)
LEMMA QuotientBounds ==
    ASSUME NEW x \in Nat, NEW k \in Nat, NEW n \in Nat \ {0}
    PROVE  (x < k * n) <=> (x \div n < k)
<1> DEFINE q == x \div n
           r == x % n
<1>1. q \in Nat /\ r \in 0 .. n - 1 /\ x = n * q + r
  BY Quotient
<1> HIDE DEF q, r
<1>2. ASSUME q < k PROVE x < k * n
  <2>1. n * (q + 1) <= n * k
    BY <1>1, <1>2
  <2>2. n * (q + 1) = n * q + n /\ n * k = k * n /\ n * q \in Nat
    BY <1>1
  <2> QED
    BY <1>1, <2>1, <2>2
<1>3. ASSUME k <= q PROVE k * n <= x
  <2>1. n * k <= n * q
    BY <1>1, <1>3
  <2>2. n * k = k * n /\ n * q \in Nat /\ n * k \in Nat
    BY <1>1
  <2> QED
    BY <1>1, <2>1, <2>2
<1>4. k * n \in Nat
  OBVIOUS
<1> QED
  BY <1>1, <1>2, <1>3, <1>4 DEF q

(* Two numbers with the same remainder are at least the divisor apart.     *)
LEMMA SameRemainder ==
    ASSUME NEW x \in Nat, NEW y \in Nat, NEW n \in Nat \ {0}, x < y, x % n = y % n
    PROVE  x + n <= y
<1> DEFINE q == x \div n
           d == y \div n
<1>1. q \in Nat /\ d \in Nat /\ x = n * q + (x % n) /\ y = n * d + (y % n)
  BY Quotient
<1>2. x % n \in Nat
  BY Quotient
<1> HIDE DEF q, d
<1>3. n * q \in Nat /\ n * d \in Nat /\ n * q < n * d
  BY <1>1, <1>2
<1>4. q < d
  <2>1. ASSUME d <= q PROVE FALSE
    <3>1. n * d <= n * q
      BY <1>1, <2>1
    <3> QED
      BY <1>3, <3>1
  <2> QED
    BY <1>1, <2>1
<1>5. n * (q + 1) <= n * d
  BY <1>1, <1>4
<1>6. n * (q + 1) = n * q + n
  BY <1>1
<1> QED
  BY <1>1, <1>2, <1>3, <1>5, <1>6
-----------------------------------------------------------------------------
(* The constants as numbers.                                               *)
LEMMA BootNumbers ==
    /\ RADIX \in Nat \ {0} /\ PAGE_SIZE \in Nat \ {0} /\ EXTRA_PAGES \in Nat
    /\ KERNEL_HALF \in 0 .. RADIX - 1 /\ VirtualOffset \in Nat
    /\ RADIX * RADIX \in Nat /\ RADIX * RADIX * RADIX \in Nat
<1>1. /\ RADIX \in Nat \ {0} /\ PAGE_SIZE \in Nat \ {0} /\ EXTRA_PAGES \in Nat
      /\ KERNEL_HALF \in 0 .. RADIX - 1
  BY BootAssumption DEF BootAssumption, Index
<1>2. RADIX * RADIX \in Nat /\ KERNEL_HALF * RADIX \in Nat
  BY <1>1
<1>3. RADIX * RADIX * RADIX \in Nat /\ KERNEL_HALF * RADIX * RADIX \in Nat
  BY <1>1, <1>2
<1>4. VirtualOffset \in Nat
  BY <1>1, <1>3 DEF VirtualOffset
<1> QED
  BY <1>1, <1>2, <1>3, <1>4

\* The digits of a physical page above the first.
Digit1(p) == p \div RADIX
Digit2(p) == Digit1(p) \div RADIX
Digit3(p) == Digit2(p) \div RADIX

(* The indices of a page at VIRTUAL_OFFSET are the digits of the page; the *)
(* offset adds to the index of the directory only.                         *)
LEMMA Indices ==
    ASSUME NEW p \in Nat
    PROVE  /\ Digit1(p) \in Nat /\ Digit2(p) \in Nat /\ Digit3(p) \in Nat
           /\ vpn_0(p + VirtualOffset) = p % RADIX
           /\ vpn_1(p + VirtualOffset) = Digit1(p) % RADIX
           /\ vpn_2(p + VirtualOffset) = Digit2(p) % RADIX
           /\ vpn_3(p + VirtualOffset) = (Digit3(p) + KERNEL_HALF) % RADIX
<1> DEFINE h1 == KERNEL_HALF * RADIX
           h2 == h1 * RADIX
           v == p + VirtualOffset
<1>0. RADIX \in Nat \ {0} /\ KERNEL_HALF \in Nat
  BY BootNumbers
<1>1. h1 \in Nat
  BY <1>0
<1>2. h2 \in Nat
  <2> HIDE DEF h1
  <2> QED
    BY <1>0, <1>1
<1>3. v = p + h2 * RADIX
  BY DEF VirtualOffset
<1>4. Digit1(p) \in Nat
  BY <1>0, Quotient DEF Digit1
<1>5. Digit2(p) \in Nat
  BY <1>0, <1>4, Quotient DEF Digit2
<1>6. Digit3(p) \in Nat
  BY <1>0, <1>5, Quotient DEF Digit3
<1>7. v \div RADIX = Digit1(p) + h1 * RADIX /\ v % RADIX = p % RADIX
  <2>1. (p + h2 * RADIX) \div RADIX = (p \div RADIX) + h2 /\ (p + h2 * RADIX) % RADIX = p % RADIX
    <3> HIDE DEF h2
    <3> QED
      BY <1>0, <1>2, AddMultiple
  <2> HIDE DEF v
  <2> QED
    BY <1>3, <2>1 DEF Digit1
<1>8. /\ (Digit1(p) + h1 * RADIX) \div RADIX = Digit2(p) + KERNEL_HALF * RADIX
      /\ (Digit1(p) + h1 * RADIX) % RADIX = Digit1(p) % RADIX
  <2>1. /\ (Digit1(p) + h1 * RADIX) \div RADIX = (Digit1(p) \div RADIX) + h1
        /\ (Digit1(p) + h1 * RADIX) % RADIX = Digit1(p) % RADIX
    <3> HIDE DEF h1
    <3> QED
      BY <1>0, <1>1, <1>4, AddMultiple
  <2> QED
    BY <2>1 DEF Digit2
<1>9. /\ (Digit2(p) + KERNEL_HALF * RADIX) \div RADIX = Digit3(p) + KERNEL_HALF
      /\ (Digit2(p) + KERNEL_HALF * RADIX) % RADIX = Digit2(p) % RADIX
  BY <1>0, <1>5, AddMultiple DEF Digit3
<1> HIDE DEF v, h1
<1>10. /\ vpn_0(v) = p % RADIX /\ vpn_1(v) = Digit1(p) % RADIX
       /\ vpn_2(v) = Digit2(p) % RADIX /\ vpn_3(v) = (Digit3(p) + KERNEL_HALF) % RADIX
  BY <1>7, <1>8, <1>9 DEF vpn_0, vpn_1, vpn_2, vpn_3
<1> QED
  BY <1>4, <1>5, <1>6, <1>10 DEF v

(* Remainders are indices.                                                 *)
LEMMA IndicesInRange ==
    ASSUME NEW p \in Nat
    PROVE  /\ vpn_0(p + VirtualOffset) \in Index /\ vpn_1(p + VirtualOffset) \in Index
           /\ vpn_2(p + VirtualOffset) \in Index /\ vpn_3(p + VirtualOffset) \in Index
<1>1. /\ Digit1(p) \in Nat /\ Digit2(p) \in Nat /\ Digit3(p) + KERNEL_HALF \in Nat
      /\ RADIX \in Nat \ {0}
  BY BootNumbers, Indices
<1>2. \A x \in Nat : x % RADIX \in Index
  BY <1>1, Quotient DEF Index
<1> QED
  BY <1>1, <1>2, Indices

(* In RAM: the directory's index is KERNEL_HALF, and the next one is not   *)
(* that of the UART.                                                       *)
LEMMA RamIndices ==
    ASSUME NEW p \in Nat, p < RADIX * RADIX * RADIX
    PROVE  /\ vpn_3(p + VirtualOffset) = KERNEL_HALF
           /\ p < RADIX * RADIX => vpn_2(p + VirtualOffset) = 0
           /\ p >= RADIX * RADIX => vpn_2(p + VirtualOffset) # 0
<1> DEFINE r2 == RADIX * RADIX
<1>0. RADIX \in Nat \ {0} /\ r2 \in Nat /\ KERNEL_HALF \in 0 .. RADIX - 1
  BY BootNumbers
<1>1. Digit1(p) \in Nat /\ Digit2(p) \in Nat /\ Digit3(p) \in Nat
  BY Indices
<1>2. Digit1(p) < r2
  <2> HIDE DEF r2
  <2>1. p < r2 * RADIX
    BY DEF r2
  <2> QED
    BY <1>0, <2>1, QuotientBounds DEF Digit1
<1>3. Digit2(p) < RADIX
  BY <1>0, <1>1, <1>2, QuotientBounds DEF Digit2
<1>4. Digit3(p) = 0
  <2>1. Digit2(p) < 1 * RADIX
    BY <1>0, <1>1, <1>3
  <2>2. Digit3(p) < 1
    BY <1>0, <1>1, <2>1, QuotientBounds DEF Digit3
  <2> QED
    BY <1>1, <2>2
<1>5. ASSUME NEW x \in 0 .. RADIX - 1 PROVE x % RADIX = x
  <2> DEFINE d == x \div RADIX
             f == x % RADIX
  <2>1. x \in Nat /\ d \in Nat /\ f \in 0 .. RADIX - 1 /\ x = RADIX * d + f
    BY <1>0, Quotient
  <2> HIDE DEF d, f
  <2>2. RADIX * d + f = RADIX * 0 + x
    BY <1>0, <2>1
  <2>3. f = x
    BY <1>0, <2>1, <2>2, QuotientUnique
  <2> QED
    BY <2>3 DEF f
<1>6. /\ vpn_3(p + VirtualOffset) = KERNEL_HALF
      /\ vpn_2(p + VirtualOffset) = Digit2(p)
  <2>1. Digit3(p) + KERNEL_HALF \in 0 .. RADIX - 1 /\ Digit2(p) \in 0 .. RADIX - 1
    BY <1>0, <1>1, <1>3, <1>4
  <2>2. (Digit3(p) + KERNEL_HALF) % RADIX = KERNEL_HALF /\ Digit2(p) % RADIX = Digit2(p)
    BY <1>0, <1>4, <1>5, <2>1
  <2> QED
    BY <2>2, Indices
<1>7. (p < r2) <=> (Digit1(p) < RADIX)
  BY <1>0, QuotientBounds DEF Digit1
<1>8. (Digit1(p) < 1 * RADIX) <=> (Digit2(p) < 1)
  BY <1>0, <1>1, QuotientBounds DEF Digit2
<1>9. 1 * RADIX = RADIX
  BY <1>0
<1> QED
  BY <1>0, <1>1, <1>6, <1>7, <1>8, <1>9
-----------------------------------------------------------------------------
FirstPage == kernel_start \div PAGE_SIZE
Virtual(p) == p + VirtualOffset

\* The three entries above page p, and the one for it unless it was replaced.
EntriesFor(p) ==
    /\ table[Directory][vpn_3(Virtual(p))] = First
    /\ table[First][vpn_2(Virtual(p))] = Second
    /\ table[Second][vpn_1(Virtual(p))] = Third
    /\ (table[Third][vpn_0(Virtual(p))] = p) <=> (p + RADIX > s7)

UartEntries ==
    /\ table[First][vpn_2(Virtual(UART_PAGE))] = UartSecond
    /\ table[UartSecond][vpn_1(Virtual(UART_PAGE))] = UartThird
    /\ table[UartThird][vpn_0(Virtual(UART_PAGE))] = UART_PAGE

\* Where the loop stands, and what the tables hold.
BInv ==
    /\ BootTypeOK
    /\ pc[0] \in {"start", "map", "c", "os"}
    /\ FirstPage \in Nat /\ kernel_start = FirstPage * PAGE_SIZE
    /\ RADIX * RADIX <= FirstPage /\ FirstPage <= s7 /\ s7 < RADIX * RADIX * RADIX
    /\ s9 <= RADIX * RADIX * RADIX * PAGE_SIZE /\ kernel_start < kernel_end
    /\ s7 = FirstPage \/ s7 * PAGE_SIZE < s9
    /\ pc[0] = "start" => s7 = FirstPage
    /\ pc[0] \in {"c", "os"} => s9 <= (s7 + 1) * PAGE_SIZE
    /\ pc[0] # "start" => \A p \in FirstPage .. s7 : EntriesFor(p)
    /\ pc[0] = "os" => UartEntries

(* The end of what is mapped is an address.                                *)
LEMMA EndOfMap ==
    ASSUME kernel_end \in Nat
    PROVE  s9 \in Nat /\ kernel_end <= s9
<1>1. EXTRA_PAGES * PAGE_SIZE \in Nat
  BY BootNumbers
<1> QED
  BY <1>1 DEF s9

(* A page whose address is below that of another.                          *)
LEMMA PageOrder ==
    ASSUME NEW a \in Int, NEW b \in Int, a * PAGE_SIZE < b * PAGE_SIZE
    PROVE  a < b
<1>1. PAGE_SIZE \in Nat \ {0}
  BY BootNumbers
<1>2. ASSUME b <= a PROVE b * PAGE_SIZE <= a * PAGE_SIZE
  BY <1>1, <1>2
<1>3. a * PAGE_SIZE \in Int /\ b * PAGE_SIZE \in Int
  BY <1>1
<1> QED
  BY <1>2, <1>3

(* The start: the image lies in RAM, above the UART's entry.               *)
LEMMA BootInitInv == Init => BInv
<1> SUFFICES ASSUME Init PROVE BInv
  OBVIOUS
<1> USE BootNumbers
<1> DEFINE r2 == RADIX * RADIX
           r3 == r2 * RADIX
           e == EXTRA_PAGES * PAGE_SIZE
<1>1. PICK n \in KernelSizes : kernel_end = kernel_start + n
  BY DEF Init
<1>2. /\ kernel_start \in Nat /\ kernel_start % PAGE_SIZE = 0 /\ n \in Nat \ {0}
      /\ r2 * PAGE_SIZE <= kernel_start /\ kernel_start + n + e <= r3 * PAGE_SIZE
  BY <1>1, BootAssumption DEF Init, BootAssumption
<1>3. FirstPage \in Nat /\ kernel_start = FirstPage * PAGE_SIZE
  <2>1. /\ FirstPage \in Nat
        /\ kernel_start = PAGE_SIZE * FirstPage + (kernel_start % PAGE_SIZE)
    BY <1>2, Quotient DEF FirstPage
  <2>2. PAGE_SIZE * FirstPage = FirstPage * PAGE_SIZE /\ PAGE_SIZE * FirstPage \in Nat
    BY <2>1
  <2> QED
    BY <1>2, <2>1, <2>2
<1>4. r2 <= FirstPage
  <2>1. ~(kernel_start < r2 * PAGE_SIZE)
    <3>1. r2 * PAGE_SIZE \in Nat
      OBVIOUS
    <3> HIDE DEF r2
    <3> QED
      BY <1>2, <3>1
  <2>2. ~(FirstPage < r2)
    <3> HIDE DEF r2
    <3>1. r2 \in Nat
      BY DEF r2
    <3> QED
      BY <1>2, <2>1, <3>1, QuotientBounds DEF FirstPage
  <2> QED
    BY <1>3, <2>2
<1>5. e \in Nat /\ r3 * PAGE_SIZE \in Nat /\ r3 \in Nat
  OBVIOUS
<1> HIDE DEF e, r3
<1>6. s9 <= r3 * PAGE_SIZE /\ kernel_start < kernel_end /\ kernel_end \in Nat
  BY <1>1, <1>2, <1>5 DEF s9, e
<1>7. FirstPage < r3
  <2>1. kernel_start < r3 * PAGE_SIZE
    BY <1>2, <1>5
  <2> QED
    BY <1>2, <1>5, <2>1, QuotientBounds DEF FirstPage
<1>8. BootTypeOK
  <2>1. pc \in [Harts -> {"start", "map", "c", "os", "park"}] /\ s7 \in Nat
    BY <1>3 DEF Init, FirstPage
  <2>2. PICK g \in Garbage \cup {Invalid} : table = [t \in BootTables |-> [i \in Index |-> g]]
    BY DEF Init
  <2>3. g \in Int
    BY BootAssumption DEF BootAssumption, Invalid
  <2> QED
    BY <1>2, <1>6, <2>1, <2>2, <2>3 DEF BootTypeOK
<1>9. pc[0] = "start" /\ s7 = FirstPage
  BY BootAssumption DEF Init, BootAssumption, FirstPage
<1> QED
  BY <1>3, <1>4, <1>6, <1>7, <1>8, <1>9 DEF BInv, r3

(* One turn of the loop: the new page has its entries; an older one loses  *)
(* its own to it exactly when it is a table's length away.                 *)
LEMMA MapOne ==
    ASSUME BInv, NEW q \in Nat, q < RADIX * RADIX * RADIX,
           table' = boot_map_address(q), s7' = q, UNCHANGED <<kernel_start, kernel_end>>,
           \/ pc[0] = "start" /\ q = FirstPage
           \/ pc[0] # "start" /\ q = s7 + 1
    PROVE  /\ \A p \in FirstPage .. q : EntriesFor(p)'
           /\ table' \in [BootTables -> [Index -> Int]]
<1> USE BootNumbers
<1>0. RADIX \in Nat \ {0} /\ FirstPage \in Nat /\ s7 \in Nat /\ FirstPage <= s7
  BY DEF BInv, BootTypeOK
<1> DEFINE w == Virtual(q)
<1>1. vpn_0(w) \in Index /\ vpn_1(w) \in Index /\ vpn_2(w) \in Index /\ vpn_3(w) \in Index
  BY IndicesInRange DEF Virtual
<1>2. table \in [BootTables -> [Index -> Int]]
  BY DEF BInv, BootTypeOK
<1>3. table' = [table EXCEPT ![Directory][vpn_3(w)] = First, ![First][vpn_2(w)] = Second,
                             ![Second][vpn_1(w)] = Third, ![Third][vpn_0(w)] = q]
  BY DEF boot_map_address, Virtual
<1>4. table' \in [BootTables -> [Index -> Int]]
  BY <1>1, <1>2, <1>3 DEF BootTables, Directory, First, Second, Third
<1> HIDE DEF w
<1>5. ASSUME NEW t \in Index
      PROVE  /\ table'[Directory][t] = IF t = vpn_3(w) THEN First ELSE table[Directory][t]
             /\ table'[First][t] = IF t = vpn_2(w) THEN Second ELSE table[First][t]
             /\ table'[Second][t] = IF t = vpn_1(w) THEN Third ELSE table[Second][t]
             /\ table'[Third][t] = IF t = vpn_0(w) THEN q ELSE table[Third][t]
  BY <1>1, <1>2, <1>3 DEF BootTables, Directory, First, Second, Third
<1>6. ASSUME NEW p \in FirstPage .. q PROVE EntriesFor(p)'
  <2> DEFINE v == Virtual(p)
  <2>0. p \in Nat
    BY <1>0
  <2>1. vpn_0(v) \in Index /\ vpn_1(v) \in Index /\ vpn_2(v) \in Index /\ vpn_3(v) \in Index
    BY <2>0, IndicesInRange DEF Virtual
  <2>2. (vpn_0(v) = p % RADIX) /\ (vpn_0(w) = q % RADIX)
    BY <2>0, Indices DEF Virtual, w
  <2>3. CASE p = q
    <3>1. vpn_0(v) = vpn_0(w) /\ vpn_1(v) = vpn_1(w) /\ vpn_2(v) = vpn_2(w) /\ vpn_3(v) = vpn_3(w)
      BY <2>3 DEF w
    <3>2. p + RADIX > q
      BY <2>3, <1>0
    <3> HIDE DEF v
    <3>3. /\ table'[Directory][vpn_3(v)] = First /\ table'[First][vpn_2(v)] = Second
          /\ table'[Second][vpn_1(v)] = Third /\ table'[Third][vpn_0(v)] = p
      BY <1>5, <2>1, <2>3, <3>1
    <3> QED
      BY <3>2, <3>3 DEF EntriesFor, v
  <2>4. CASE p # q
    <3>1. pc[0] # "start" /\ q = s7 + 1 /\ p \in FirstPage .. s7 /\ p < q
      BY <2>4, <1>0
    <3>2. /\ table[Directory][vpn_3(v)] = First /\ table[First][vpn_2(v)] = Second
          /\ table[Second][vpn_1(v)] = Third
          /\ (table[Third][vpn_0(v)] = p) <=> (p + RADIX > s7)
      BY <3>1 DEF BInv, EntriesFor
    <3> HIDE DEF v
    <3>3. /\ table'[Directory][vpn_3(v)] = First /\ table'[First][vpn_2(v)] = Second
          /\ table'[Second][vpn_1(v)] = Third
      BY <1>5, <2>1, <3>2
    <3>4. (table'[Third][vpn_0(v)] = p) <=> (p + RADIX > q)
      <4>1. CASE vpn_0(v) = vpn_0(w)
        <5>1. table'[Third][vpn_0(v)] = q
          BY <1>5, <2>1, <4>1
        <5>2. p + RADIX <= q
          BY <1>0, <2>0, <2>2, <3>1, <4>1, SameRemainder
        <5> QED
          BY <5>1, <5>2, <3>1, <1>0, <2>0
      <4>2. CASE vpn_0(v) # vpn_0(w)
        <5>1. table'[Third][vpn_0(v)] = table[Third][vpn_0(v)]
          BY <1>5, <2>1, <4>2
        <5>2. p + RADIX # q
          <6>1. (p + 1 * RADIX) % RADIX = p % RADIX
            BY <1>0, <2>0, AddMultiple
          <6>2. 1 * RADIX = RADIX
            BY <1>0
          <6> QED
            BY <2>2, <4>2, <6>1, <6>2
        <5> QED
          BY <5>1, <5>2, <3>1, <3>2, <1>0, <2>0
      <4> QED
        BY <4>1, <4>2
    <3> QED
      BY <3>3, <3>4 DEF EntriesFor, v
  <2> QED
    BY <2>3, <2>4
<1> QED
  BY <1>4, <1>6

(* The UART's entries leave those of the pages in RAM alone.               *)
LEMMA MapUart ==
    ASSUME BInv, pc[0] = "c", table' = boot_uart_map_address,
           UNCHANGED <<kernel_start, kernel_end, s7>>
    PROVE  /\ \A p \in FirstPage .. s7 : EntriesFor(p)'
           /\ UartEntries'
           /\ table' \in [BootTables -> [Index -> Int]]
<1> DEFINE u == Virtual(UART_PAGE)
<1>0. UART_PAGE \in Nat /\ UART_PAGE < RADIX * RADIX
  BY BootAssumption, BootNumbers DEF BootAssumption
<1>1. vpn_0(u) \in Index /\ vpn_1(u) \in Index /\ vpn_2(u) \in Index
  BY <1>0, IndicesInRange DEF Virtual
<1>2. table \in [BootTables -> [Index -> Int]]
  BY DEF BInv, BootTypeOK
<1>3. table' = [table EXCEPT ![First][vpn_2(u)] = UartSecond,
                             ![UartSecond][vpn_1(u)] = UartThird,
                             ![UartThird][vpn_0(u)] = UART_PAGE]
  BY DEF boot_uart_map_address, Virtual
<1> HIDE DEF u
<1>4. table' \in [BootTables -> [Index -> Int]]
  BY <1>0, <1>1, <1>2, <1>3 DEF BootTables, First, UartSecond, UartThird
<1>5. /\ \A t \in {Directory, Second, Third} : table'[t] = table[t]
      /\ \A i \in Index \ {vpn_2(u)} : table'[First][i] = table[First][i]
      /\ table'[First][vpn_2(u)] = UartSecond
      /\ table'[UartSecond][vpn_1(u)] = UartThird
      /\ table'[UartThird][vpn_0(u)] = UART_PAGE
  BY <1>1, <1>2, <1>3 DEF BootTables, Directory, First, Second, Third, UartSecond, UartThird
<1>6. vpn_2(u) = 0
  <2>1. UART_PAGE < RADIX * RADIX * RADIX
    <3> DEFINE r2 == RADIX * RADIX
    <3>1. r2 \in Nat /\ RADIX \in Nat \ {0}
      BY BootNumbers
    <3> HIDE DEF r2
    <3>2. r2 <= r2 * RADIX /\ r2 * RADIX \in Nat
      BY <3>1
    <3> QED
      BY <1>0, <3>1, <3>2 DEF r2
  <2> QED
    BY <1>0, <2>1, RamIndices DEF u, Virtual
<1>7. ASSUME NEW p \in FirstPage .. s7 PROVE EntriesFor(p)'
  <2> DEFINE v == Virtual(p)
  <2>1. p \in Nat /\ p >= RADIX * RADIX /\ p < RADIX * RADIX * RADIX
    BY BootNumbers DEF BInv, BootTypeOK
  <2>2. vpn_2(v) \in Index /\ vpn_2(v) # vpn_2(u)
    BY <1>6, <2>1, IndicesInRange, RamIndices DEF Virtual
  <2>3. EntriesFor(p)
    BY DEF BInv
  <2> QED
    BY <1>5, <2>2, <2>3 DEF EntriesFor
<1> QED
  BY <1>4, <1>5, <1>7 DEF UartEntries, u

(* One step of any hart.                                                   *)
LEMMA BootStepInv == BInv /\ [Next]_vars => BInv'
<1> SUFFICES ASSUME BInv, [Next]_vars PROVE BInv'
  OBVIOUS
<1> DEFINE r2 == RADIX * RADIX
           r3 == r2 * RADIX
<1>0. /\ 0 \in Harts /\ pc \in [Harts -> {"start", "map", "c", "os", "park"}] /\ s7 \in Nat
      /\ kernel_end \in Nat /\ s9 \in Nat /\ PAGE_SIZE \in Nat \ {0} /\ r3 \in Nat
  BY BootAssumption, BootNumbers, EndOfMap DEF BInv, BootTypeOK, BootAssumption
<1>1. CASE UNCHANGED vars
  BY <1>1 DEF vars, BInv, BootTypeOK, FirstPage, s9, EntriesFor, UartEntries
<1>2. ASSUME NEW h \in Harts, park(h) PROVE BInv'
  <2>1. /\ pc' \in [Harts -> {"start", "map", "c", "os", "park"}] /\ pc'[0] = pc[0]
        /\ UNCHANGED <<kernel_start, kernel_end, s7, table>>
    BY <1>0, <1>2 DEF park
  <2> QED
    BY <2>1 DEF BInv, BootTypeOK, FirstPage, s9, EntriesFor, UartEntries
<1>3. CASE MapFirst
  <2>1. /\ pc' \in [Harts -> {"start", "map", "c", "os", "park"}] /\ pc'[0] = "map"
        /\ pc[0] = "start" /\ s7 = FirstPage /\ table' = boot_map_address(s7)
        /\ UNCHANGED <<kernel_start, kernel_end, s7>>
    BY <1>0, <1>3 DEF MapFirst, BInv
  <2>2. s7 < RADIX * RADIX * RADIX
    BY DEF BInv
  <2>3. /\ \A p \in FirstPage .. s7 : EntriesFor(p)'
        /\ table' \in [BootTables -> [Index -> Int]]
    BY <1>0, <2>1, <2>2, MapOne
  <2> QED
    BY <2>1, <2>3 DEF BInv, BootTypeOK, FirstPage, s9
<1>4. CASE map_next_address
  <2>1. /\ pc[0] = "map" /\ (s7 + 1) * PAGE_SIZE < s9
        /\ s7' = s7 + 1 /\ table' = boot_map_address(s7 + 1)
        /\ UNCHANGED <<pc, kernel_start, kernel_end>>
    BY <1>4 DEF map_next_address
  <2>2. s7 + 1 < r3
    <3>1. s9 <= r3 * PAGE_SIZE
      BY DEF BInv
    <3> HIDE DEF r3
    <3>2. (s7 + 1) * PAGE_SIZE \in Nat /\ r3 * PAGE_SIZE \in Nat
      BY <1>0
    <3>3. (s7 + 1) * PAGE_SIZE < r3 * PAGE_SIZE
      BY <1>0, <2>1, <3>1, <3>2
    <3> QED
      BY <1>0, <3>3, PageOrder
  <2>3. /\ \A p \in FirstPage .. s7 + 1 : EntriesFor(p)'
        /\ table' \in [BootTables -> [Index -> Int]]
    BY <1>0, <2>1, <2>2, MapOne
  <2> HIDE DEF r3
  <2>4. s7' < RADIX * RADIX * RADIX /\ s7' \in Nat
    BY <1>0, <2>1, <2>2 DEF r3
  <2>5. FirstPage' = FirstPage /\ s9' = s9 /\ FirstPage <= s7' /\ s7' * PAGE_SIZE < s9
    BY <1>0, <2>1 DEF BInv, FirstPage, s9
  <2> QED
    BY <2>1, <2>3, <2>4, <2>5 DEF BInv, BootTypeOK
<1>5. CASE MapDone
  <2>1. /\ pc' \in [Harts -> {"start", "map", "c", "os", "park"}]
        /\ pc[0] = "map" /\ pc'[0] = "c" /\ (s7 + 1) * PAGE_SIZE >= s9
        /\ UNCHANGED <<kernel_start, kernel_end, s7, table>>
    BY <1>0, <1>5 DEF MapDone
  <2>2. s9 <= (s7 + 1) * PAGE_SIZE
    <3>1. (s7 + 1) * PAGE_SIZE \in Nat
      BY <1>0
    <3> QED
      BY <1>0, <2>1, <3>1
  <2> QED
    BY <2>1, <2>2 DEF BInv, BootTypeOK, FirstPage, s9, EntriesFor
<1>6. CASE jump_to_c
  <2>1. /\ pc' \in [Harts -> {"start", "map", "c", "os", "park"}]
        /\ pc[0] = "c" /\ pc'[0] = "os" /\ table' = boot_uart_map_address
        /\ UNCHANGED <<kernel_start, kernel_end, s7>>
    BY <1>0, <1>6 DEF jump_to_c
  <2>2. /\ \A p \in FirstPage .. s7 : EntriesFor(p)'
        /\ UartEntries'
        /\ table' \in [BootTables -> [Index -> Int]]
    BY <2>1, MapUart
  <2> QED
    BY <2>1, <2>2 DEF BInv, BootTypeOK, FirstPage, s9
<1> QED
  BY <1>1, <1>2, <1>3, <1>4, <1>5, <1>6 DEF Next

(* The invariant of the boot tables.                                       *)
THEOREM BootInvariance == Spec => []BInv
  BY BootInitInv, BootStepInv, PTL DEF Spec

(* What the walk of a mapped page yields.                                  *)
LEMMA WalkOfMapped ==
    ASSUME BInv, pc[0] # "start", NEW p \in FirstPage .. s7
    PROVE  (Translate(p + VirtualOffset) = p) <=> (p + RADIX > s7)
<1>1. EntriesFor(p)
  BY DEF BInv
<1> QED
  BY <1>1 DEF EntriesFor, Virtual, Translate, Follow, BootTables, Directory, First, Second, Third

(* For every image, radix and garbage: boot.s maps what it has mapped      *)
(* exactly, up to the length of its one table of the third level.          *)
THEOREM BootMapStaysExact == Spec => []BootMapExact
<1>1. ASSUME BInv, pc[0] # "start", NEW p \in FirstPage .. s7
      PROVE  (Translate(p + VirtualOffset) = p) <=> (p + RADIX \notin FirstPage .. s7)
  <2>1. p \in Nat /\ s7 \in Nat /\ FirstPage \in Nat /\ RADIX \in Nat
    BY <1>1, BootNumbers DEF BInv, BootTypeOK
  <2> QED
    BY <1>1, <2>1, WalkOfMapped
<1>2. BInv => BootMapExact
  BY <1>1 DEF BootMapExact, MappedPages, FirstPage
<1> QED
  BY <1>2, BootInvariance, PTL

(* The walk to the UART's page goes through the kernel's directory entry.  *)
LEMMA WalkOfUart ==
    ASSUME BInv, pc[0] = "os"
    PROVE  Translate(UART_PAGE + VirtualOffset) = UART_PAGE
<1>1. UART_PAGE \in Nat /\ UART_PAGE < RADIX * RADIX
  BY BootAssumption, BootNumbers DEF BootAssumption
<1>2. FirstPage \in Nat /\ s7 \in Nat /\ FirstPage <= s7 /\ RADIX * RADIX <= FirstPage
  BY DEF BInv, BootTypeOK
<1>3. FirstPage < RADIX * RADIX * RADIX /\ UART_PAGE < RADIX * RADIX * RADIX
  BY <1>1, <1>2, BootNumbers DEF BInv
<1>4. /\ vpn_3(Virtual(FirstPage)) = KERNEL_HALF
      /\ vpn_3(Virtual(UART_PAGE)) = KERNEL_HALF
  BY <1>1, <1>2, <1>3, RamIndices DEF Virtual
<1>5. EntriesFor(FirstPage) /\ UartEntries
  BY <1>2 DEF BInv
<1>6. table[Directory][vpn_3(Virtual(UART_PAGE))] = First
  BY <1>4, <1>5 DEF EntriesFor
<1> QED
  BY <1>5, <1>6 DEF UartEntries, Virtual, Translate, Follow,
                    BootTables, Directory, First, UartSecond, UartThird

(* The pages in use before paging_init switches tables are among those     *)
(* that boot.s maps, and less than a table's length apart.                 *)
LEMMA EarlyPagesMapped ==
    ASSUME BInv, pc[0] = "os", ImageFits
    PROVE  EarlyPages \subseteq FirstPage .. s7 /\ s7 < FirstPage + RADIX
<1> DEFINE P == PAGE_SIZE
           A == AlignedEnd
           F == FirstPage
           E == EXTRA_PAGES
<1>0. /\ P \in Nat \ {0} /\ E \in Nat /\ RADIX \in Nat \ {0} /\ F \in Nat /\ s7 \in Nat
      /\ kernel_end \in Nat /\ kernel_start = F * P /\ kernel_start \in Nat
      /\ kernel_start < kernel_end /\ s9 \in Nat /\ s9 = kernel_end + E * P /\ E * P \in Nat
      /\ F <= s7 /\ FLAG_PAGES \in Nat /\ FLAG_PAGES + 3 <= E /\ F * P \in Nat
  BY BootAssumption, BootNumbers, EndOfMap DEF BInv, BootTypeOK, BootAssumption, ImageFits, s9
<1>1. s7 < F + RADIX
  <2>1. CASE s7 = F
    BY <1>0, <2>1
  <2>2. CASE s7 * P < s9
    <3>1. s9 - kernel_start <= RADIX * P
      BY DEF ImageFits
    <3>2. (F + RADIX) * P = F * P + RADIX * P /\ s7 * P \in Nat /\ RADIX * P \in Nat
      BY <1>0
    <3>3. s7 * P < (F + RADIX) * P
      BY <1>0, <2>2, <3>1, <3>2
    <3> QED
      BY <1>0, <3>3, PageOrder
  <2> QED
    BY <2>1, <2>2 DEF BInv
<1>2. A \in Nat /\ F <= A /\ A * P <= kernel_end + P - 1
  <2> DEFINE x == kernel_end + P - 1
  <2>1. x \in Nat /\ ~(x < F * P)
    BY <1>0
  <2> HIDE DEF x
  <2>2. x \div P \in Nat /\ x % P \in 0 .. P - 1 /\ x = P * (x \div P) + (x % P)
    BY <1>0, <2>1, Quotient
  <2>3. ~(x \div P < F)
    BY <1>0, <2>1, QuotientBounds
  <2>4. A = x \div P
    BY DEF AlignedEnd, x
  <2> HIDE DEF A
  <2>5. A \in Nat /\ F <= A /\ P * A = A * P /\ P * A \in Nat
    BY <1>0, <2>2, <2>3, <2>4
  <2>6. A * P <= x
    BY <1>0, <2>2, <2>4, <2>5
  <2> QED
    BY <2>5, <2>6 DEF x
<1> HIDE DEF A
<1>3. A + E - 2 <= s7
  <2>1. (A + E - 2) * P = A * P + E * P - 2 * P /\ A * P \in Nat /\ (s7 + 1) * P \in Nat
    BY <1>0, <1>2
  <2>2. s9 <= (s7 + 1) * P
    BY DEF BInv
  <2>3. (A + E - 2) * P < (s7 + 1) * P
    BY <1>0, <1>2, <2>1, <2>2
  <2>4. A + E - 2 < s7 + 1
    BY <1>0, <1>2, <2>3, PageOrder
  <2> QED
    BY <1>0, <1>2, <2>4
<1>4. (kernel_end - 1) \div P <= A
  <2> DEFINE y == kernel_end - 1
             x == kernel_end + P - 1
  <2>1. y \in Nat /\ x \in Nat /\ x = y + 1 * P
    BY <1>0
  <2>2. (y + 1 * P) \div P = (y \div P) + 1 /\ y \div P \in Nat
    <3> HIDE DEF x, y
    <3>1. y \div P \in Nat
      BY <1>0, <2>1, Quotient
    <3>2. ASSUME NEW k \in Nat PROVE (y + k * P) \div P = (y \div P) + k
      BY <1>0, <2>1, AddMultiple
    <3> QED
      BY <3>1, <3>2
  <2>3. A = x \div P
    BY DEF A, AlignedEnd
  <2> HIDE DEF x, y
  <2>4. y \div P <= A
    BY <1>2, <2>1, <2>2, <2>3
  <2> QED
    BY <2>4 DEF y
<1>5. ASSUME NEW p \in F .. (kernel_end - 1) \div P PROVE p \in F .. s7
  <2>1. (kernel_end - 1) \div P \in Nat
    <3>1. kernel_end - 1 \in Nat
      BY <1>0
    <3> QED
      BY <1>0, <3>1, Quotient
  <2> QED
    BY <1>0, <1>2, <1>3, <1>4, <2>1
<1>6. ASSUME NEW i \in 0 .. num_frames - 1 PROVE A + i \div P \in F .. s7
  <2>1. num_frames \in Int /\ num_frames <= (E - 1) * P
    BY <1>0, BootAssumption DEF num_frames, ImageFits, BootAssumption
  <2>2. i \in Nat /\ i < (E - 1) * P /\ E - 1 \in Nat
    <3>1. (E - 1) * P \in Int
      BY <1>0
    <3> QED
      BY <1>0, <2>1, <3>1
  <2>3. i \div P \in Nat /\ i \div P < E - 1
    BY <1>0, <2>2, Quotient, QuotientBounds
  <2> QED
    BY <1>0, <1>2, <1>3, <2>3
<1>7. A + FLAG_PAGES \in F .. s7 /\ A + FLAG_PAGES + 1 \in F .. s7
  BY <1>0, <1>2, <1>3
<1> QED
  BY <1>1, <1>5, <1>6, <1>7 DEF EarlyPages, A, FirstPage

(* For every image that fits the tables: os_start and what it calls find   *)
(* image, flags, first frames and UART where they are, until paging_init   *)
(* has switched to tables of its own.                                      *)
THEOREM EarlyAccessStaysMapped == Spec => []EarlyAccessMapped
<1>1. ASSUME BInv, pc[0] = "os", ImageFits, NEW p \in EarlyPages \cup {UART_PAGE}
      PROVE  Translate(p + VirtualOffset) = p
  <2>1. CASE p = UART_PAGE
    BY <1>1, <2>1, WalkOfUart
  <2>2. CASE p \in EarlyPages
    <3>1. p \in FirstPage .. s7 /\ s7 < FirstPage + RADIX
      BY <1>1, <2>2, EarlyPagesMapped
    <3>2. s7 \in Nat /\ FirstPage \in Nat /\ RADIX \in Nat
      BY <1>1, BootNumbers DEF BInv, BootTypeOK
    <3>3. p + RADIX > s7
      BY <3>1, <3>2
    <3> QED
      BY <1>1, <3>1, <3>3, WalkOfMapped
  <2> QED
    BY <1>1, <2>1, <2>2
<1>2. BInv => EarlyAccessMapped
  BY <1>1 DEF EarlyAccessMapped
<1> QED
  BY <1>2, BootInvariance, PTL
=============================================================================
