----------------------------- MODULE VirtioBlk ------------------------------
(***************************************************************************)
(* kernel/drivers/virtio/blk.cpp and the device it talks to.               *)
(*                                                                         *)
(* The driver fills descriptors 0 to 2 with the same chain for every       *)
(* operation, publishes it in the available ring, notifies the device and  *)
(* polls the status byte of the request; it never looks at the used ring.  *)
(* The device runs concurrently: it may look at the ring at any time, and  *)
(* reads the chain one descriptor at a time.  Every slot of the available  *)
(* ring holds 0, the head of the only chain, so the ring is its index.     *)
(* Requests and buffers come from kalloc and are never freed; two of each, *)
(* used in turn, stand for them: what the device may still hold is at most *)
(* the previous one.  A buffer is contiguous in the kernel's heap, but its *)
(* pages lie in whatever frames the heap got, and the device, which does   *)
(* not translate, is given one physical address for all of it.  A request  *)
(* is taken to lie inside one page.                                        *)
(***************************************************************************)
EXTENDS Integers

CONSTANTS
    SECTOR,        \* bytes in a sector (512)
    PARTITION,     \* first sector of the partition (2048)
    DiskSectors,   \* capacity of the disk
    IDX,           \* 2^16: the ring's indices are uint16_t
    UINT32,        \* 2^32: the request's sector and a descriptor's length are uint32_t
    PAGE_SIZE,     \* bytes in a page (4096)
    Places,        \* where a buffer may lie: offset in its first page, frames of its pages
    Reads,         \* calls of read: [offset, length]
    Writes         \* calls of write_blocks: [sector, length]

DiskBytes == 0 .. DiskSectors * SECTOR - 1
Garbage == -1     \* what fresh heap memory holds
Written == -2     \* the byte that write_blocks stores
Pending == "0x12"

\* read: the sectors it asks for, and where the caller's bytes start in them.
\* Mutant: the partition's offset is forgotten.
ReadSector_raw(r) == r.offset \div SECTOR
ReadSector(r) == r.offset \div SECTOR + PARTITION
too_much_at_start(r) == r.offset % SECTOR
ReadLength(r) == (r.length \div SECTOR + 1) * SECTOR

ReadOp(r, p) == [type |-> "in", sector |-> ReadSector(r), length |-> ReadLength(r), place |-> p]
WriteOp(w, p) == [type |-> "out", sector |-> w.sector, length |-> w.length, place |-> p]
Ops == {ReadOp(r, p) : r \in Reads, p \in Places} \cup {WriteOp(w, p) : w \in Writes, p \in Places}

Extent(o) == o.sector * SECTOR .. o.sector * SECTOR + o.length - 1

\* The physical address of byte k of a buffer at p: page by page.
PageOf(p, k) == (p.start + k) \div PAGE_SIZE
Physical(p, k) == p.frame[PageOf(p, k)] * PAGE_SIZE + ((p.start + k) % PAGE_SIZE)

\* The byte of a transfer that goes to byte k of the buffer or comes from there:
\* the device counts on from the address of the first byte.
Transferred(p, k) == Physical(p, k) - Physical(p, 0)

ASSUME BlkAssumption ==
    /\ SECTOR \in Nat \ {0}
    /\ PARTITION \in Nat /\ DiskSectors \in Nat
    /\ IDX \in Nat \ {0, 1, 2}
    /\ UINT32 \in Nat \ {0}
    /\ PAGE_SIZE \in Nat \ {0}
    /\ Reads \subseteq [offset : Nat, length : Nat]
    /\ Writes \subseteq [sector : Nat, length : Nat]
    /\ \A p \in Places : p.start \in 0 .. PAGE_SIZE - 1 /\ \A i \in DOMAIN p.frame : p.frame[i] \in Nat
    /\ \A o \in Ops : \A k \in 0 .. o.length - 1 : PageOf(o.place, k) \in DOMAIN o.place.frame

Requests == {0, 1}
NoDesc == [request |-> 0, length |-> 0, device_writes |-> FALSE]

VARIABLES
    pc,           \* where the driver is
    queue,        \* "ready", or "unset" after a failed init
    call,         \* the read or write in progress, or the last one
    op,           \* the operation basic_op works on
    request,      \* the request in use
    header,       \* header[q] = the operation of request q: type and sector in its
                  \* header, length and place of its buffer
    status,       \* status[q] = its status byte
    buffer,       \* buffer[q] = bytes of the buffer used with request q
    desc,         \* descriptors 0 to 2
    avail_idx,    \* index of the available ring
    result,       \* what the last call returned
    kicked,       \* the device has been notified
    dev,          \* where the device is
    last_avail,   \* the device's index into the available ring
    chain,        \* the descriptors the device has read
    used_idx,     \* index of the used ring
    disk,         \* bytes of the disk
    served        \* history: transfers for the current operation
driverVars == <<pc, queue, call, op, request, header, desc, avail_idx, result>>
deviceVars == <<dev, last_avail, chain, used_idx, disk, served>>
vars == <<driverVars, deviceVars, status, buffer, kicked>>

NoResult == [ret |-> 0, bytes |-> <<>>]
InOperation == {"header", "buffer", "status", "publish", "notify", "poll"}

\* Where driver and device can be; the ring's indices stay 16 bits wide.
TypeOK ==
    /\ pc \in {"off", "idle", "halt", "wild"} \cup InOperation
    /\ queue \in {"unset", "ready"}
    /\ request \in Requests
    /\ status \in [Requests -> {Pending, "ok", "ioerr"}]
    /\ DOMAIN desc = 0 .. 2
    /\ avail_idx \in 0 .. IDX - 1
    /\ last_avail \in 0 .. IDX - 1
    /\ used_idx \in 0 .. IDX - 1
    /\ kicked \in BOOLEAN
    /\ dev \in {"idle", "desc1", "desc2", "transfer", "status", "push"}
    /\ DOMAIN disk = DiskBytes
    /\ served \in Nat
-----------------------------------------------------------------------------
NoOp == [type |-> "in", sector |-> 0, length |-> 0, place |-> [start |-> 0, frame |-> <<>>]]

Init ==
    /\ pc = "off" /\ queue = "unset"
    /\ call = [offset |-> 0, length |-> 0] /\ op = NoOp
    /\ request = 0
    /\ header = [q \in Requests |-> NoOp]
    /\ status = [q \in Requests |-> "ok"]
    /\ buffer = [q \in Requests |-> <<>>]
    /\ desc = [d \in 0 .. 2 |-> NoDesc]
    /\ avail_idx = 0 /\ last_avail = 0 /\ used_idx = 0
    /\ result = NoResult
    /\ kicked = FALSE
    /\ dev = "idle"
    /\ chain = [d \in 0 .. 2 |-> NoDesc]
    /\ disk = [a \in DiskBytes |-> a]
    /\ served = 0

\* os_start: get_block_device finds no device and the kernel stops, or init runs.
\* Init fails when the device refuses the features or its queue is in use, absent
\* or too small; os_start goes on all the same, and queue stays unset.
get_block_device_and_init ==
    /\ pc = "off"
    /\ \/ pc' = "halt" /\ UNCHANGED queue
       \/ pc' = "idle" /\ queue' \in {"ready", "unset"}
    /\ UNCHANGED <<call, op, request, header, desc, avail_idx, result,
                   deviceVars, status, buffer, kicked>>

\* Entry of basic_op: a fresh request with its status preset.  Without a queue
\* the first descriptor is written through an uninitialised pointer.
basic_op(o, bytes) ==
    LET q == 1 - request IN
    /\ pc' = IF queue = "ready" THEN "header" ELSE "wild"
    /\ op' = o
    /\ request' = q
    /\ header' = [header EXCEPT ![q] = [o EXCEPT !.sector = o.sector % UINT32]]
    /\ status' = [status EXCEPT ![q] = Pending]
    /\ buffer' = [buffer EXCEPT ![q] = bytes]
    /\ served' = 0
    /\ UNCHANGED <<queue, desc, avail_idx, result, kicked,
                   dev, last_avail, chain, used_idx, disk>>

read(r) ==
    /\ pc = "idle"
    /\ call' = r
    /\ \E p \in Places : basic_op(ReadOp(r, p), [i \in 0 .. ReadLength(r) - 1 |-> Garbage])

write_blocks(w) ==
    /\ pc = "idle"
    /\ w.length % SECTOR = 0
    /\ call' = w
    /\ \E p \in Places : basic_op(WriteOp(w, p), [i \in 0 .. w.length - 1 |-> Written])

\* basic_op refuses a length that is not a whole number of sectors.
write_blocks_refused(w) ==
    /\ pc = "idle"
    /\ w.length % SECTOR # 0
    /\ call' = w
    /\ result' = [ret |-> -1, bytes |-> <<>>]
    /\ UNCHANGED <<pc, queue, op, request, header, desc, avail_idx,
                   deviceVars, status, buffer, kicked>>

Describe(d, length, device_writes) ==
    /\ desc' = [desc EXCEPT ![d] =
         [request |-> request, length |-> length, device_writes |-> device_writes]]
    /\ UNCHANGED <<queue, call, op, request, header, avail_idx, result,
                   deviceVars, status, buffer, kicked>>

FillHeader == pc = "header" /\ pc' = "buffer" /\ Describe(0, 1, FALSE)
FillBuffer == pc = "buffer" /\ pc' = "status" /\ Describe(1, op.length % UINT32, op.type = "in")
FillStatus == pc = "status" /\ pc' = "publish" /\ Describe(2, 1, TRUE)

\* Mutant: the index does not wrap.
Publish_unwrapped ==
    /\ pc = "publish" /\ pc' = "notify"
    /\ avail_idx' = avail_idx + 1
    /\ UNCHANGED <<queue, call, op, request, header, desc, result,
                   deviceVars, status, buffer, kicked>>

\* Mutant: two slots are published.
Publish_twice ==
    /\ pc = "publish" /\ pc' = "notify"
    /\ avail_idx' = (avail_idx + 2) % IDX
    /\ UNCHANGED <<queue, call, op, request, header, desc, result,
                   deviceVars, status, buffer, kicked>>

Publish ==
    /\ pc = "publish" /\ pc' = "notify"
    /\ avail_idx' = (avail_idx + 1) % IDX
    /\ UNCHANGED <<queue, call, op, request, header, desc, result,
                   deviceVars, status, buffer, kicked>>

\* Mutant: the device is not notified.
Notify_forgotten ==
    /\ pc = "notify" /\ pc' = "poll"
    /\ UNCHANGED kicked
    /\ UNCHANGED <<queue, call, op, request, header, desc, avail_idx, result,
                   deviceVars, status, buffer>>

Notify ==
    /\ pc = "notify" /\ pc' = "poll"
    /\ kicked' = TRUE
    /\ UNCHANGED <<queue, call, op, request, header, desc, avail_idx, result,
                   deviceVars, status, buffer>>

\* memcpy of read: bytes past the end of the temporary buffer are heap garbage.
Copied ==
    [i \in 0 .. call.length - 1 |->
        LET k == too_much_at_start(call) + i
        IN  IF k < op.length THEN buffer[request][k] ELSE Garbage]

\* Mutant: the status is not polled.
Return_early ==
    /\ pc = "poll" /\ pc' = "idle"
    /\ result' = [ret |-> 0, bytes |-> IF op.type = "in" THEN Copied ELSE <<>>]
    /\ UNCHANGED <<queue, call, op, request, header, desc, avail_idx,
                   deviceVars, status, buffer, kicked>>

\* The poll loop ends; the status it saw is not looked at.
Return ==
    /\ pc = "poll" /\ pc' = "idle"
    /\ status[request] # Pending
    /\ result' = [ret |-> 0, bytes |-> IF op.type = "in" THEN Copied ELSE <<>>]
    /\ UNCHANGED <<queue, call, op, request, header, desc, avail_idx,
                   deviceVars, status, buffer, kicked>>
-----------------------------------------------------------------------------
\* The device: external, as the virtio specification that blk.cpp follows has it.
DeviceFetch ==
    /\ dev = "idle" /\ last_avail # avail_idx
    /\ dev' = "desc1"
    /\ chain' = [chain EXCEPT ![0] = desc[0]]
    /\ UNCHANGED <<driverVars, last_avail, used_idx, disk, served, status, buffer, kicked>>

DeviceFetchNext ==
    /\ \/ dev = "desc1" /\ dev' = "desc2" /\ chain' = [chain EXCEPT ![1] = desc[1]]
       \/ dev = "desc2" /\ dev' = "transfer" /\ chain' = [chain EXCEPT ![2] = desc[2]]
    /\ UNCHANGED <<driverVars, last_avail, used_idx, disk, served, status, buffer, kicked>>

\* What o stores at byte a of the disk: the buffer's, or what lies in the frames
\* behind its first page instead.
Sent(o, a) ==
    IF \E k \in 0 .. o.length - 1 : Transferred(o.place, k) = a - o.sector * SECTOR
    THEN Written ELSE Garbage
Apply(o, d) ==
    IF o.type = "out" THEN [a \in DiskBytes |-> IF a \in Extent(o) THEN Sent(o, a) ELSE d[a]] ELSE d

\* What the chain asks for: its header, for length and place of its second descriptor.
Asked == [header[chain[0].request] EXCEPT !.length = chain[1].length,
                                          !.place = header[chain[1].request].place]

\* The buffer b after the bytes of the disk were stored at consecutive addresses.
Received(o, b) ==
    [k \in DOMAIN b |->
        IF Transferred(o.place, k) \in 0 .. o.length - 1
        THEN disk[o.sector * SECTOR + Transferred(o.place, k)] ELSE b[k]]

DeviceTransfer ==
    /\ dev = "transfer" /\ dev' = "status"
    /\ served' = served + 1
    /\ Extent(Asked) \subseteq DiskBytes
    /\ disk' = Apply(Asked, disk)
    /\ buffer' = [buffer EXCEPT ![chain[1].request] =
          IF chain[1].device_writes THEN Received(Asked, @) ELSE @]
    /\ UNCHANGED <<driverVars, last_avail, chain, used_idx, status, kicked>>

\* A medium error, or an extent that leaves the disk.
DeviceFail ==
    /\ dev = "transfer" /\ dev' = "push"
    /\ served' = served + 1
    /\ status' = [status EXCEPT ![chain[2].request] = "ioerr"]
    /\ UNCHANGED <<driverVars, last_avail, chain, used_idx, disk, buffer, kicked>>

DeviceStatus ==
    /\ dev = "status" /\ dev' = "push"
    /\ status' = [status EXCEPT ![chain[2].request] = "ok"]
    /\ UNCHANGED <<driverVars, last_avail, chain, used_idx, disk, served, buffer, kicked>>

DevicePush ==
    /\ dev = "push" /\ dev' = "idle"
    /\ used_idx' = (used_idx + 1) % IDX
    /\ last_avail' = (last_avail + 1) % IDX
    /\ UNCHANGED <<driverVars, chain, disk, served, status, buffer, kicked>>

\* The device finds the ring empty and waits for the next notification.
DeviceSleep ==
    /\ dev = "idle" /\ kicked /\ last_avail = avail_idx
    /\ kicked' = FALSE
    /\ UNCHANGED <<driverVars, deviceVars, status, buffer>>

DriverStep == FillHeader \/ FillBuffer \/ FillStatus \/ Publish \/ Notify \/ Return
DeviceStep == DeviceFetchNext \/ DeviceTransfer \/ DeviceFail \/ DeviceStatus \/ DevicePush

Next ==
    \/ get_block_device_and_init
    \/ \E r \in Reads : read(r)
    \/ \E w \in Writes : write_blocks(w) \/ write_blocks_refused(w)
    \/ DriverStep
    \/ DeviceFetch \/ DeviceStep \/ DeviceSleep

Spec == Init /\ [][Next]_vars

\* The driver's code runs to its end; a device that has been notified goes on
\* until the ring is empty, one that has not need not look at the ring.
FairSpec ==
    /\ Spec
    /\ WF_vars(DriverStep)
    /\ WF_vars(DeviceStep)
    /\ WF_vars(kicked /\ DeviceFetch)
-----------------------------------------------------------------------------
(* While the device works on a chain the driver is waiting for it, and the *)
(* three descriptors, the header and the operation belong together: the    *)
(* driver rewrites them for the next operation only after the device has   *)
(* stored the status, although it never waits for the used ring.           *)
ChainUntorn ==
    dev \in {"transfer", "status"} =>
        /\ pc \in {"notify", "poll"}
        /\ \A d \in 0 .. 2 : chain[d].request = request
        /\ header[request] = op
        /\ chain[1].length = op.length
        /\ chain[1].device_writes = (op.type = "in")

\* The bytes asked for end within the length / 512 + 1 sectors that read takes from
\* the device; one that starts inside a sector may need one more.
Covered(r) == too_much_at_start(r) + r.length <= ReadLength(r)

\* The pages of the buffer lie in neighbouring frames: the heap got them without
\* anybody taking a frame in between, or the buffer is inside one page.
Neighbours(o) ==
    \A k \in 0 .. o.length - 1 :
        o.place.frame[PageOf(o.place, k)] = o.place.frame[0] + PageOf(o.place, k)

(* The promise of the comment on read, that length bytes from offset on    *)
(* are in the caller's buffer, sector arithmetic, transfer and copy        *)
(* included, for the calls for which the code can keep it: the device has  *)
(* carried the request out, the bytes end within the sectors asked for,    *)
(* and the frames of the temporary buffer are neighbours.  blk_error is    *)
(* the same promise for all calls.                                         *)
ReadDelivers ==
    (/\ pc = "idle" /\ op.type = "in" /\ op # NoOp /\ result.ret = 0
     /\ status[request] = "ok" /\ Covered(call) /\ Neighbours(op)) =>
        \A i \in 0 .. call.length - 1 :
            result.bytes[i] = disk[PARTITION * SECTOR + call.offset + i]

(* The driver implements a synchronous disk: each operation is performed   *)
(* exactly once, between its call and its return.                          *)
Sync == INSTANCE SyncDisk
    WITH stage <- IF pc \notin InOperation \cup {"wild"} THEN "idle"
                  ELSE IF served = 0 THEN "called"
                  ELSE IF served = 1 THEN "performed" ELSE "again"
ImplementsSyncDisk == Sync!Spec

(* The device is at most one finished chain behind, so the two never       *)
(* disagree about the ring when the indices wrap.                          *)
RingInStep ==
    /\ used_idx = last_avail
    /\ avail_idx \in {last_avail, (last_avail + 1) % IDX, (last_avail + 2) % IDX}
    /\ pc \in {"header", "buffer", "status", "publish", "idle"} =>
        \/ last_avail = avail_idx
        \/ dev = "push" /\ avail_idx = (last_avail + 1) % IDX

(* Every operation returns.                                                *)
OperationReturns == pc \in InOperation ~> pc = "idle"

(* What the comments on read and basic_op say of a call that returns 0:    *)
(* length bytes from offset on are in the buffer.                          *)
SuccessMeansDone ==
    (pc = "idle" /\ op.type = "in" /\ result.ret = 0 /\ op # NoOp) =>
        \A i \in 0 .. call.length - 1 :
            result.bytes[i] = disk[PARTITION * SECTOR + call.offset + i]
=============================================================================
