-------------------------- MODULE VirtioBlk_proofs --------------------------
(***************************************************************************)
(* Driver and device, for every sector and page size, disk, width of the  *)
(* ring's indices, set of calls and place of their buffers, as long as     *)
(* sectors and lengths fit 32 bits.                                        *)
(***************************************************************************)
EXTENDS VirtioBlk, TLAPS

\* Neither the constructor of the request nor a descriptor cuts anything off.
FitsIn32Bits == \A o \in Ops : o.sector < UINT32 /\ o.length < UINT32

Operation == [type : {"in", "out"}, sector : Nat, length : Nat, place : Places \cup {NoOp.place}]
Descriptor == [request : Requests, length : Nat, device_writes : BOOLEAN]
Indices == 0 .. IDX - 1
Succ(i) == (i + 1) % IDX

\* The descriptors of the chain, as basic_op fills them.
HeaderDesc == [request |-> request, length |-> 1, device_writes |-> FALSE]
BufferDesc == [request |-> request, length |-> op.length, device_writes |-> op.type = "in"]
StatusDesc == [request |-> request, length |-> 1, device_writes |-> TRUE]

Types ==
    /\ pc \in {"off", "idle", "halt", "wild"} \cup InOperation
    /\ queue \in {"unset", "ready"}
    /\ op \in Operation
    /\ request \in Requests
    /\ header \in [Requests -> Operation]
    /\ status \in [Requests -> {Pending, "ok", "ioerr"}]
    /\ buffer = [q \in Requests |-> buffer[q]]
    /\ desc \in [0 .. 2 -> Descriptor]
    /\ chain \in [0 .. 2 -> Descriptor]
    /\ avail_idx \in Indices /\ last_avail \in Indices /\ used_idx = last_avail
    /\ kicked \in BOOLEAN
    /\ dev \in {"idle", "desc1", "desc2", "transfer", "status", "push"}
    /\ disk \in [DiskBytes -> Nat \cup {Written, Garbage}]
    /\ served \in {0, 1}

Published == pc \in {"notify", "poll"}

\* The device is idle, or has yet to push the chain of an operation that is over.
Level == dev = "idle" /\ avail_idx = last_avail
OneBehind == dev = "push" /\ avail_idx = Succ(last_avail)

\* Not yet begun: also while the device still has to push the chain before.
Waiting ==
    /\ served = 0 /\ status[request] = Pending
    /\ \/ dev \in {"idle", "desc1", "desc2", "transfer"} /\ avail_idx = Succ(last_avail)
       \/ dev = "push" /\ avail_idx = Succ(Succ(last_avail))
Moved == served = 1 /\ dev = "status" /\ status[request] = Pending /\ avail_idx = Succ(last_avail)
Finished == served = 1 /\ status[request] # Pending /\ (Level \/ OneBehind)

\* Where the two stand to each other.
InStep ==
    /\ ~Published => (Level \/ OneBehind)
    /\ Published => (Waiting \/ Moved \/ Finished)
    /\ pc \in InOperation /\ ~Published => served = 0 /\ status[request] = Pending

\* What the driver has put into the queue so far, and the device has read of it.
ChainFilled ==
    /\ pc \in InOperation => op \in Ops /\ header[request] = op
    /\ pc \in {"buffer", "status", "publish", "notify", "poll"} => desc[0] = HeaderDesc
    /\ pc \in {"status", "publish", "notify", "poll"} => desc[1] = BufferDesc
    /\ pc \in {"publish", "notify", "poll"} => desc[2] = StatusDesc
ChainRead ==
    /\ dev \in {"desc1", "desc2", "transfer", "status"} => chain[0] = HeaderDesc
    /\ dev \in {"desc2", "transfer", "status"} => chain[1] = BufferDesc
    /\ dev \in {"transfer", "status"} => chain[2] = StatusDesc

\* The bytes a finished read has in its buffer, if its frames are neighbours.
OnDisk(o) == [i \in 0 .. o.length - 1 |-> disk[o.sector * SECTOR + i]]
DataArrived ==
    /\ pc = "off" => op = NoOp
    /\ (pc \in InOperation /\ op.type = "in") =>
          /\ call \in Reads /\ op.place \in Places /\ op = ReadOp(call, op.place)
          /\ DOMAIN buffer[request] = 0 .. op.length - 1
    /\ (Published /\ op.type = "in" /\ served = 1 /\ (dev = "status" \/ status[request] = "ok"))
          => (Neighbours(op) => buffer[request] = OnDisk(op))

BInv == Types /\ InStep /\ ChainFilled /\ ChainRead /\ DataArrived
-----------------------------------------------------------------------------
\* Indices wrap, and three in a row differ.
LEMMA SuccFacts ==
    ASSUME NEW i \in Indices
    PROVE  /\ Succ(i) \in Indices /\ Succ(Succ(i)) \in Indices
           /\ Succ(i) # i /\ Succ(Succ(i)) # i /\ Succ(Succ(i)) # Succ(i)
           /\ (i + 2) % IDX = Succ(Succ(i))
<1>1. IDX \in Nat /\ IDX > 2
    BY BlkAssumption
<1>2. \A k \in Nat : k < IDX => k % IDX = k
    BY <1>1
<1>3. IDX % IDX = 0 /\ (IDX + 1) % IDX = 1
    BY <1>1
<1>4. \A k \in Indices : Succ(k) = IF k + 1 = IDX THEN 0 ELSE k + 1
    BY <1>1, <1>2, <1>3 DEF Succ, Indices
<1>5. (i + 2) % IDX = IF i + 2 < IDX THEN i + 2 ELSE IF i + 2 = IDX THEN 0 ELSE 1
    BY <1>1, <1>2, <1>3 DEF Indices
<1>6. Succ(i) \in Indices
    BY <1>1, <1>4 DEF Indices
<1> QED BY <1>1, <1>4, <1>5, <1>6 DEF Indices

\* Operations have their types.
LEMMA OpTypes ==
    /\ Ops \subseteq Operation /\ NoOp \in Operation
    /\ \A r \in Reads, p \in Places : ReadOp(r, p) \in Ops /\ ReadOp(r, p).type = "in"
    /\ \A w \in Writes, p \in Places : WriteOp(w, p) \in Ops /\ WriteOp(w, p).type = "out"
    /\ \A o \in Ops : o.place \in Places
<1>1. \A r \in Reads : r.offset \in Nat /\ r.length \in Nat
    BY BlkAssumption
<1>2. \A w \in Writes : w.sector \in Nat /\ w.length \in Nat
    BY BlkAssumption
<1>3. ASSUME NEW n \in Nat PROVE n \div SECTOR \in Nat
    BY BlkAssumption
<1>4. \A r \in Reads : ReadSector(r) \in Nat
    BY <1>1, <1>3, BlkAssumption DEF ReadSector
<1>5. ASSUME NEW r \in Reads PROVE ReadLength(r) \in Nat
    <2>1. r.length \div SECTOR \in Nat
        BY <1>1, <1>3
    <2>2. \A n \in Nat : (n + 1) * SECTOR \in Nat
        BY BlkAssumption
    <2> QED BY <2>1, <2>2 DEF ReadLength
<1>6. \A r \in Reads, p \in Places : ReadOp(r, p) \in Operation
    BY <1>4, <1>5 DEF ReadOp, Operation
<1>7. \A w \in Writes, p \in Places : WriteOp(w, p) \in Operation
    BY <1>2 DEF WriteOp, Operation
<1>8. \A o \in Ops : \/ \E r \in Reads, p \in Places : o = ReadOp(r, p)
                     \/ \E w \in Writes, p \in Places : o = WriteOp(w, p)
    BY DEF Ops
<1>9. /\ \A r, p : ReadOp(r, p).place = p /\ ReadOp(r, p).type = "in"
      /\ \A w, p : WriteOp(w, p).place = p /\ WriteOp(w, p).type = "out"
    BY DEF ReadOp, WriteOp
<1>10. NoOp \in Operation
    BY DEF NoOp, Operation
<1>11. /\ \A r \in Reads, p \in Places : ReadOp(r, p) \in Ops
       /\ \A w \in Writes, p \in Places : WriteOp(w, p) \in Ops
    BY DEF Ops
<1> QED BY <1>6, <1>7, <1>8, <1>9, <1>10, <1>11

\* Descriptors have their types.
LEMMA DescTypes ==
    /\ NoDesc \in Descriptor
    /\ (request \in Requests /\ op \in Operation) =>
          HeaderDesc \in Descriptor /\ BufferDesc \in Descriptor /\ StatusDesc \in Descriptor
<1>1. ASSUME NEW q \in Requests, NEW n \in Nat, NEW b \in BOOLEAN
      PROVE  [request |-> q, length |-> n, device_writes |-> b] \in Descriptor
    BY <1>1 DEF Descriptor
<1>2. 0 \in Requests /\ 0 \in Nat /\ 1 \in Nat /\ TRUE \in BOOLEAN /\ FALSE \in BOOLEAN
      /\ (op.type = "in") \in BOOLEAN
    BY DEF Requests
<1>3. op \in Operation => op.length \in Nat
    BY DEF Operation
<1> QED BY <1>1, <1>2, <1>3 DEF NoDesc, HeaderDesc, BufferDesc, StatusDesc

\* Driver and device start with nothing to do.
LEMMA InitBInv == Init => BInv
<1> SUFFICES ASSUME Init PROVE BInv
    OBVIOUS
<1>1. Types
    <2>1. desc \in [0 .. 2 -> Descriptor] /\ chain \in [0 .. 2 -> Descriptor]
        BY DescTypes DEF Init
    <2>2. 0 \in Requests /\ 0 \in Indices
        BY BlkAssumption DEF Requests, Indices
    <2>3. disk \in [DiskBytes -> Nat \cup {Written, Garbage}]
        BY DEF Init, DiskBytes
    <2> QED BY <2>1, <2>2, <2>3, OpTypes DEF Init, Types, InOperation
<1>2. InStep
    BY DEF Init, InStep, Published, Level, InOperation
<1>3. ChainFilled /\ ChainRead /\ DataArrived
    BY DEF Init, ChainFilled, ChainRead, DataArrived, InOperation, Published
<1> QED BY <1>1, <1>2, <1>3 DEF BInv
-----------------------------------------------------------------------------
\* get_block_device and init touch only pc and queue.
LEMMA InitDeviceBInv ==
    ASSUME BInv, get_block_device_and_init
    PROVE  BInv'
<1>1. Types'
    BY DEF BInv, Types, get_block_device_and_init, deviceVars, Descriptor, Indices, InOperation,
           Operation, Requests
<1>2. InStep'
    BY DEF BInv, InStep, Published, Level, OneBehind, InOperation, get_block_device_and_init,
           deviceVars, Succ
<1>3. ChainFilled' /\ ChainRead' /\ DataArrived'
    BY DEF BInv, ChainFilled, ChainRead, DataArrived, InOperation, Published, HeaderDesc,
           BufferDesc, StatusDesc, get_block_device_and_init, deviceVars
<1> QED BY <1>1, <1>2, <1>3 DEF BInv

\* Entry of basic_op: a new request; the device has at most to push the last chain.
LEMMA BasicOpBInv ==
    ASSUME FitsIn32Bits, BInv, pc = "idle", NEW o \in Ops, NEW bytes, basic_op(o, bytes),
           o.type = "in" => /\ call' \in Reads /\ o = ReadOp(call', o.place)
                            /\ DOMAIN bytes = 0 .. o.length - 1
    PROVE  BInv'
<1> DEFINE q == 1 - request
<1>1. q \in Requests /\ request' = q /\ o \in Operation
    BY OpTypes DEF BInv, Types, basic_op, Requests
<1>2. [o EXCEPT !.sector = o.sector % UINT32] = o
    <2>1. o.sector \in Nat /\ o.sector < UINT32 /\ UINT32 \in Nat
        BY <1>1, BlkAssumption DEF FitsIn32Bits, Operation
    <2>2. o.sector % UINT32 = o.sector
        BY <2>1
    <2> QED BY <1>1, <2>2 DEF Operation
<1>3. /\ pc' \in {"header", "wild"} /\ op' = o
      /\ header' = [header EXCEPT ![q] = o]
      /\ status' = [status EXCEPT ![q] = Pending]
      /\ buffer' = [buffer EXCEPT ![q] = bytes] /\ served' = 0
      /\ UNCHANGED <<queue, desc, avail_idx, kicked, dev, last_avail, chain, used_idx, disk>>
    BY <1>2 DEF basic_op
<1> HIDE DEF q
<1>4. Types'
    BY <1>1, <1>3 DEF BInv, Types, InOperation
<1>5. status'[request'] = Pending /\ header'[request'] = o
    BY <1>1, <1>3 DEF BInv, Types
<1>6. Level \/ OneBehind
    BY DEF BInv, InStep, Published
<1>7. (Level \/ OneBehind)'
    BY <1>3, <1>6 DEF Level, OneBehind, Succ
<1>8. InStep'
    BY <1>3, <1>5, <1>7 DEF InStep, Published
<1>9. ChainFilled' /\ ChainRead'
    BY <1>3, <1>5, <1>6 DEF ChainFilled, ChainRead, InOperation, Level, OneBehind
<1>10. DataArrived'
    <2>1. buffer'[request'] = bytes /\ op'.place \in Places
        BY <1>1, <1>3, OpTypes DEF BInv, Types
    <2> QED BY <1>3, <2>1 DEF DataArrived, Published
<1> QED BY <1>4, <1>8, <1>9, <1>10 DEF BInv

\* The two calls of basic_op.
LEMMA CallBInv ==
    ASSUME FitsIn32Bits, BInv,
           (\E r \in Reads : read(r)) \/ (\E w \in Writes : write_blocks(w))
    PROVE  BInv'
<1>1. ASSUME NEW r \in Reads, read(r)
      PROVE  BInv'
    <2> DEFINE bytes == [i \in 0 .. ReadLength(r) - 1 |-> Garbage]
    <2>1. PICK p \in Places : pc = "idle" /\ call' = r /\ basic_op(ReadOp(r, p), bytes)
        BY <1>1 DEF read
    <2>2. ReadOp(r, p) \in Ops /\ ReadOp(r, p) = ReadOp(call', ReadOp(r, p).place)
          /\ DOMAIN bytes = 0 .. ReadOp(r, p).length - 1
        BY <2>1, OpTypes DEF ReadOp
    <2> HIDE DEF bytes
    <2> QED BY <2>1, <2>2, BasicOpBInv
<1>2. ASSUME NEW w \in Writes, write_blocks(w)
      PROVE  BInv'
    <2> DEFINE bytes == [i \in 0 .. w.length - 1 |-> Written]
    <2>1. PICK p \in Places : pc = "idle" /\ basic_op(WriteOp(w, p), bytes)
        BY <1>2 DEF write_blocks
    <2>2. WriteOp(w, p) \in Ops /\ WriteOp(w, p).type = "out"
        BY OpTypes
    <2> HIDE DEF bytes
    <2> QED BY <2>1, <2>2, BasicOpBInv
<1> QED BY <1>1, <1>2

\* A refused write changes nothing but what the caller sees.
LEMMA RefusedBInv ==
    ASSUME BInv, NEW w \in Writes, write_blocks_refused(w)
    PROVE  BInv'
<1>1. pc = "idle" /\ UNCHANGED <<pc, queue, op, request, header, desc, avail_idx,
                                 deviceVars, status, buffer, kicked>>
    BY DEF write_blocks_refused
<1>2. Types'
    BY <1>1 DEF BInv, Types, deviceVars
<1>3. InStep'
    BY <1>1 DEF BInv, InStep, Published, Level, OneBehind, InOperation, deviceVars, Succ
<1>4. ChainFilled' /\ ChainRead' /\ DataArrived'
    BY <1>1 DEF BInv, ChainFilled, ChainRead, DataArrived, InOperation, Published, HeaderDesc,
                BufferDesc, StatusDesc, deviceVars
<1> QED BY <1>2, <1>3, <1>4 DEF BInv
\* One descriptor: the device does not read a chain before it is published.
LEMMA FillBInv ==
    ASSUME FitsIn32Bits, BInv, FillHeader \/ FillBuffer \/ FillStatus
    PROVE  BInv'
<1>1. /\ UNCHANGED <<queue, call, op, request, header, avail_idx, result, deviceVars,
                     status, buffer, kicked>>
      /\ pc \in {"header", "buffer", "status"} /\ pc' \in {"buffer", "status", "publish"}
    BY DEF FillHeader, FillBuffer, FillStatus, Describe
<1>0. op.length % UINT32 = op.length
    <2>1. op \in Ops /\ op \in Operation /\ UINT32 \in Nat /\ UINT32 > 0
        BY <1>1, OpTypes, BlkAssumption DEF BInv, ChainFilled, InOperation
    <2>2. op.length \in Nat /\ op.length < UINT32
        BY <2>1 DEF FitsIn32Bits, Operation
    <2> QED BY <2>1, <2>2
<1>2. \/ pc = "header" /\ pc' = "buffer" /\ desc' = [desc EXCEPT ![0] = HeaderDesc]
      \/ pc = "buffer" /\ pc' = "status" /\ desc' = [desc EXCEPT ![1] = BufferDesc]
      \/ pc = "status" /\ pc' = "publish" /\ desc' = [desc EXCEPT ![2] = StatusDesc]
    BY <1>0 DEF FillHeader, FillBuffer, FillStatus, Describe, HeaderDesc, BufferDesc, StatusDesc
<1>3. /\ HeaderDesc \in Descriptor /\ BufferDesc \in Descriptor /\ StatusDesc \in Descriptor
      /\ HeaderDesc' = HeaderDesc /\ BufferDesc' = BufferDesc /\ StatusDesc' = StatusDesc
    BY <1>1, DescTypes DEF BInv, Types, HeaderDesc, BufferDesc, StatusDesc
<1>4. desc' \in [0 .. 2 -> Descriptor]
    BY <1>2, <1>3 DEF BInv, Types
<1>5. Types'
    BY <1>1, <1>4 DEF BInv, Types, InOperation, deviceVars
<1>6. InStep'
    BY <1>1 DEF BInv, InStep, Published, Level, OneBehind, InOperation, deviceVars, Succ
<1>7. ChainFilled'
    BY <1>1, <1>2, <1>3 DEF BInv, Types, ChainFilled, InOperation
<1>8. ChainRead' /\ DataArrived'
    BY <1>1, <1>3 DEF BInv, ChainRead, DataArrived, InOperation, Published, deviceVars
<1> QED BY <1>5, <1>6, <1>7, <1>8 DEF BInv

\* The chain becomes visible: the device is level, or one push behind.
LEMMA PublishBInv ==
    ASSUME BInv, Publish
    PROVE  BInv'
<1>1. /\ UNCHANGED <<queue, call, op, request, header, desc, result, deviceVars,
                     status, buffer, kicked>>
      /\ pc = "publish" /\ pc' = "notify" /\ avail_idx' = Succ(avail_idx)
    BY DEF Publish, Succ
<1>2. HeaderDesc' = HeaderDesc /\ BufferDesc' = BufferDesc /\ StatusDesc' = StatusDesc
    BY <1>1 DEF HeaderDesc, BufferDesc, StatusDesc
<1>3. Types'
    BY <1>1, SuccFacts DEF BInv, Types, InOperation, deviceVars
<1>4. served = 0 /\ status[request] = Pending /\ (Level \/ OneBehind)
    BY <1>1 DEF BInv, InStep, Published, InOperation
<1>5. Waiting'
    BY <1>1, <1>4 DEF Waiting, Level, OneBehind, deviceVars, Succ
<1>6. InStep'
    BY <1>1, <1>5 DEF InStep, Published
<1>7. ChainFilled' /\ ChainRead' /\ DataArrived'
    BY <1>1, <1>2, <1>4 DEF BInv, ChainFilled, ChainRead, DataArrived, InOperation, deviceVars
<1> QED BY <1>3, <1>6, <1>7 DEF BInv

\* Notification, and the device going back to sleep.
LEMMA NotifyBInv ==
    ASSUME BInv, Notify \/ DeviceSleep
    PROVE  BInv'
<1>1. /\ UNCHANGED <<queue, call, op, request, header, desc, avail_idx, result, deviceVars,
                     status, buffer>>
      /\ kicked' \in BOOLEAN
      /\ \/ pc' = pc
         \/ pc = "notify" /\ pc' = "poll"
    BY DEF Notify, DeviceSleep, driverVars
<1>2. HeaderDesc' = HeaderDesc /\ BufferDesc' = BufferDesc /\ StatusDesc' = StatusDesc
    BY <1>1 DEF HeaderDesc, BufferDesc, StatusDesc
<1>3. Types'
    BY <1>1 DEF BInv, Types, InOperation, deviceVars
<1>4. Published' = Published /\ (pc' \in InOperation) = (pc \in InOperation)
    BY <1>1 DEF Published, InOperation
<1>5. Waiting' = Waiting /\ Moved' = Moved /\ Finished' = Finished
      /\ Level' = Level /\ OneBehind' = OneBehind
    BY <1>1 DEF Waiting, Moved, Finished, Level, OneBehind, deviceVars, Succ
<1>6. InStep'
    BY <1>1, <1>4, <1>5 DEF BInv, InStep, deviceVars
<1>7. ChainFilled' /\ ChainRead' /\ DataArrived'
    BY <1>1, <1>2, <1>4 DEF BInv, ChainFilled, ChainRead, DataArrived, InOperation, deviceVars,
                            OnDisk
<1> QED BY <1>3, <1>6, <1>7 DEF BInv

\* The poll loop ends.
LEMMA ReturnBInv ==
    ASSUME BInv, Return
    PROVE  BInv'
<1>1. /\ UNCHANGED <<queue, call, op, request, header, desc, avail_idx, deviceVars,
                     status, buffer, kicked>>
      /\ pc = "poll" /\ pc' = "idle" /\ status[request] # Pending
    BY DEF Return
<1>2. Finished
    BY <1>1 DEF BInv, InStep, Published, Waiting, Moved
<1>3. (Level \/ OneBehind)'
    BY <1>1, <1>2 DEF Finished, Level, OneBehind, deviceVars, Succ
<1>4. Types'
    BY <1>1 DEF BInv, Types, InOperation, deviceVars
<1>5. InStep'
    BY <1>1, <1>3 DEF InStep, Published, InOperation
<1>6. ChainFilled' /\ ChainRead' /\ DataArrived'
    BY <1>1, <1>2 DEF ChainFilled, ChainRead, DataArrived, InOperation, Published, deviceVars,
                      Finished, Level, OneBehind
<1> QED BY <1>4, <1>5, <1>6 DEF BInv
-----------------------------------------------------------------------------
\* The device sees a chain only when it is published and waiting.
LEMMA FetchBInv ==
    ASSUME BInv, DeviceFetch \/ DeviceFetchNext
    PROVE  BInv'
<1>1. /\ UNCHANGED <<driverVars, last_avail, used_idx, disk, served, status, buffer, kicked>>
      /\ \/ /\ dev = "idle" /\ last_avail # avail_idx
            /\ dev' = "desc1" /\ chain' = [chain EXCEPT ![0] = desc[0]]
         \/ dev = "desc1" /\ dev' = "desc2" /\ chain' = [chain EXCEPT ![1] = desc[1]]
         \/ dev = "desc2" /\ dev' = "transfer" /\ chain' = [chain EXCEPT ![2] = desc[2]]
    BY DEF DeviceFetch, DeviceFetchNext
<1>2. HeaderDesc' = HeaderDesc /\ BufferDesc' = BufferDesc /\ StatusDesc' = StatusDesc
    BY <1>1 DEF HeaderDesc, BufferDesc, StatusDesc, driverVars
<1>3. chain' \in [0 .. 2 -> Descriptor]
    BY <1>1 DEF BInv, Types
<1>4. Types'
    BY <1>1, <1>3 DEF BInv, Types, driverVars, InOperation
<1>5. Published /\ Waiting /\ avail_idx = Succ(last_avail)
    BY <1>1 DEF BInv, InStep, Waiting, Moved, Finished, Level, OneBehind
<1>6. Waiting'
    BY <1>1, <1>5 DEF Waiting, driverVars, Succ
<1>7. InStep'
    BY <1>1, <1>5, <1>6 DEF InStep, Published, driverVars
<1>8. ChainFilled'
    BY <1>1, <1>2 DEF BInv, ChainFilled, driverVars
<1>9. desc[0] = HeaderDesc /\ desc[1] = BufferDesc /\ desc[2] = StatusDesc
    BY <1>5 DEF BInv, ChainFilled, Published
<1>10. ChainRead'
    BY <1>1, <1>2, <1>9 DEF BInv, Types, ChainRead
<1>11. DataArrived'
    BY <1>1, <1>5 DEF BInv, DataArrived, driverVars, Waiting, InOperation
<1> QED BY <1>4, <1>7, <1>8, <1>10, <1>11 DEF BInv

\* What the device is asked for is the driver's operation.
LEMMA AskedIsOp ==
    ASSUME BInv, dev = "transfer"
    PROVE  /\ Published /\ Waiting /\ avail_idx = Succ(last_avail)
           /\ chain[0] = HeaderDesc /\ chain[1] = BufferDesc /\ chain[2] = StatusDesc
           /\ op \in Ops /\ header[request] = op /\ Asked = op
<1>1. Published /\ Waiting /\ avail_idx = Succ(last_avail)
    BY DEF BInv, InStep, Waiting, Moved, Finished, Level, OneBehind
<1>2. chain[0] = HeaderDesc /\ chain[1] = BufferDesc /\ chain[2] = StatusDesc
    BY DEF BInv, ChainRead
<1>3. op \in Ops /\ header[request] = op
    BY <1>1 DEF BInv, ChainFilled, Published, InOperation
<1>4. chain[0].request = request /\ chain[1].request = request /\ chain[1].length = op.length
    BY <1>2 DEF HeaderDesc, BufferDesc
<1>5. Asked = op
    BY <1>3, <1>4, OpTypes DEF Asked, Operation
<1> QED BY <1>1, <1>2, <1>3, <1>5

\* Quotient and remainder make up the number.
LEMMA Division ==
    ASSUME NEW x \in Nat, NEW n \in Nat, n > 0
    PROVE  x \div n \in Nat /\ x % n \in 0 .. n - 1 /\ x = (x \div n) * n + (x % n)
BY SMT

\* In neighbouring frames, physical addresses count on like the buffer's own.
LEMMA InLine ==
    ASSUME NEW o \in Ops, Neighbours(o), NEW k \in 0 .. o.length - 1
    PROVE  Transferred(o.place, k) = k
<1> DEFINE p == o.place
           f == p.frame[0]
           g == PageOf(p, k)
           m == (p.start + k) % PAGE_SIZE
<1>1. PAGE_SIZE \in Nat /\ PAGE_SIZE > 0 /\ p \in Places /\ p.start \in 0 .. PAGE_SIZE - 1
    BY BlkAssumption, OpTypes
<1>2. o.length \in Nat /\ k \in Nat /\ 0 \in 0 .. o.length - 1
    BY OpTypes DEF Operation
<1>3. p.start + k \in Nat /\ p.start + 0 = p.start /\ p.start \in Nat /\ p.start < PAGE_SIZE
    BY <1>1, <1>2
<1>4. g \in Nat /\ m \in Nat /\ p.start + k = g * PAGE_SIZE + m
    BY <1>1, <1>3, Division DEF PageOf
<1>5. PageOf(p, 0) = 0 /\ (p.start + 0) % PAGE_SIZE = p.start
    BY <1>1, <1>3 DEF PageOf
<1>6. 0 \in DOMAIN p.frame
    BY <1>2, <1>5, BlkAssumption
<1>7. f \in Nat
    BY <1>1, <1>6, BlkAssumption
<1>8. p.frame[g] = f + g
    BY DEF Neighbours
<1>9. Physical(p, 0) = f * PAGE_SIZE + p.start
    BY <1>5 DEF Physical
<1>10. Physical(p, k) = (f + g) * PAGE_SIZE + m
    BY <1>8 DEF Physical
<1> HIDE DEF p, f, g, m
<1>11. (f + g) * PAGE_SIZE = f * PAGE_SIZE + g * PAGE_SIZE
    BY <1>1, <1>4, <1>7
<1>12. f * PAGE_SIZE \in Nat /\ g * PAGE_SIZE \in Nat
    BY <1>1, <1>4, <1>7
<1>13. Physical(p, k) - Physical(p, 0) = k
    BY <1>2, <1>3, <1>4, <1>9, <1>10, <1>11, <1>12
<1> QED BY <1>13 DEF Transferred, p

\* So the device's bytes arrive in their order.
LEMMA ReceivedInOrder ==
    ASSUME NEW o \in Ops, Neighbours(o), NEW b, DOMAIN b = 0 .. o.length - 1
    PROVE  Received(o, b) = OnDisk(o)
<1>1. \A k \in 0 .. o.length - 1 : Transferred(o.place, k) = k
    BY InLine
<1> QED BY <1>1 DEF Received, OnDisk

\* The data moves: once, and for the operation the driver waits for.
LEMMA TransferBInv ==
    ASSUME BInv, DeviceTransfer
    PROVE  BInv'
<1>1. /\ UNCHANGED <<driverVars, last_avail, chain, used_idx, status, kicked>>
      /\ dev = "transfer" /\ dev' = "status" /\ served' = served + 1
      /\ disk' = Apply(Asked, disk)
      /\ buffer' = [buffer EXCEPT ![chain[1].request] =
              IF chain[1].device_writes THEN Received(Asked, @) ELSE @]
    BY DEF DeviceTransfer
<1>2. HeaderDesc' = HeaderDesc /\ BufferDesc' = BufferDesc /\ StatusDesc' = StatusDesc
    BY <1>1 DEF HeaderDesc, BufferDesc, StatusDesc, driverVars
<1>3. /\ Published /\ Waiting /\ avail_idx = Succ(last_avail)
      /\ chain[0] = HeaderDesc /\ chain[1] = BufferDesc /\ chain[2] = StatusDesc
      /\ op \in Ops /\ header[request] = op /\ Asked = op
    BY <1>1, AskedIsOp
<1>4. chain[1].request = request /\ chain[1].device_writes = (op.type = "in")
    BY <1>3 DEF BufferDesc
<1>5. served' = 1
    BY <1>1, <1>3 DEF Waiting
<1>6. disk' \in [DiskBytes -> Nat \cup {Written, Garbage}]
    BY <1>1 DEF Apply, Sent, BInv, Types
<1>7. buffer' = [q \in Requests |-> buffer'[q]]
    BY <1>1 DEF BInv, Types
<1>8. Types'
    BY <1>1, <1>5, <1>6, <1>7 DEF BInv, Types, driverVars, InOperation
<1>9. Moved'
    BY <1>1, <1>3, <1>5 DEF Moved, Waiting, driverVars, Succ
<1>10. InStep'
    BY <1>1, <1>3, <1>9 DEF InStep, Published, driverVars
<1>11. ChainFilled' /\ ChainRead'
    BY <1>1, <1>2, <1>3 DEF BInv, ChainFilled, ChainRead, driverVars
<1>12. ASSUME op.type = "in"
       PROVE  /\ disk' = disk /\ DOMAIN buffer'[request] = DOMAIN buffer[request]
              /\ Neighbours(op) => buffer'[request] = OnDisk(op)
    <2>1. disk' = disk
        BY <1>1, <1>3, <1>12 DEF Apply
    <2>2. request \in DOMAIN buffer
        BY DEF BInv, Types
    <2>3. chain[1].device_writes
        BY <1>4, <1>12
    <2>4. buffer'[request] = Received(op, buffer[request])
        BY <1>1, <1>3, <1>4, <2>2, <2>3
    <2>5. DOMAIN buffer[request] = 0 .. op.length - 1
        BY <1>3, <1>12 DEF BInv, DataArrived, Published, InOperation
    <2>6. Neighbours(op) => Received(op, buffer[request]) = OnDisk(op)
        BY <1>3, <2>5, ReceivedInOrder
    <2>7. DOMAIN Received(op, buffer[request]) = DOMAIN buffer[request]
        BY DEF Received
    <2> QED BY <2>1, <2>4, <2>6, <2>7
<1>13. DataArrived'
    BY <1>1, <1>3, <1>12 DEF BInv, DataArrived, driverVars, OnDisk, InOperation, Published
<1> QED BY <1>8, <1>10, <1>11, <1>13 DEF BInv

\* The status byte, after a transfer or instead of one.
LEMMA StatusBInv ==
    ASSUME BInv, DeviceFail \/ DeviceStatus
    PROVE  BInv'
<1>1. /\ UNCHANGED <<driverVars, last_avail, chain, used_idx, disk, buffer, kicked>>
      /\ dev' = "push"
      /\ \/ /\ dev = "transfer" /\ served' = served + 1
            /\ status' = [status EXCEPT ![chain[2].request] = "ioerr"]
         \/ /\ dev = "status" /\ served' = served
            /\ status' = [status EXCEPT ![chain[2].request] = "ok"]
    BY DEF DeviceFail, DeviceStatus
<1>2. HeaderDesc' = HeaderDesc /\ BufferDesc' = BufferDesc /\ StatusDesc' = StatusDesc
    BY <1>1 DEF HeaderDesc, BufferDesc, StatusDesc, driverVars
<1>3. /\ Published /\ avail_idx = Succ(last_avail)
      /\ dev = "transfer" => served = 0
      /\ dev = "status" => served = 1
    BY <1>1 DEF BInv, InStep, Waiting, Moved, Finished, Level, OneBehind
<1>4. chain[2].request = request
    BY <1>1 DEF BInv, ChainRead, StatusDesc
<1>5. served' = 1
    BY <1>1, <1>3
<1>6. /\ status' \in [Requests -> {Pending, "ok", "ioerr"}]
      /\ dev = "transfer" => status'[request] = "ioerr"
      /\ dev = "status" => status'[request] = "ok"
    BY <1>1, <1>4 DEF BInv, Types
<1>7. Types'
    BY <1>1, <1>5, <1>6 DEF BInv, Types, driverVars, InOperation
<1>8. Finished'
    BY <1>1, <1>3, <1>5, <1>6 DEF Finished, OneBehind, driverVars, Succ, Pending
<1>9. InStep'
    BY <1>1, <1>3, <1>8 DEF InStep, Published, driverVars
<1>10. ChainFilled' /\ ChainRead'
    BY <1>1, <1>2 DEF BInv, ChainFilled, ChainRead, driverVars
<1>11. DataArrived'
    BY <1>1, <1>3, <1>6 DEF BInv, DataArrived, driverVars, OnDisk, InOperation, Published
<1> QED BY <1>7, <1>9, <1>10, <1>11 DEF BInv

\* The used ring, which the driver does not look at.
LEMMA PushBInv ==
    ASSUME BInv, DevicePush
    PROVE  BInv'
<1>1. /\ UNCHANGED <<driverVars, chain, disk, served, status, buffer, kicked>>
      /\ dev = "push" /\ dev' = "idle"
      /\ used_idx' = Succ(used_idx) /\ last_avail' = Succ(last_avail)
    BY DEF DevicePush, Succ
<1>2. HeaderDesc' = HeaderDesc /\ BufferDesc' = BufferDesc /\ StatusDesc' = StatusDesc
    BY <1>1 DEF HeaderDesc, BufferDesc, StatusDesc, driverVars
<1>3. Types'
    BY <1>1, SuccFacts DEF BInv, Types, driverVars, InOperation
<1>4. /\ OneBehind => Level'
      /\ Waiting => Waiting'
      /\ Finished => Finished'
      /\ ~Moved /\ ~Level
    BY <1>1 DEF OneBehind, Level, Waiting, Moved, Finished, driverVars, Succ
<1>5. InStep'
    BY <1>1, <1>4 DEF BInv, InStep, Published, driverVars
<1>6. ChainFilled' /\ ChainRead' /\ DataArrived'
    BY <1>1, <1>2 DEF BInv, ChainFilled, ChainRead, DataArrived, driverVars, OnDisk, InOperation,
                      Published
<1> QED BY <1>3, <1>5, <1>6 DEF BInv
\* Every step keeps the invariant.
LEMMA NextBInv ==
    ASSUME FitsIn32Bits, BInv, [Next]_vars
    PROVE  BInv'
<1>1. CASE get_block_device_and_init
    BY <1>1, InitDeviceBInv
<1>2. CASE (\E r \in Reads : read(r)) \/ (\E w \in Writes : write_blocks(w))
    BY <1>2, CallBInv
<1>3. ASSUME NEW w \in Writes, write_blocks_refused(w) PROVE BInv'
    BY <1>3, RefusedBInv
<1>4. CASE FillHeader \/ FillBuffer \/ FillStatus
    BY <1>4, FillBInv
<1>5. CASE Publish
    BY <1>5, PublishBInv
<1>6. CASE Notify \/ DeviceSleep
    BY <1>6, NotifyBInv
<1>7. CASE Return
    BY <1>7, ReturnBInv
<1>8. CASE DeviceFetch \/ DeviceFetchNext
    BY <1>8, FetchBInv
<1>9. CASE DeviceTransfer
    BY <1>9, TransferBInv
<1>10. CASE DeviceFail \/ DeviceStatus
    BY <1>10, StatusBInv
<1>11. CASE DevicePush
    BY <1>11, PushBInv
<1>12. CASE UNCHANGED vars
    <2>1. HeaderDesc' = HeaderDesc /\ BufferDesc' = BufferDesc /\ StatusDesc' = StatusDesc
        BY <1>12 DEF HeaderDesc, BufferDesc, StatusDesc, vars, driverVars
    <2>2. Types' /\ ChainFilled' /\ ChainRead'
        BY <1>12, <2>1 DEF BInv, Types, ChainFilled, ChainRead, vars, driverVars, deviceVars
    <2>3. InStep' /\ DataArrived'
        BY <1>12 DEF BInv, InStep, Published, Waiting, Moved, Finished, Level, OneBehind, Succ,
                     DataArrived, OnDisk, vars, driverVars, deviceVars
    <2> QED BY <2>2, <2>3 DEF BInv
<1> QED BY <1>1, <1>2, <1>3, <1>4, <1>5, <1>6, <1>7, <1>8, <1>9, <1>10, <1>11, <1>12
        DEF Next, DriverStep, DeviceStep

(* Driver and device stay in step: who has published, read, moved, marked  *)
(* and pushed what, and that descriptors and header are of one operation.  *)
THEOREM BlkInvariance ==
    ASSUME FitsIn32Bits
    PROVE  Spec => []BInv
<1>1. Init => BInv
    BY InitBInv
<1>2. BInv /\ [Next]_vars => BInv'
    BY NextBInv
<1> QED BY <1>1, <1>2, PTL DEF Spec

(* Positions, status bytes and indices of driver and device keep their     *)
(* types: publishing and pushing wrap at the width of the indices.         *)
THEOREM BlkTypeCorrect ==
    ASSUME FitsIn32Bits
    PROVE  Spec => []TypeOK
<1>1. BInv => TypeOK
    BY DEF BInv, Types, TypeOK, Indices
<1> QED BY <1>1, BlkInvariance, PTL

(* The device never works on a chain that the driver is rewriting, and     *)
(* never mixes the parts of two operations.                                *)
THEOREM ChainStaysWhole ==
    ASSUME FitsIn32Bits
    PROVE  Spec => []ChainUntorn
<1>1. BInv => ChainUntorn
    <2> SUFFICES ASSUME BInv, dev \in {"transfer", "status"}
                 PROVE  /\ pc \in {"notify", "poll"}
                        /\ \A d \in 0 .. 2 : chain[d].request = request
                        /\ header[request] = op
                        /\ chain[1].length = op.length
                        /\ chain[1].device_writes = (op.type = "in")
        BY DEF ChainUntorn
    <2>1. Published
        BY DEF BInv, InStep, Level, OneBehind
    <2>2. chain[0] = HeaderDesc /\ chain[1] = BufferDesc /\ chain[2] = StatusDesc
        BY DEF BInv, ChainRead
    <2>3. header[request] = op
        BY <2>1 DEF BInv, ChainFilled, Published, InOperation
    <2>4. chain[1].length = op.length /\ chain[1].device_writes = (op.type = "in")
        BY <2>2 DEF BufferDesc
    <2>5. chain[0].request = request /\ chain[1].request = request /\ chain[2].request = request
        BY <2>2 DEF HeaderDesc, BufferDesc, StatusDesc
    <2>6. \A d \in 0 .. 2 : d = 0 \/ d = 1 \/ d = 2
        OBVIOUS
    <2> QED BY <2>1, <2>3, <2>4, <2>5, <2>6 DEF Published
<1> QED BY <1>1, BlkInvariance, PTL

(* However the ring's 16-bit indices wrap, the device is at most one       *)
(* unpushed chain behind the driver, which never looks at the used ring.   *)
THEOREM RingStaysInStep ==
    ASSUME FitsIn32Bits
    PROVE  Spec => []RingInStep
<1>1. BInv => RingInStep
    <2> SUFFICES ASSUME BInv PROVE RingInStep
        OBVIOUS
    <2>1. last_avail \in Indices /\ used_idx = last_avail
        BY DEF BInv, Types
    <2>2. (last_avail + 2) % IDX = Succ(Succ(last_avail))
          /\ (last_avail + 1) % IDX = Succ(last_avail)
        BY <2>1, SuccFacts DEF Succ
    <2> QED BY <2>1, <2>2 DEF BInv, InStep, Published, Waiting, Moved, Finished, Level, OneBehind,
                              RingInStep
<1> QED BY <1>1, BlkInvariance, PTL

(* The driver implements a synchronous disk: whatever the device does in   *)
(* between, basic_op returns only after exactly one transfer or error.     *)
THEOREM BlkImplements ==
    ASSUME FitsIn32Bits
    PROVE  Spec => ImplementsSyncDisk
<1> DEFINE st == IF pc \notin InOperation \cup {"wild"} THEN "idle"
                 ELSE IF served = 0 THEN "called"
                 ELSE IF served = 1 THEN "performed" ELSE "again"
<1>1. Init => Sync!Init
    BY DEF Init, Sync!Init, InOperation
<1>2. ASSUME BInv, [Next]_vars
      PROVE  [Sync!Next]_(Sync!vars)
    <2>1. CASE get_block_device_and_init
        <3>1. st' = st /\ UNCHANGED <<disk, op>>
            BY <2>1 DEF get_block_device_and_init, InOperation, deviceVars
        <3> QED BY <3>1 DEF Sync!vars
    <2>2. ASSUME NEW o \in Ops, NEW bytes, pc = "idle", basic_op(o, bytes)
          PROVE  Sync!Next
        <3>1. st = "idle" /\ st' = "called" /\ op' \in Ops /\ UNCHANGED disk
            BY <2>2 DEF basic_op, InOperation
        <3> QED BY <3>1 DEF Sync!Next, Sync!Call
    <2>3. CASE (\E r \in Reads : read(r)) \/ (\E w \in Writes : write_blocks(w))
        BY <2>2, <2>3, OpTypes DEF read, write_blocks
    <2>4. ASSUME NEW w \in Writes, write_blocks_refused(w)
          PROVE  UNCHANGED Sync!vars
        <3>1. st' = st /\ UNCHANGED <<disk, op>>
            BY <2>4 DEF write_blocks_refused, deviceVars
        <3> QED BY <3>1 DEF Sync!vars
    <2>5. CASE FillHeader \/ FillBuffer \/ FillStatus \/ Publish \/ Notify
        <3>1. st' = st /\ UNCHANGED <<disk, op>>
            BY <2>5 DEF FillHeader, FillBuffer, FillStatus, Describe, Publish, Notify, InOperation,
                        deviceVars
        <3> QED BY <3>1 DEF Sync!vars
    <2>6. CASE Return
        <3>1. pc = "poll" /\ pc' = "idle" /\ status[request] # Pending
              /\ UNCHANGED <<disk, op>>
            BY <2>6 DEF Return, deviceVars
        <3>2. served = 1
            BY <1>2, <3>1 DEF BInv, InStep, Published, Waiting, Finished, Moved
        <3>3. st = "performed" /\ st' = "idle"
            BY <3>1, <3>2 DEF InOperation
        <3> QED BY <3>1, <3>3 DEF Sync!Next, Sync!Return
    <2>7. CASE DeviceFetch \/ DeviceFetchNext \/ DevicePush \/ DeviceStatus \/ DeviceSleep
        <3>1. st' = st /\ UNCHANGED <<disk, op>>
            BY <2>7 DEF DeviceFetch, DeviceFetchNext, DevicePush, DeviceStatus, DeviceSleep,
                        driverVars, deviceVars
        <3> QED BY <3>1 DEF Sync!vars
    <2>8. CASE DeviceTransfer \/ DeviceFail
        <3>1. dev = "transfer" /\ served' = served + 1 /\ UNCHANGED <<pc, op>>
              /\ disk' \in {disk, Apply(Asked, disk)}
            BY <2>8 DEF DeviceTransfer, DeviceFail, driverVars
        <3>2. Published /\ Waiting /\ Asked = op
            BY <1>2, <3>1, AskedIsOp
        <3>3. st = "called" /\ st' = "performed"
            BY <3>1, <3>2 DEF Published, Waiting, InOperation
        <3> QED BY <3>1, <3>2, <3>3 DEF Sync!Next, Sync!Perform
    <2>9. CASE UNCHANGED vars
        <3>1. st' = st /\ UNCHANGED <<disk, op>>
            BY <2>9 DEF vars, driverVars, deviceVars
        <3> QED BY <3>1 DEF Sync!vars
    <2> QED BY <1>2, <2>1, <2>3, <2>4, <2>5, <2>6, <2>7, <2>8, <2>9
            DEF Next, DriverStep, DeviceStep
<1> QED BY <1>1, <1>2, BlkInvariance, PTL DEF Spec, ImplementsSyncDisk, Sync!Spec
-----------------------------------------------------------------------------
\* Sector and offset in it name the byte of the partition.
LEMMA ByteOfPartition ==
    ASSUME NEW r \in Reads, NEW i \in Nat
    PROVE  ReadSector(r) * SECTOR + (too_much_at_start(r) + i) = PARTITION * SECTOR + r.offset + i
<1>1. r.offset \in Nat /\ SECTOR \in Nat /\ SECTOR > 0 /\ PARTITION \in Nat
    BY BlkAssumption
<1> DEFINE d == r.offset \div SECTOR
           m == r.offset % SECTOR
<1>0. d \in Nat /\ m \in 0 .. SECTOR - 1 /\ r.offset = d * SECTOR + m
    BY <1>1, Division
<1>2. d \in Nat /\ m \in Nat /\ r.offset = d * SECTOR + m
    BY <1>0
<1>3. ReadSector(r) = d + PARTITION /\ too_much_at_start(r) = m
    BY DEF ReadSector, too_much_at_start
<1> HIDE DEF d, m
<1>4. (d + PARTITION) * SECTOR = d * SECTOR + PARTITION * SECTOR
    BY <1>1, <1>2
<1>5. d * SECTOR \in Nat /\ PARTITION * SECTOR \in Nat
    BY <1>1, <1>2
<1> QED BY <1>2, <1>3, <1>4, <1>5

\* What read returns, when the poll loop ends with the status "ok".
LEMMA ReturnDelivers ==
    ASSUME BInv, Return, op.type = "in", status[request] = "ok", Covered(call), Neighbours(op)
    PROVE  \A i \in 0 .. call.length - 1 :
               result'.bytes[i] = disk[PARTITION * SECTOR + call.offset + i]
<1>1. pc = "poll" /\ result' = [ret |-> 0, bytes |-> Copied] /\ status[request] # Pending
    BY DEF Return
<1>2. call \in Reads /\ op = ReadOp(call, op.place)
    BY <1>1 DEF BInv, DataArrived, InOperation
<1>3. served = 1
    BY <1>1 DEF BInv, InStep, Published, Waiting, Moved, Finished
<1>4. buffer[request] = OnDisk(op)
    BY <1>1, <1>3 DEF BInv, DataArrived, Published
<1>5. SUFFICES ASSUME NEW i \in 0 .. call.length - 1
               PROVE  Copied[i] = disk[PARTITION * SECTOR + call.offset + i]
    BY <1>1
<1> DEFINE k == too_much_at_start(call) + i
           b == PARTITION * SECTOR + call.offset + i
<1>6. call.length \in Nat /\ call.offset \in Nat /\ SECTOR \in Nat /\ SECTOR > 0 /\ i \in Nat
    BY <1>2, BlkAssumption
<1>7. too_much_at_start(call) \in Nat /\ k \in Nat
    BY <1>6, Division DEF too_much_at_start
<1>8. Copied[i] = IF k < op.length THEN buffer[request][k] ELSE Garbage
    BY DEF Copied
<1>9. op.sector = ReadSector(call) /\ op.length = ReadLength(call)
    BY <1>2 DEF ReadOp
<1>10. op.length \in Nat
    BY DEF BInv, Types, Operation
<1>11. k < op.length
    BY <1>6, <1>7, <1>9, <1>10 DEF Covered
<1>12. op.sector * SECTOR + k = b
    BY <1>2, <1>6, <1>9, ByteOfPartition
<1> HIDE DEF k, b
<1>13. buffer[request][k] = disk[b]
    BY <1>4, <1>7, <1>10, <1>11, <1>12 DEF OnDisk
<1> QED BY <1>8, <1>11, <1>13 DEF b

(* A request that the device has carried out gives the caller the bytes of *)
(* the partition from its offset on, for every sector and page size and    *)
(* every offset, length and buffer, on two conditions that the code does   *)
(* not check: the bytes end within the sectors asked for (Covered), and    *)
(* the pages of the buffer lie in neighbouring frames (Neighbours).        *)
THEOREM ReadsDeliver ==
    ASSUME FitsIn32Bits
    PROVE  Spec => []ReadDelivers
<1>1. Init => ReadDelivers
    BY DEF Init, ReadDelivers
<1>2. ASSUME BInv, ReadDelivers, [Next]_vars
      PROVE  ReadDelivers'
    <2>1. CASE get_block_device_and_init
        BY <1>2, <2>1 DEF get_block_device_and_init, BInv, DataArrived, ReadDelivers
    <2>2. CASE (\E r \in Reads : read(r)) \/ (\E w \in Writes : write_blocks(w))
        BY <2>2 DEF read, write_blocks, basic_op, ReadDelivers
    <2>3. ASSUME NEW w \in Writes, write_blocks_refused(w) PROVE ReadDelivers'
        BY <2>3 DEF write_blocks_refused, ReadDelivers
    <2>4. CASE FillHeader \/ FillBuffer \/ FillStatus \/ Publish \/ Notify
        BY <2>4 DEF FillHeader, FillBuffer, FillStatus, Publish, Notify, ReadDelivers
    <2>5. CASE Return
        <3>1. UNCHANGED <<call, op, status, request, disk>>
            BY <2>5 DEF Return, deviceVars
        <3> QED BY <1>2, <2>5, <3>1, ReturnDelivers DEF ReadDelivers
    <2>6. CASE DeviceFetch \/ DeviceStep
        <3>1. pc' = pc /\ (dev = "idle" => last_avail # avail_idx)
            BY <2>6 DEF DeviceFetch, DeviceStep, DeviceFetchNext, DeviceTransfer, DeviceFail,
                        DeviceStatus, DevicePush, driverVars
        <3>2. CASE pc = "idle"
            <4>1. dev = "push"
                BY <1>2, <3>1, <3>2 DEF BInv, InStep, Published, Level, OneBehind
            <4>2. UNCHANGED <<pc, op, result, status, request, disk, call>>
                BY <2>6, <4>1 DEF DeviceFetch, DeviceStep, DeviceFetchNext, DeviceTransfer,
                                  DeviceFail, DeviceStatus, DevicePush, driverVars
            <4> QED BY <1>2, <4>2 DEF ReadDelivers
        <3>3. CASE pc # "idle"
            BY <3>1, <3>3 DEF ReadDelivers
        <3> QED BY <3>2, <3>3
    <2>7. CASE DeviceSleep \/ UNCHANGED vars
        <3>1. UNCHANGED <<pc, op, result, status, request, disk, call>>
            BY <2>7 DEF DeviceSleep, vars, driverVars, deviceVars
        <3> QED BY <1>2, <3>1 DEF ReadDelivers
    <2> QED BY <1>2, <2>1, <2>2, <2>3, <2>4, <2>5, <2>6, <2>7 DEF Next, DriverStep
<1> QED BY <1>1, <1>2, BlkInvariance, PTL DEF Spec
=============================================================================
