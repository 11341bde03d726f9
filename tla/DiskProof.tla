----------------------------- MODULE DiskProof -----------------------------
(***************************************************************************)
(* Proofs about Disk and SfsLayout, for every disk, every request and any  *)
(* limits of the driver.                                                   *)
(*                                                                         *)
(* The inductive invariant says how far apart driver and drive can be: not *)
(* at all while a request is transferred (Moving), and between requests at *)
(* most by the last sector of a write, which the drive still has (Resting).*)
(* The driver waits before it programs the next request; so a read begins  *)
(* only when no write is pending, and what it has fetched stays what the   *)
(* sectors hold.                                                           *)
(***************************************************************************)
EXTENDS Disk, SequenceTheorems, TLAPS

Contents == Data \cup Tables \cup {Garbage}
Programs == [io_type : {"read", "write", "other", "none"}, secno : Nat, nsecs : Nat, bsize : Nat,
             data : Data \cup {NoData}]
Drives == [status : {"ready", "busy", "drq", "error"}, op : {"none", "identify", "read", "write"},
           sec : Int, left : Int, data : Data \cup {NoData}]

TypeInv ==
    /\ disk \in [Sectors -> Contents] /\ kind \in {"ata", "empty"} /\ dev \in Drives
    /\ booting \in BOOLEAN /\ valid \in BOOLEAN
    /\ pc \in {"probe", "identify", "mbr", "none", "free", "program", "transfer", "return", "panic"}
    /\ req \in Programs /\ wrote \in Programs
    /\ done \in Nat /\ buf \in Seq(Contents) /\ ret \in {"none", "ok", "failed"}

Quiet == dev.status \in {"ready", "error"}

\* Between requests: the drive may still store the last sector of a write.
Resting ==
    \/ Quiet
    \/ /\ dev.status = "busy" /\ dev.op = "write" /\ dev.left = 1
       /\ dev.data = wrote.data /\ dev.data # NoData /\ wrote.nsecs >= 1
       /\ dev.sec = wrote.secno + wrote.nsecs - 1

\* While a request is transferred: the drive has failed, waits for or fetches the
\* next sector, stores the one before, or is through.
Moving ==
    \/ dev.status = "error"
    \/ /\ dev.status \in {"busy", "drq"} /\ dev.op = req.io_type /\ dev.data = NoData
       /\ dev.sec = req.secno + done /\ dev.left = req.nsecs - done /\ done < req.nsecs
       /\ dev.status = "drq" /\ dev.op = "read" => dev.sec \in Sectors
    \/ /\ dev.status = "busy" /\ dev.op = "write" /\ req.io_type = "write" /\ dev.data = req.data
       /\ dev.sec = req.secno + done - 1 /\ dev.left = req.nsecs - done + 1 /\ done >= 1
    \/ dev.status = "ready" /\ done = req.nsecs

DevInv ==
    /\ pc \in {"probe", "identify"} => dev.data = NoData /\ dev.op \in {"none", "identify"}
    /\ pc \notin {"probe", "identify", "transfer"} => Resting
    /\ pc = "transfer" => Moving
    /\ pc = "return" /\ req.io_type = "read" /\ done > 0 => Quiet
    /\ kind = "empty" => dev.status = "ready"

ReqInv ==
    /\ done <= req.nsecs
    /\ pc \in {"program", "transfer"} \/ done > 0 => req.nsecs <= req.bsize
    /\ pc = "program" => done = 0 /\ buf = <<>>
    /\ pc \in {"program", "transfer"} =>
            /\ req.io_type \in {"read", "write"} /\ req.nsecs >= 1
            /\ req.io_type = "write" => req.data \in Data
    /\ pc = "transfer" /\ req.io_type = "write" => wrote = req
    /\ pc = "return" /\ ret = "ok" => done = req.nsecs

ReadInv ==
    pc \in {"transfer", "return"} /\ req.io_type = "read" =>
        /\ Len(buf) = done
        /\ \A i \in 1 .. done : req.secno + i - 1 \in Sectors /\ buf[i] = disk[req.secno + i - 1]

BootInv ==
    /\ RegisteredAnswers
    /\ pc \in {"probe", "identify", "mbr"} => booting
    /\ pc = "mbr" => valid
    /\ pc \in {"mbr", "program", "transfer"} => kind = "ata"
    /\ pc = "free" => ~ booting
    /\ booting => disk[0] \in Tables /\ dev.op # "write"
    /\ booting /\ pc \in {"program", "transfer", "return"} => req = MbrRequest

Inv == TypeInv /\ DevInv /\ ReqInv /\ ReadInv /\ BootInv

-----------------------------------------------------------------------------
(* The layout of a file system.                                             *)

\* What the sizes of the parts are, without wrapping.
LEMMA MapSectorsEnough ==
    ASSUME NEW n \in Nat, NEW per \in Nat \ {0}
    PROVE  /\ MapSectors(n, per) \in Nat
           /\ MapSectors(n, per) <= n + 1
           /\ n <= MapSectors(n, per) * per
<1> DEFINE q == n \div per
<1>1. q \in Nat /\ q * per <= n /\ n < (q + 1) * per
  BY DEF MapSectors
<1>2. q <= q * per
  BY <1>1
<1>3. MapSectors(n, per) = q + 1
  BY DEF MapSectors
<1> HIDE DEF q
<1> QED BY <1>1, <1>2, <1>3

LEMMA WrapSmall ==
    ASSUME WORD \in Nat, NEW n \in Nat, n < WORD
    PROVE  Wrap(n) = n
BY DEF Wrap

\* sfs_mkfs (sfs.c:127) lays out the parts without overlap, each map as large as
\* what it maps, on every partition [start, end) that has room for the super
\* block and whose end is below half of what a sector number can say.
THEOREM LayoutIsWellFormed ==
    ASSUME WORD \in Nat, NEW start \in Nat, NEW end \in Nat,
           start + INODEMAP_OFFSET <= end, 2 * end + 2 < WORD
    PROVE  WellFormed(Layout(start, end))
<1> DEFINE all == AllSectors(start, end)
           inSecs == all \div 10
           blSecs == Wrap(inSecs * 9)
           imStart == Wrap(start + INODEMAP_OFFSET)
           imSecs == MapSectors(inSecs, 512)
           bmStart == Wrap(imStart + imSecs)
           bmSecs == MapSectors(blSecs, BLOCK_SIZE)
           inStart == Wrap(bmStart + bmSecs)
<1>1. all = end - start - 12 /\ all \in Nat
  <2>1. end - start - 12 \in Nat /\ end - start - 12 < WORD
    BY DEF INODEMAP_OFFSET
  <2> QED BY <2>1, WrapSmall DEF AllSectors, INODEMAP_OFFSET
<1>2. inSecs \in Nat /\ 10 * inSecs <= end - start - 12
  BY <1>1
<1>3. blSecs = inSecs * 9 /\ blSecs \in Nat
  <2>1. inSecs * 9 \in Nat /\ inSecs * 9 < WORD
    BY <1>2
  <2> QED BY <2>1, WrapSmall
<1>4. imStart = start + 12
  <2>1. start + 12 \in Nat /\ start + 12 < WORD
    BY DEF INODEMAP_OFFSET
  <2> QED BY <2>1, WrapSmall DEF INODEMAP_OFFSET
<1>5. imSecs \in Nat /\ imSecs <= inSecs + 1 /\ inSecs <= imSecs * 512
  <2> HIDE DEF inSecs
  <2>1. 512 \in Nat \ {0}
    OBVIOUS
  <2> QED BY <1>2, <2>1, MapSectorsEnough
<1>6. bmStart = start + 12 + imSecs
  <2>1. start + 12 + imSecs \in Nat /\ start + 12 + imSecs < WORD
    BY <1>2, <1>5
  <2> QED BY <1>4, <2>1, WrapSmall
<1>7. bmSecs \in Nat /\ bmSecs <= blSecs + 1 /\ blSecs <= bmSecs * 2048
  <2> HIDE DEF blSecs
  <2>1. bmSecs = MapSectors(blSecs, 2048)
    BY DEF BLOCK_SIZE
  <2>2. 2048 \in Nat \ {0}
    OBVIOUS
  <2> HIDE DEF bmSecs
  <2> QED BY <1>3, <2>1, <2>2, MapSectorsEnough
<1>8. inStart = start + 12 + imSecs + bmSecs
  <2>1. start + 12 + imSecs + bmSecs \in Nat /\ start + 12 + imSecs + bmSecs < WORD
    BY <1>2, <1>3, <1>5, <1>7
  <2> QED BY <1>6, <2>1, WrapSmall
<1>9. Wrap(inStart + inSecs) = inStart + inSecs
  <2>1. inStart + inSecs \in Nat /\ inStart + inSecs < WORD
    BY <1>2, <1>3, <1>5, <1>7, <1>8
  <2> QED BY <2>1, WrapSmall
<1>10. Wrap(start + SUPER_BLOCK_OFFSET) = start + 4
  <2>1. start + 4 \in Nat /\ start + 4 < WORD
    BY DEF INODEMAP_OFFSET
  <2> QED BY <2>1, WrapSmall DEF SUPER_BLOCK_OFFSET
<1>11. blSecs \div 4 \in Nat /\ (blSecs \div 4) * 4 <= blSecs
  BY <1>3
<1>12. Layout(start, end) =
         [sb_start |-> start + 4,
          im_start |-> imStart, im_secs |-> imSecs,
          bm_start |-> bmStart, bm_secs |-> bmSecs,
          in_start |-> inStart, in_secs |-> inSecs,
          bl_start |-> inStart + inSecs, bl_secs |-> blSecs,
          inode_count |-> inSecs,
          block_count |-> blSecs \div (BLOCK_SIZE \div SECTSIZE)]
  BY <1>9, <1>10 DEF Layout
<1>13. blSecs \div (BLOCK_SIZE \div SECTSIZE) = blSecs \div 4
  BY <1>3 DEF BLOCK_SIZE, SECTSIZE
<1> HIDE DEF all, inSecs, blSecs, imStart, imSecs, bmStart, bmSecs, inStart
<1> QED
  BY <1>2, <1>3, <1>4, <1>5, <1>6, <1>7, <1>8, <1>11, <1>12, <1>13
  DEF WellFormed, BLOCK_SIZE, SECTSIZE

-----------------------------------------------------------------------------
(* The drive.                                                               *)

LEMMA InitInv == Init => Inv
<1> SUFFICES ASSUME Init PROVE Inv
  OBVIOUS
<1> USE DEF Init, NoRequest, Idle
<1>1. 0 \in Sectors
  BY DiskAssumption DEF Sectors
<1>2. PICK t \in Tables, d \in Data : disk = [s \in Sectors |-> IF s = 0 THEN t ELSE d]
  OBVIOUS
<1>3. disk \in [Sectors -> Contents] /\ disk[0] \in Tables
  BY <1>1, <1>2 DEF Contents
<1>4. dev \in Drives /\ dev.op = "none" /\ dev.data = NoData
  BY DEF Drives
<1>5. TypeInv
  <2>1. <<>> \in Seq(Contents) /\ NoRequest \in Programs
    BY DEF Programs
  <2> QED BY <1>3, <1>4, <2>1 DEF TypeInv
<1> QED
  BY <1>3, <1>4, <1>5 DEF Inv, DevInv, ReqInv, ReadInv, BootInv, RegisteredAnswers

LEMMA IdleDrive ==
    Idle \in Drives /\ Idle.status = "ready" /\ Idle.op = "none" /\ Idle.data = NoData
BY DEF Idle, Drives

\* A drive that is not busy takes the command.
LEMMA CommandTaken ==
    ASSUME NEW op, NEW sec, NEW left, Command(op, sec, left), kind = "ata", Quiet
    PROVE  dev' = [status |-> "busy", op |-> op, sec |-> sec, left |-> left, data |-> NoData]
<1>1. dev' = [Idle EXCEPT !.status = "busy", !.op = op, !.sec = sec, !.left = left]
  <2>1. kind # "empty" /\ dev.status # "busy" /\ dev.status # "drq"
    BY DEF Quiet
  <2> QED BY <2>1 DEF Command
<1> QED
  BY <1>1 DEF Idle

\* What the driver has not touched is as it should be, if the drive and the disk are.
LEMMA DriveFrame ==
    ASSUME Inv, UNCHANGED <<kind, driver, system, wrote>>,
           disk' \in [Sectors -> Contents], dev' \in Drives, DevInv', ReadInv',
           booting => disk'[0] \in Tables /\ dev'.op # "write"
    PROVE  Inv'
<1> USE DEF driver, system
<1>1. TypeInv' /\ ReqInv'
  BY DEF Inv, TypeInv, ReqInv
<1>2. BootInv'
  BY DEF Inv, BootInv, RegisteredAnswers
<1> QED
  BY <1>1, <1>2 DEF Inv

LEMMA DriveFailsInv ==
    ASSUME Inv, DriveFails, UNCHANGED <<kind, driver, system, wrote>>
    PROVE  Inv'
<1>1. /\ dev' \in Drives /\ dev'.status = "error" /\ dev'.op = "none" /\ dev'.data = NoData
      /\ disk' = disk
  BY DEF DriveFails, Idle, Drives
<1>2. DevInv'
  BY <1>1 DEF Inv, driver, DriveFails, DevInv, Resting, Moving, Quiet
<1>3. ReadInv'
  BY <1>1 DEF Inv, driver, ReadInv
<1> QED
  BY <1>1, <1>2, <1>3, DriveFrame DEF Inv, TypeInv, BootInv

LEMMA DriveReadyInv ==
    ASSUME Inv, DriveReady, UNCHANGED <<kind, driver, system, wrote>>
    PROVE  Inv'
<1>1. /\ TypeInv /\ dev.status = "busy" /\ dev.data = NoData
      /\ dev.op = "read" => dev.sec \in Sectors
      /\ dev' = IF dev.op = "none" THEN Idle ELSE [dev EXCEPT !.status = "drq"]
      /\ disk' = disk
      /\ UNCHANGED <<kind, pc, req, done, wrote, booting>>
  BY DEF Inv, DriveReady, driver, system
<1>2. dev' \in Drives /\ dev'.data = NoData /\ dev'.op = dev.op
  BY <1>1 DEF TypeInv, Drives, Idle
<1>3. DevInv'
  <2>1. CASE pc \in {"probe", "identify"}
    BY <1>1, <1>2, <2>1 DEF Inv, DevInv
  <2>2. CASE pc = "transfer"
    <3>1. /\ dev.op = req.io_type /\ dev.sec = req.secno + done
          /\ dev.left = req.nsecs - done /\ done < req.nsecs
      BY <1>1, <2>2, DiskAssumption DEF Inv, DevInv, ReqInv, Moving, TypeInv
    <3>2. dev' = [dev EXCEPT !.status = "drq"]
      BY <1>1, <2>2, <3>1 DEF Inv, ReqInv
    <3>3. Moving'
      BY <1>1, <1>2, <3>1, <3>2 DEF Moving, TypeInv, Drives
    <3>4. kind # "empty"
      BY <1>1 DEF Inv, DevInv
    <3> QED BY <1>1, <2>2, <3>3, <3>4 DEF DevInv
  <2>3. CASE pc \notin {"probe", "identify", "transfer"}
    BY <1>1, <2>3 DEF Inv, DevInv, Resting, Quiet
  <2> QED BY <2>1, <2>2, <2>3
<1>4. ReadInv'
  BY <1>1 DEF Inv, driver, ReadInv
<1> QED
  BY <1>1, <1>2, <1>3, <1>4, DriveFrame DEF Inv, TypeInv, BootInv

\* The drive stores what it was given, on a sector of the last write.
LEMMA DriveStoresInv ==
    ASSUME Inv, DriveStores, UNCHANGED <<kind, driver, system, wrote>>
    PROVE  /\ Inv'
           /\ dev.sec \in Span(wrote) /\ dev.data = wrote.data
           /\ disk' = [disk EXCEPT ![dev.sec] = wrote.data]
<1>1. /\ TypeInv /\ dev.status = "busy" /\ dev.data # NoData /\ dev.sec \in Sectors
      /\ disk' = [disk EXCEPT ![dev.sec] = dev.data]
      /\ dev' = IF dev.left = 1 THEN Idle
                ELSE [dev EXCEPT !.status = "drq", !.sec = @ + 1, !.left = @ - 1, !.data = NoData]
      /\ UNCHANGED <<kind, pc, req, done, wrote, booting, buf>>
  BY DEF Inv, DriveStores, driver, system
<1>2. dev' \in Drives /\ dev.data \in Data
  <2>1. dev \in Drives
    BY <1>1 DEF TypeInv
  <2>2. CASE dev.left = 1
    BY <1>1, <2>1, <2>2, IdleDrive DEF Drives
  <2>3. CASE dev.left # 1
    <3>1. dev.sec + 1 \in Int /\ dev.left - 1 \in Int
      BY <2>1 DEF Drives
    <3>2. dev' = [status |-> "drq", op |-> dev.op, sec |-> dev.sec + 1, left |-> dev.left - 1,
                  data |-> NoData]
      BY <1>1, <2>1, <2>3 DEF Drives
    <3> QED BY <1>1, <2>1, <3>1, <3>2 DEF Drives
  <2> QED BY <2>2, <2>3
<1>3. disk' \in [Sectors -> Contents]
  BY <1>1, <1>2 DEF TypeInv, Contents
<1>4. pc \notin {"probe", "identify"}
  BY <1>1 DEF Inv, DevInv
<1>5. dev.op = "write" /\ ~ booting
  BY <1>1, <1>4 DEF Inv, DevInv, BootInv, Resting, Moving, Quiet
<1>6. CASE pc = "transfer"
  <2>1. /\ req.io_type = "write" /\ dev.data = req.data /\ dev.sec = req.secno + done - 1
        /\ dev.left = req.nsecs - done + 1 /\ done >= 1 /\ done <= req.nsecs /\ wrote = req
    BY <1>1, <1>6 DEF Inv, DevInv, ReqInv, Moving
  <2>2. req.secno \in Nat /\ req.nsecs \in Nat /\ done \in Nat
    BY <1>1 DEF TypeInv, Programs
  <2>3. dev.sec \in Span(wrote)
    BY <2>1, <2>2 DEF Span
  <2>4. Moving'
    <3>1. CASE dev.left = 1
      BY <1>1, <2>1, <2>2, <3>1 DEF Moving, Idle
    <3>2. CASE dev.left # 1
      <4>1. /\ dev'.status = "drq" /\ dev'.op = "write" /\ dev'.data = NoData
            /\ dev'.sec = req.secno + done /\ dev'.left = req.nsecs - done
        BY <1>1, <1>5, <2>1, <2>2, <3>2 DEF TypeInv, Drives
      <4>2. done < req.nsecs
        BY <2>1, <2>2, <3>2
      <4> QED BY <1>1, <2>1, <4>1, <4>2 DEF Moving
    <3> QED BY <3>1, <3>2
  <2>5. DevInv' /\ ReadInv'
    <3>1. kind # "empty"
      BY <1>1 DEF Inv, DevInv
    <3> QED BY <1>1, <1>6, <2>1, <2>4, <3>1 DEF DevInv, ReadInv
  <2> QED BY <1>1, <1>2, <1>3, <1>5, <2>1, <2>3, <2>5, DriveFrame DEF TypeInv
<1>7. CASE pc # "transfer"
  <2>1. /\ dev.left = 1 /\ dev.data = wrote.data /\ wrote.nsecs >= 1
        /\ dev.sec = wrote.secno + wrote.nsecs - 1
    BY <1>1, <1>4, <1>7 DEF Inv, DevInv, Resting, Quiet
  <2>2. dev.sec \in Span(wrote)
    BY <1>1, <2>1 DEF Span, TypeInv, Programs
  <2>3. ~ (pc = "return" /\ req.io_type = "read" /\ done > 0)
    BY <1>1 DEF Inv, DevInv, Quiet
  <2>4. DevInv' /\ ReadInv'
    <3>1. DevInv'
      BY <1>1, <1>4, <1>7, <2>1 DEF DevInv, Resting, Quiet, Idle
    <3>2. ReadInv'
      BY <1>1, <1>7, <2>3 DEF Inv, ReadInv, TypeInv
    <3> QED BY <3>1, <3>2
  <2> QED BY <1>1, <1>2, <1>3, <1>5, <2>1, <2>2, <2>4, DriveFrame DEF TypeInv
<1> QED
  BY <1>6, <1>7

-----------------------------------------------------------------------------
(* The driver.                                                              *)

LEMMA ProbeInv == Inv /\ Probe => Inv'
<1> SUFFICES ASSUME Inv, Probe PROVE Inv'
  OBVIOUS
<1>1. /\ TypeInv /\ pc = "probe" /\ pc' = "identify"
      /\ UNCHANGED <<disk, kind, req, done, buf, ret, booting, valid, block_devs, mbr_info, layout,
                     wrote>>
  BY DEF Inv, Probe, system
<1>2. dev' \in Drives /\ dev'.data = NoData /\ dev'.op \in {"none", "identify"}
  <2>1. dev.data = NoData /\ dev.op \in {"none", "identify"} /\ dev \in Drives
    BY <1>1 DEF Inv, DevInv, TypeInv
  <2>2. dev' \in {dev, [Idle EXCEPT !.status = "busy", !.op = "identify", !.sec = 0, !.left = 1]}
    BY DEF Probe, Command, Ready
  <2>3. CASE dev' = dev
    BY <2>1, <2>3
  <2>4. CASE dev' = [Idle EXCEPT !.status = "busy", !.op = "identify", !.sec = 0, !.left = 1]
    <3>1. dev' = [status |-> "busy", op |-> "identify", sec |-> 0, left |-> 1, data |-> NoData]
      BY <2>4 DEF Idle
    <3> QED BY <3>1 DEF Drives
  <2> QED BY <2>2, <2>3, <2>4
<1>3. kind = "empty" => dev' = dev
  <2>1. Command("identify", 0, 1) /\ (kind = "empty" => dev.status = "ready")
    BY DEF Probe, Inv, DevInv
  <2> QED BY <2>1 DEF Command
<1>4. TypeInv' /\ DevInv'
  BY <1>1, <1>2, <1>3 DEF Inv, TypeInv, DevInv
<1>5. ReqInv' /\ ReadInv'
  BY <1>1 DEF Inv, ReqInv, ReadInv
<1>6. BootInv'
  BY <1>1, <1>2 DEF Inv, BootInv, RegisteredAnswers
<1> QED
  BY <1>4, <1>5, <1>6 DEF Inv

LEMMA IdentifyInv == Inv /\ Identify => Inv'
<1> SUFFICES ASSUME Inv, Identify PROVE Inv'
  OBVIOUS
<1>1. /\ TypeInv /\ pc = "identify" /\ Ready
      /\ UNCHANGED <<disk, kind, req, done, buf, ret, booting, mbr_info, layout, wrote>>
      /\ dev.data = NoData /\ dev.op \in {"none", "identify"}
  BY DEF Inv, Identify, DevInv
<1>2. CASE kind = "empty" \/ Failed
  <2>1. pc' = "none" /\ UNCHANGED <<dev, valid, block_devs>>
    BY <1>2 DEF Identify
  <2>2. Resting
    BY <1>1, <1>2 DEF Inv, DevInv, Resting, Quiet, Failed
  <2> QED
    BY <1>1, <2>1, <2>2
    DEF Inv, TypeInv, DevInv, ReqInv, ReadInv, BootInv, RegisteredAnswers, Resting, Quiet
<1>3. CASE ~ (kind = "empty" \/ Failed)
  <2>1. /\ valid' = TRUE /\ block_devs' = <<"IDE_MAIN">> \o block_devs
        /\ dev' = Idle /\ pc' = "mbr"
    BY <1>3 DEF Identify
  <2>2. kind = "ata"
    BY <1>1, <1>3 DEF TypeInv
  <2>3. TypeInv' /\ DevInv' /\ ReqInv' /\ ReadInv'
    BY <1>1, <2>1, <2>2
    DEF Inv, TypeInv, DevInv, ReqInv, ReadInv, Resting, Quiet, Idle, Drives
  <2>4. BootInv'
    BY <1>1, <2>1, <2>2 DEF Inv, BootInv, RegisteredAnswers, Idle
  <2> QED BY <2>3, <2>4 DEF Inv
<1> QED
  BY <1>2, <1>3

\* ide_request: what is programmed has been asserted to fit, and a refused request
\* returns with nothing done.
LEMMA SubmitInv ==
    ASSUME Inv, pc \in {"mbr", "free"}, NEW r \in Programs, Submit(r),
           r.io_type \in {"read", "write"} => r.nsecs >= 1,
           r.io_type = "write" => r.data \in Data,
           kind = "ata",
           booting => r = MbrRequest,
           UNCHANGED <<disk, kind, dev, system, wrote>>
    PROVE  Inv'
<1>1. /\ TypeInv /\ Resting
      /\ req' = r /\ done' = 0 /\ buf' = <<>>
      /\ ret' \in {"none", "failed"}
      /\ UNCHANGED <<disk, kind, dev, booting, valid, block_devs, mbr_info, layout, wrote>>
  BY DEF Inv, DevInv, Submit, system
<1>2. \/ pc' = "return" /\ ret' = "failed"
      \/ /\ pc' = "program" /\ ret' = "none" /\ r.io_type \in {"read", "write"}
         /\ BufferHolds(r) /\ Asserted(r)
      \/ pc' = "panic" /\ ret' = "none" /\ ~ booting
  <2>1. ASSUME booting PROVE Asserted(r)
    <3>1. r = MbrRequest /\ valid
      BY <2>1 DEF Inv, BootInv
    <3> QED BY <3>1, DiskAssumption DEF Asserted, MbrRequest
  <2> QED BY <2>1 DEF Submit
<1>3. ASSUME BufferHolds(r), Asserted(r) PROVE r.nsecs <= r.bsize
  <2>1. r.nsecs \in Nat /\ r.nsecs < SIZE_WORD /\ SIZE_WORD \in Nat /\ r.bsize \in Nat
    BY <1>3, DiskAssumption DEF Asserted, Programs
  <2>2. r.nsecs % SIZE_WORD = r.nsecs
    BY <2>1
  <2> QED BY <1>3, <2>1, <2>2 DEF BufferHolds
<1>4. TypeInv'
  <2>1. <<>> \in Seq(Contents)
    OBVIOUS
  <2> QED BY <1>1, <1>2, <2>1 DEF TypeInv
<1>5. DevInv'
  BY <1>1, <1>2 DEF Inv, DevInv, Resting, Quiet
<1>6. ReqInv'
  BY <1>1, <1>2, <1>3 DEF ReqInv, Programs
<1>7. ReadInv'
  BY <1>1 DEF ReadInv
<1>8. BootInv'
  BY <1>1, <1>2 DEF Inv, BootInv, RegisteredAnswers
<1> QED
  BY <1>4, <1>5, <1>6, <1>7, <1>8 DEF Inv

LEMMA ReadMbrInv == Inv /\ ReadMbr => Inv'
<1> SUFFICES ASSUME Inv, ReadMbr PROVE Inv'
  OBVIOUS
<1>1. pc = "mbr" /\ Submit(MbrRequest) /\ UNCHANGED <<disk, kind, dev, system, wrote>>
  BY DEF ReadMbr
<1>2. MbrRequest \in Programs /\ MbrRequest.io_type = "read" /\ MbrRequest.nsecs = 1
  BY DEF MbrRequest, Programs
<1>3. kind = "ata"
  BY <1>1 DEF Inv, BootInv
<1> QED
  BY <1>1, <1>2, <1>3, SubmitInv

LEMMA RequestInv == Inv /\ Request => Inv'
<1> SUFFICES ASSUME Inv, Request PROVE Inv'
  OBVIOUS
<1>1. PICK r \in Requests : Submit(r)
  BY DEF Request
<1>2. pc = "free" /\ block_devs # <<>> /\ UNCHANGED <<disk, kind, dev, system, wrote>>
  BY DEF Request
<1>3. /\ r \in Programs
      /\ r.io_type \in {"read", "write"} => r.nsecs >= 1
      /\ r.io_type = "write" => r.data \in Data
  BY DiskAssumption DEF Requests, Programs, NoRequest
<1>4. kind = "ata" /\ ~ booting
  BY <1>2 DEF Inv, BootInv, RegisteredAnswers
<1> QED
  BY <1>1, <1>2, <1>3, <1>4, SubmitInv

LEMMA ProgramInv == Inv /\ Program => Inv'
<1> SUFFICES ASSUME Inv, Program PROVE Inv'
  OBVIOUS
<1>1. /\ TypeInv /\ pc = "program" /\ pc' = "transfer"
      /\ wrote' = IF req.io_type = "write" THEN req ELSE wrote
      /\ UNCHANGED <<disk, kind, req, done, buf, ret, booting, valid, block_devs, mbr_info, layout>>
      /\ kind = "ata" /\ done = 0 /\ buf = <<>>
      /\ req.io_type \in {"read", "write"} /\ req.nsecs >= 1 /\ req.nsecs <= req.bsize
      /\ req.nsecs \in Nat /\ req.secno \in Nat
  BY DEF Inv, Program, system, ReqInv, BootInv, TypeInv, Programs
<1>2. Quiet
  BY <1>1 DEF Inv, DevInv, Resting, Program, Ready
<1>3. dev' = [status |-> "busy", op |-> req.io_type, sec |-> req.secno, left |-> req.nsecs,
              data |-> NoData]
  BY <1>1, <1>2, CommandTaken DEF Program
<1>4. /\ dev' \in Drives /\ dev'.status = "busy" /\ dev'.op = req.io_type /\ dev'.data = NoData
      /\ dev'.sec = req.secno /\ dev'.left = req.nsecs
  BY <1>1, <1>3 DEF Drives
<1>5. Moving'
  BY <1>1, <1>4 DEF Moving
<1>6. TypeInv' /\ DevInv'
  BY <1>1, <1>4, <1>5 DEF TypeInv, DevInv
<1>7. ReqInv' /\ ReadInv'
  BY <1>1 DEF Inv, ReqInv, ReadInv
<1>8. BootInv'
  BY <1>1, <1>4 DEF Inv, BootInv, RegisteredAnswers, MbrRequest
<1> QED
  BY <1>6, <1>7, <1>8 DEF Inv

\* One sector goes through the port, and the drive and the driver stay together.
LEMMA TransferInv == Inv /\ Transfer => Inv'
<1> SUFFICES ASSUME Inv, Transfer PROVE Inv'
  OBVIOUS
<1>1. /\ TypeInv /\ pc = "transfer" /\ done < req.nsecs /\ Ready /\ ~ Failed /\ done' = done + 1
      /\ UNCHANGED <<disk, kind, pc, req, ret, booting, valid, block_devs, mbr_info, layout, wrote>>
  BY DEF Inv, Transfer, system
<1>2. /\ done \in Nat /\ req.nsecs \in Nat /\ req.secno \in Nat /\ dev \in Drives
      /\ buf \in Seq(Contents) /\ disk \in [Sectors -> Contents]
  BY <1>1 DEF TypeInv, Programs
<1>3. /\ dev.status = "drq" /\ dev.op = req.io_type /\ dev.data = NoData
      /\ dev.sec = req.secno + done /\ dev.left = req.nsecs - done
      /\ req.io_type = "read" => dev.sec \in Sectors
  BY <1>1, <1>2 DEF Inv, DevInv, Moving, Ready, Failed
<1>4. /\ req.io_type \in {"read", "write"} /\ req.nsecs >= 1 /\ req.nsecs <= req.bsize
      /\ kind = "ata" /\ (req.io_type = "write" => req.data \in Data)
  BY <1>1 DEF Inv, ReqInv, BootInv
<1>5. CASE req.io_type = "read"
  <2>1. buf' = Append(buf, disk[dev.sec]) /\ disk[dev.sec] \in Contents
    BY <1>2, <1>3, <1>5 DEF Transfer
  <2>2. dev' = IF dev.left = 1 THEN Idle
               ELSE [dev EXCEPT !.status = "busy", !.sec = dev.sec + 1, !.left = dev.left - 1]
    BY <1>3, <1>5 DEF Transfer
  <2>3. dev' \in Drives /\ dev'.op # "write" /\ Moving'
    <3>1. CASE dev.left = 1
      BY <1>1, <1>2, <1>3, <2>2, <3>1, IdleDrive DEF Moving
    <3>2. CASE dev.left # 1
      <4>1. dev' = [status |-> "busy", op |-> "read", sec |-> dev.sec + 1, left |-> dev.left - 1,
                    data |-> NoData]
        BY <1>2, <1>3, <1>5, <2>2, <3>2 DEF Drives
      <4>2. done + 1 < req.nsecs
        BY <1>1, <1>2, <1>3, <3>2
      <4>3. dev.sec + 1 = req.secno + (done + 1) /\ dev.left - 1 = req.nsecs - (done + 1)
            /\ dev.sec + 1 \in Int /\ dev.left - 1 \in Int
        <5>1. dev.sec = req.secno + done /\ dev.left = req.nsecs - done
              /\ req.secno \in Nat /\ done \in Nat /\ req.nsecs \in Nat
          BY <1>2, <1>3
        <5> QED BY <5>1
      <4>4. dev' \in Drives
        BY <4>1, <4>3 DEF Drives
      <4> QED BY <1>1, <1>5, <4>1, <4>2, <4>3, <4>4 DEF Moving
    <3> QED BY <3>1, <3>2
  <2>4. ReadInv'
    <3>1. /\ Len(buf) = done
          /\ \A i \in 1 .. done : req.secno + i - 1 \in Sectors /\ buf[i] = disk[req.secno + i - 1]
      BY <1>1, <1>5 DEF Inv, ReadInv
    <3>2. Len(buf') = done + 1 /\ buf'[done + 1] = disk[dev.sec]
          /\ \A i \in 1 .. done : buf'[i] = buf[i]
      BY <1>2, <2>1, <3>1
    <3>3. dev.sec \in Sectors /\ dev.sec = req.secno + (done + 1) - 1
      BY <1>2, <1>3, <1>5
    <3>4. ASSUME NEW i \in 1 .. done'
          PROVE  req.secno + i - 1 \in Sectors /\ buf'[i] = disk[req.secno + i - 1]
      <4>1. CASE i = done + 1
        BY <3>2, <3>3, <4>1
      <4>2. CASE i # done + 1
        <5>1. i \in 1 .. done
          BY <1>1, <1>2, <4>2
        <5> QED BY <3>1, <3>2, <5>1
      <4> QED BY <4>1, <4>2
    <3> QED BY <1>1, <3>2, <3>4 DEF ReadInv
  <2>5. TypeInv'
    BY <1>1, <1>2, <2>1, <2>3 DEF TypeInv
  <2>6. DevInv'
    BY <1>1, <1>4, <2>3 DEF DevInv
  <2>8. ReqInv'
    BY <1>1, <1>2, <1>4, <1>5 DEF ReqInv
  <2>7. BootInv'
    BY <1>1, <2>3 DEF Inv, BootInv, RegisteredAnswers
  <2> QED BY <2>4, <2>5, <2>6, <2>7, <2>8 DEF Inv
<1>6. CASE req.io_type = "write"
  <2>1. buf' = buf /\ dev' = [dev EXCEPT !.status = "busy", !.data = req.data]
    BY <1>3, <1>6 DEF Transfer
  <2>2. dev' = [status |-> "busy", op |-> "write", sec |-> dev.sec, left |-> dev.left,
                data |-> req.data]
    BY <1>2, <1>3, <1>6, <2>1 DEF Drives
  <2>3. dev' \in Drives /\ Moving'
    <3>1. dev.sec = req.secno + (done + 1) - 1 /\ dev.left = req.nsecs - (done + 1) + 1
          /\ dev.sec \in Int /\ dev.left \in Int
      BY <1>2, <1>3
    <3>2. dev' \in Drives
      BY <1>4, <1>6, <2>2, <3>1 DEF Drives
    <3> QED BY <1>1, <1>2, <1>6, <2>2, <3>1, <3>2 DEF Moving
  <2>4. ~ booting
    BY <1>1, <1>6 DEF Inv, BootInv, MbrRequest
  <2>5. TypeInv'
    BY <1>1, <1>2, <2>1, <2>3 DEF TypeInv
  <2>6. DevInv' /\ ReadInv'
    BY <1>1, <1>4, <1>6, <2>3 DEF DevInv, ReadInv
  <2>8. ReqInv'
    BY <1>1, <1>2, <1>4, <1>6 DEF Inv, ReqInv
  <2>7. BootInv'
    BY <1>1, <2>4 DEF Inv, BootInv, RegisteredAnswers
  <2> QED BY <2>5, <2>6, <2>7, <2>8 DEF Inv
<1> QED
  BY <1>4, <1>5, <1>6

LEMMA TransferFailsInv == Inv /\ TransferFails => Inv'
<1> SUFFICES ASSUME Inv, TransferFails PROVE Inv'
  OBVIOUS
<1>1. /\ TypeInv /\ pc = "transfer" /\ Failed /\ ret' = "failed" /\ pc' = "return"
      /\ UNCHANGED <<disk, kind, dev, req, done, buf, booting, valid, block_devs, mbr_info, layout,
                     wrote>>
  BY DEF TransferFails, Inv, system
<1>2. TypeInv' /\ DevInv'
  BY <1>1 DEF Inv, TypeInv, DevInv, Resting, Quiet, Failed
<1>3. ReqInv' /\ ReadInv'
  BY <1>1 DEF Inv, ReqInv, ReadInv
<1>4. BootInv'
  BY <1>1 DEF Inv, BootInv, RegisteredAnswers
<1> QED
  BY <1>2, <1>3, <1>4 DEF Inv

\* After the last sector the drive rests, or stores what it was just given.
LEMMA TransferredInv == Inv /\ Transferred => Inv'
<1> SUFFICES ASSUME Inv, Transferred PROVE Inv'
  OBVIOUS
<1>1. /\ TypeInv /\ pc = "transfer" /\ done = req.nsecs /\ ret' = "ok" /\ pc' = "return"
      /\ UNCHANGED <<disk, kind, dev, req, done, buf, booting, valid, block_devs, mbr_info, layout,
                     wrote>>
  BY DEF Transferred, Inv, system
<1>2. done \in Nat /\ req.secno \in Nat /\ dev \in Drives /\ req.nsecs >= 1
  BY <1>1 DEF Inv, TypeInv, Programs, ReqInv
<1>3. Resting /\ (req.io_type = "read" => Quiet)
  <2>1. Moving
    BY <1>1 DEF Inv, DevInv
  <2>2. CASE Quiet
    BY <2>2 DEF Resting
  <2>3. CASE ~ Quiet
    <3>1. /\ dev.status = "busy" /\ dev.op = "write" /\ req.io_type = "write" /\ dev.data = req.data
          /\ dev.sec = req.secno + done - 1 /\ dev.left = req.nsecs - done + 1
      BY <1>1, <1>2, <2>1, <2>3 DEF Moving, Quiet
    <3>2. wrote = req /\ req.data \in Data
      BY <1>1, <3>1 DEF Inv, ReqInv
    <3>3. dev.data # NoData
      BY <3>1, <3>2, DiskAssumption
    <3>4. dev.left = 1
      BY <1>1, <1>2, <3>1
    <3> QED BY <1>1, <1>2, <3>1, <3>2, <3>3, <3>4 DEF Resting
  <2> QED BY <2>2, <2>3
<1>4. TypeInv' /\ DevInv'
  <2>1. kind = "empty" => dev.status = "ready"
    BY DEF Inv, DevInv
  <2> QED BY <1>1, <1>3, <2>1 DEF TypeInv, DevInv, Resting, Quiet
<1>5. ReqInv' /\ ReadInv'
  BY <1>1 DEF Inv, ReqInv, ReadInv
<1>6. BootInv'
  BY <1>1 DEF Inv, BootInv, RegisteredAnswers
<1> QED
  BY <1>4, <1>5, <1>6 DEF Inv

\* What is left when a caller forgets its request.
LEMMA ForgetInv ==
    ASSUME Inv, pc = "return", Forget, pc' = "free", booting' = FALSE,
           UNCHANGED <<disk, kind, dev, valid, block_devs, wrote>>
    PROVE  Inv'
<1>1. /\ TypeInv /\ Resting /\ req' = NoRequest /\ done' = 0 /\ buf' = <<>> /\ ret' = "none"
  BY DEF Inv, DevInv, Forget
<1>2. NoRequest \in Programs /\ NoRequest.nsecs = 0 /\ NoRequest.io_type = "none" /\ <<>> \in Seq(Contents)
  BY DEF NoRequest, Programs
<1>3. TypeInv' /\ DevInv'
  BY <1>1, <1>2 DEF Inv, TypeInv, DevInv, Resting, Quiet
<1>4. ReqInv' /\ ReadInv'
  BY <1>1, <1>2 DEF ReqInv, ReadInv
<1>5. BootInv'
  BY DEF Inv, BootInv, RegisteredAnswers
<1> QED
  BY <1>3, <1>4, <1>5 DEF Inv

LEMMA ReturnInv == Inv /\ Return => Inv'
<1> SUFFICES ASSUME Inv, Return PROVE Inv'
  OBVIOUS
<1>1. booting' = FALSE
  BY DEF Return, system, Inv, TypeInv
<1> QED
  BY <1>1, ForgetInv DEF Return, system

LEMMA SfsInitInv == Inv /\ SfsInit => Inv'
BY ForgetInv DEF SfsInit

LEMMA StutterInv == Inv /\ UNCHANGED vars => Inv'
BY DEF vars, driver, system, Inv, TypeInv, Drives, Programs, DevInv, Resting, Moving, Quiet, ReqInv,
       ReadInv, BootInv, RegisteredAnswers, MbrRequest

LEMMA NextInv == Inv /\ [Next]_vars => Inv'
<1> SUFFICES ASSUME Inv, [Next]_vars PROVE Inv'
  OBVIOUS
<1>1. CASE Drive
  BY <1>1, DriveFailsInv, DriveReadyInv, DriveStoresInv DEF Drive
<1>2. CASE Driver
  BY <1>2, ProbeInv, IdentifyInv, ReadMbrInv, SfsInitInv, ProgramInv, TransferInv,
     TransferFailsInv, TransferredInv, ReturnInv DEF Driver
<1>3. CASE Request
  BY <1>3, RequestInv
<1>4. CASE UNCHANGED vars
  BY <1>4, StutterInv
<1> QED
  BY <1>1, <1>2, <1>3, <1>4 DEF Next

-----------------------------------------------------------------------------
(* The theorems.                                                            *)

LEMMA Invariance == Spec => []Inv
BY InitInv, NextInv, PTL DEF Spec

\* The driver's variables and the drive's keep their types.
THEOREM TypeCorrect == Spec => []TypeInv
<1>1. Inv => TypeInv
  BY DEF Inv
<1> QED
  BY <1>1, Invariance, PTL

\* A read that returns 0 has put into the buffer what the sectors hold, whatever
\* became of the requests before (ide_read_secs, ide.c:228).
THEOREM ReadsAreDisk == Spec => []ReadIsDisk
<1>1. Inv => ReadIsDisk
  <2> SUFFICES ASSUME Inv, pc = "return", ret = "ok", req.io_type = "read"
               PROVE  buf = [i \in 1 .. req.nsecs |-> disk[req.secno + i - 1]]
    BY DEF ReadIsDisk
  <2>1. done = req.nsecs /\ Len(buf) = done /\ buf \in Seq(Contents)
        /\ \A i \in 1 .. done : buf[i] = disk[req.secno + i - 1]
    BY DEF Inv, ReqInv, ReadInv, TypeInv
  <2>2. buf = [i \in 1 .. Len(buf) |-> buf[i]]
    BY <2>1
  <2> QED BY <2>1, <2>2
<1> QED
  BY <1>1, Invariance, PTL

\* No sector changes but those of the last write, and to what it writes: the next
\* request waits until the drive has stored the sector it holds (ide_write_secs,
\* ide.c:255).
THEOREM OnlyRequestedIsWritten == Spec => WritesOnlyRequested
<1> DEFINE A == \A s \in Sectors : disk'[s] # disk[s] => s \in Span(wrote) /\ disk'[s] = wrote.data
<1>1. Inv /\ [Next]_vars => [A]_vars
  <2> SUFFICES ASSUME Inv, [Next]_vars PROVE A
    BY DEF A
  <2>1. CASE disk' = disk
    BY <2>1
  <2>2. CASE disk' # disk
    <3>1. DriveStores /\ UNCHANGED <<kind, driver, system, wrote>>
      BY <2>2 DEF Next, vars, Drive, DriveFails, DriveReady, Driver, Request, Probe, Identify, ReadMbr,
                  SfsInit, Program, Transfer, TransferFails, Transferred, Return
    <3>2. dev.sec \in Span(wrote) /\ disk' = [disk EXCEPT ![dev.sec] = wrote.data]
      BY <3>1, DriveStoresInv
    <3>3. disk \in [Sectors -> Contents]
      BY DEF Inv, TypeInv
    <3> QED BY <3>2, <3>3
  <2> QED BY <2>1, <2>2
<1> QED
  BY <1>1, Invariance, PTL DEF Spec, WritesOnlyRequested

\* No more is transferred than the caller's buffer holds, for every size of a
\* machine word that is larger than what a request may ask for (ide_request,
\* ide.c:210).
THEOREM BuffersHold == Spec => []TransferFitsBuffer
<1>1. Inv => TransferFitsBuffer
  <2> SUFFICES ASSUME Inv PROVE done <= req.bsize
    BY DEF TransferFitsBuffer
  <2>1. done \in Nat /\ req.nsecs \in Nat /\ req.bsize \in Nat /\ done <= req.nsecs
        /\ (done > 0 => req.nsecs <= req.bsize)
    BY DEF Inv, TypeInv, Programs, ReqInv
  <2> QED BY <2>1
<1> QED
  BY <1>1, Invariance, PTL

\* A device is registered only when a drive has answered, and boot does not run
\* into an assertion (ide_init, ide.c:140).
THEOREM RegisteredIsThere == Spec => []RegisteredAnswers
<1>1. Inv => RegisteredAnswers
  BY DEF Inv, BootInv
<1> QED
  BY <1>1, Invariance, PTL

\* A partition sfs_init would format has room for the super block, and ends below
\* half of what a sector number can say.
TablesFit ==
    \A t \in Tables : \A i \in DOMAIN t :
        t[i].type = "sfs" /\ t[i].start > 0 /\ t[i].nr > t[i].start =>
            /\ t[i].start \in Nat /\ t[i].nr \in Nat
            /\ t[i].start + INODEMAP_OFFSET <= t[i].nr /\ 2 * t[i].nr + 2 < WORD

\* What boot formats of the table it has read from the disk is well formed, if the
\* partitions of the disk are (sfs_init, sfs.c:102, and read_mbr_info, mbr.c).
THEOREM FormattedIsWellFormed ==
    ASSUME WORD \in Nat, TablesFit
    PROVE  Spec => []LayoutWellFormed
<1> DEFINE I == Inv /\ LayoutWellFormed
<1>1. Init => I
  BY InitInv DEF Init, LayoutWellFormed
<1>2. I /\ [Next]_vars => I'
  <2> SUFFICES ASSUME I, [Next]_vars PROVE I'
    OBVIOUS
  <2>1. Inv'
    BY NextInv
  <2>2. CASE layout' = layout
    BY <2>1, <2>2 DEF LayoutWellFormed
  <2>3. CASE layout' # layout
    <3>1. SfsInit
      BY <2>3 DEF Next, vars, system, Drive, Driver, Request, Probe, Identify, ReadMbr, Program,
                  Transfer, TransferFails, Transferred, Return
    <3>2. mbr_info' \in Tables \cup {<<>>} /\ layout' = Formatted(mbr_info')
      <4>1. CASE ret = "ok"
        <5>1. booting /\ pc = "return" /\ disk[0] \in Tables /\ req = MbrRequest
          BY <3>1 DEF SfsInit, Inv, BootInv
        <5>2. done = 1 /\ req.io_type = "read" /\ req.secno = 0
          BY <4>1, <5>1 DEF Inv, ReqInv, MbrRequest
        <5>3. buf[1] = disk[0]
          BY <5>1, <5>2 DEF Inv, ReadInv
        <5> QED BY <3>1, <4>1, <5>1, <5>3 DEF SfsInit
      <4>2. CASE ret # "ok"
        BY <3>1, <4>2 DEF SfsInit
      <4> QED BY <4>1, <4>2
    <3>3. ASSUME NEW l \in layout' PROVE WellFormed(l)
      <4>1. PICK i \in SfsPartitions(mbr_info') :
                /\ mbr_info'[i].start > 0 /\ mbr_info'[i].nr > mbr_info'[i].start
                /\ l = Layout(mbr_info'[i].start, mbr_info'[i].nr)
        BY <3>2, <3>3 DEF Formatted
      <4>2. i \in DOMAIN mbr_info' /\ mbr_info'[i].type = "sfs"
        BY <4>1 DEF SfsPartitions
      <4>3. mbr_info' \in Tables
        BY <3>2, <4>2
      <4> QED BY <4>1, <4>2, <4>3, LayoutIsWellFormed DEF TablesFit
    <3> QED BY <2>1, <3>3 DEF LayoutWellFormed
  <2> QED BY <2>2, <2>3
<1>3. I => LayoutWellFormed
  OBVIOUS
<1> QED
  BY <1>1, <1>2, <1>3, PTL DEF Spec
=============================================================================
