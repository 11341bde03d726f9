-------------------------------- MODULE Disk --------------------------------
(***************************************************************************)
(* The IDE driver (driver/ide.c) with the disk it drives, and what boot    *)
(* does with it: the probe and the registration of the device              *)
(* (driver/block_dev.c), the partition table (fs/mbr.c) and the layout of  *)
(* the SFS partition (fs/sfs/sfs.c).  After boot a caller makes requests   *)
(* through the operations of the registered device, one at a time.         *)
(*                                                                         *)
(* The disk is external: it answers a command after some time, sector by   *)
(* sector, and may report an error instead.  It raises BSY as soon as it   *)
(* takes a command, takes none while it transfers, and loses what is       *)
(* written to its registers while it is busy into the operation under way. *)
(* A definition marked FAULT is a plausible slip in the one after it, kept *)
(* to show that a property would notice it.                                *)
(***************************************************************************)
EXTENDS SfsLayout, Sequences

CONSTANTS
    NSectors,           \* sectors of the disk
    Tables,             \* partition tables sector 0 may hold
    Data,               \* what is written to a sector
    MAX_NSECS,          \* sectors of a request
    MAX_DISK_NSECS,     \* sectors the driver can number
    SIZE_WORD,          \* the modulus of a buffer size, 2^32 in sectors
    Counts, Sizes,      \* numbers of sectors, and buffer sizes, of requests
    NoData, Garbage

ASSUME DiskAssumption ==
    /\ NSectors \in Nat \ {0} /\ NSectors <= MAX_DISK_NSECS
    /\ MAX_NSECS \in Nat \ {0} /\ MAX_DISK_NSECS \in Nat
    /\ SIZE_WORD \in Nat /\ MAX_NSECS < SIZE_WORD
    /\ Counts \subseteq Nat \ {0} /\ Sizes \subseteq 0 .. SIZE_WORD - 1
    /\ {NoData, Garbage} \cap (Data \cup Tables) = {}

Sectors == 0 .. NSectors - 1

VARIABLES
    disk,               \* what the sectors hold
    kind,               \* "ata", or "empty" when no drive answers
    dev,                \* the state of the drive
    booting,
    pc,                 \* where the driver is
    req,                \* the request it serves
    done,               \* sectors of it that are transferred
    buf,                \* the sectors it has read
    ret,                \* what the request returned
    valid,              \* ide_device.valid
    block_devs,         \* the registered block devices, newest first
    mbr_info,           \* the partition table, empty before it is read
    layout,             \* the layouts computed by sfs_mkfs
    wrote               \* history: the last write request programmed

driver == <<pc, req, done, buf, ret>>
system == <<booting, valid, block_devs, mbr_info, layout>>
vars   == <<disk, kind, dev, driver, system, wrote>>

NoRequest == [io_type |-> "none", secno |-> 0, nsecs |-> 0, bsize |-> 0, data |-> NoData]

Idle == [status |-> "ready", op |-> "none", sec |-> 0, left |-> 0, data |-> NoData]

Init ==
    /\ \E t \in Tables, d \in Data : disk = [s \in Sectors |-> IF s = 0 THEN t ELSE d]
    /\ kind \in {"ata", "empty"}
    /\ dev \in {Idle, [Idle EXCEPT !.status = IF kind = "ata" THEN "busy" ELSE "ready"]}
    /\ booting = TRUE
    /\ pc = "probe" /\ req = NoRequest /\ done = 0 /\ buf = <<>> /\ ret = "none"
    /\ valid = FALSE /\ block_devs = <<>> /\ mbr_info = <<>> /\ layout = {}
    /\ wrote = NoRequest

----------------------------------------------------------------------------
(* The drive.                                                               *)

\* The command and its registers reach the drive.
Command(op, sec, left) ==
    dev' = CASE kind = "empty" -> dev
             [] dev.status = "busy" -> [dev EXCEPT !.sec = sec]
             [] dev.status = "drq" -> dev
             [] OTHER -> [Idle EXCEPT !.status = "busy", !.op = op, !.sec = sec, !.left = left]

\* The drive fails what it is doing.
DriveFails ==
    /\ dev.status = "busy" /\ dev.op # "none"
    /\ dev' = [Idle EXCEPT !.status = "error"]
    /\ UNCHANGED disk

\* It is ready to transfer a sector, or has started up.
DriveReady ==
    /\ dev.status = "busy" /\ dev.data = NoData
    /\ dev.op \in {"read", "write"} => dev.sec \in Sectors
    /\ dev' = IF dev.op = "none" THEN Idle ELSE [dev EXCEPT !.status = "drq"]
    /\ UNCHANGED disk

\* It has written the sector it was given.
DriveStores ==
    /\ dev.status = "busy" /\ dev.data # NoData /\ dev.sec \in Sectors
    /\ disk' = [disk EXCEPT ![dev.sec] = dev.data]
    /\ dev' = IF dev.left = 1 THEN Idle
              ELSE [dev EXCEPT !.status = "drq", !.sec = @ + 1, !.left = @ - 1,
                               !.data = NoData]

Drive == (DriveFails \/ DriveReady \/ DriveStores) /\ UNCHANGED <<kind, driver, system, wrote>>

----------------------------------------------------------------------------
(* Waiting.                                                                 *)

\* FAULT: a drive in error is waited for, too.
ReadyWithoutError == dev.status \notin {"busy", "error"}

\* ide_wait_ready polls until this holds; the error bits are a second question.
Ready == dev.status # "busy"

Failed == dev.status = "error"

----------------------------------------------------------------------------
(* Boot: ide_init, block_dev_init, read_mbr_info and sfs_init.              *)

Probe ==
    /\ pc = "probe" /\ Ready
    /\ Command("identify", 0, 1)
    /\ pc' = "identify"
    /\ UNCHANGED <<disk, kind, req, done, buf, ret, system, wrote>>

\* FAULT: the status is not tested.
IdentifyUntested ==
    /\ pc = "identify" /\ Ready
    /\ valid' = TRUE
    /\ block_devs' = <<"IDE_MAIN">> \o block_devs
    /\ dev' = Idle
    /\ pc' = "mbr"
    /\ UNCHANGED <<disk, kind, req, done, buf, ret, booting, mbr_info, layout, wrote>>

\* The drive is there and describes itself: it is registered, for no device of
\* that name is.
Identify ==
    /\ pc = "identify" /\ Ready
    /\ IF kind = "empty" \/ Failed
       THEN /\ pc' = "none"
            /\ UNCHANGED <<dev, valid, block_devs>>
       ELSE /\ valid' = TRUE
            /\ block_devs' = <<"IDE_MAIN">> \o block_devs
            /\ dev' = Idle
            /\ pc' = "mbr"
    /\ UNCHANGED <<disk, kind, req, done, buf, ret, booting, mbr_info, layout, wrote>>

\* ide_request: the buffer must hold the sectors.  Their size is computed in 32
\* bits.  In sectors, as all sizes here.
BufferHolds(r) == r.bsize >= r.nsecs % SIZE_WORD

\* FAULT: only the sector number is asserted.
AssertedSecno(r) == valid /\ r.secno < MAX_DISK_NSECS

\* The assertions of ide_read_secs and ide_write_secs.
Asserted(r) ==
    /\ r.nsecs <= MAX_NSECS /\ valid
    /\ r.secno < MAX_DISK_NSECS /\ r.secno + r.nsecs <= MAX_DISK_NSECS

\* ide_request(r): a request it does not refuse is programmed, or panics.
Submit(r) ==
    /\ req' = r /\ done' = 0 /\ buf' = <<>>
    /\ IF r.io_type \notin {"read", "write"} \/ ~BufferHolds(r)
       THEN ret' = "failed" /\ pc' = "return"
       ELSE ret' = "none" /\ pc' = IF Asserted(r) THEN "program" ELSE "panic"

\* read_mbr_info: one sector, into a buffer of one sector.
MbrRequest == [io_type |-> "read", secno |-> 0, nsecs |-> 1, bsize |-> 1, data |-> NoData]

ReadMbr ==
    /\ pc = "mbr"
    /\ Submit(MbrRequest)
    /\ UNCHANGED <<disk, kind, dev, system, wrote>>

\* The partition sfs_init formats: the last one of its type.  What it takes for
\* the end of the partition is the number of its sectors.
SfsPartitions(t) == {i \in DOMAIN t : t[i].type = "sfs"}

Formatted(t) ==
    {Layout(t[i].start, t[i].nr) :
        i \in {i \in SfsPartitions(t) : /\ \A j \in SfsPartitions(t) : j <= i
                                        /\ t[i].start > 0 /\ t[i].nr > t[i].start}}

----------------------------------------------------------------------------
(* Requests: ide_request, ide_read_secs and ide_write_secs.                 *)

Requests ==
    [io_type : {"read"}, secno : 0 .. MAX_DISK_NSECS, nsecs : Counts, bsize : Sizes,
     data : {NoData}]
    \cup [io_type : {"write"}, secno : 0 .. MAX_DISK_NSECS, nsecs : Counts, bsize : Sizes,
          data : Data]
    \cup {[NoRequest EXCEPT !.io_type = "other"]}

Request ==
    /\ pc = "free" /\ block_devs # <<>>
    /\ \E r \in Requests : Submit(r)
    /\ UNCHANGED <<disk, kind, dev, system, wrote>>

\* FAULT: the registers are written at once.
ProgramUnwaited ==
    /\ pc = "program"
    /\ Command(req.io_type, req.secno, req.nsecs)
    /\ wrote' = IF req.io_type = "write" THEN req ELSE wrote
    /\ pc' = "transfer"
    /\ UNCHANGED <<disk, kind, req, done, buf, ret, system>>

\* The drive is waited for, whatever became of its last operation, and the
\* registers and the command are written.
Program ==
    /\ pc = "program" /\ Ready
    /\ Command(req.io_type, req.secno, req.nsecs)
    /\ wrote' = IF req.io_type = "write" THEN req ELSE wrote
    /\ pc' = "transfer"
    /\ UNCHANGED <<disk, kind, req, done, buf, ret, system>>

\* One sector goes through the data port.
Transfer ==
    /\ pc = "transfer" /\ done < req.nsecs /\ Ready /\ ~Failed
    /\ IF req.io_type = "read"
       THEN /\ buf' = Append(buf, IF dev.status = "drq" THEN disk[dev.sec] ELSE Garbage)
            /\ dev' = CASE dev.status # "drq" -> dev
                        [] dev.left = 1 -> Idle
                        [] OTHER -> [dev EXCEPT !.status = "busy", !.sec = @ + 1,
                                                !.left = @ - 1]
       ELSE /\ buf' = buf
            /\ dev' = IF dev.status # "drq" THEN dev
                      ELSE [dev EXCEPT !.status = "busy", !.data = req.data]
    /\ done' = done + 1
    /\ UNCHANGED <<disk, kind, pc, req, ret, system, wrote>>

\* The drive reports an error, and the rest of the request is given up.
TransferFails ==
    /\ pc = "transfer" /\ done < req.nsecs /\ Ready /\ Failed
    /\ ret' = "failed" /\ pc' = "return"
    /\ UNCHANGED <<disk, kind, dev, req, done, buf, system, wrote>>

\* All sectors have gone through the port; a drive that is still writing the
\* last one is not waited for.
Transferred ==
    /\ pc = "transfer" /\ done = req.nsecs
    /\ ret' = "ok" /\ pc' = "return"
    /\ UNCHANGED <<disk, kind, dev, req, done, buf, system, wrote>>

\* The caller has what it asked for, and forgets it.
Forget == req' = NoRequest /\ done' = 0 /\ buf' = <<>> /\ ret' = "none"

Return ==
    /\ pc = "return" /\ ~booting
    /\ Forget
    /\ pc' = "free"
    /\ UNCHANGED <<disk, kind, dev, system, wrote>>

\* Boot goes on with what has been read, or without a partition table.
SfsInit ==
    /\ pc = "return" /\ booting
    /\ mbr_info' = IF ret = "ok" THEN buf[1] ELSE <<>>
    /\ layout' = Formatted(mbr_info')
    /\ booting' = FALSE
    /\ Forget
    /\ pc' = "free"
    /\ UNCHANGED <<disk, kind, dev, valid, block_devs, wrote>>

Driver == Probe \/ Identify \/ ReadMbr \/ SfsInit
            \/ Program \/ Transfer \/ TransferFails \/ Transferred \/ Return

Next == Drive \/ Driver \/ Request

Spec == Init /\ [][Next]_vars

(***************************************************************************)
(* The caller runs, and the drive answers every command in the end; nobody *)
(* need make a request.                                                    *)
(***************************************************************************)
FairSpec == Spec /\ WF_vars(Driver) /\ WF_vars(Drive)

----------------------------------------------------------------------------
Span(r) == r.secno .. r.secno + r.nsecs - 1

\* A read that returns 0 has put into the buffer what the sectors hold, although
\* an earlier request may have failed half-way, or have returned while the drive
\* was still writing.
ReadIsDisk ==
    (pc = "return" /\ ret = "ok" /\ req.io_type = "read") =>
        buf = [i \in 1 .. req.nsecs |-> disk[req.secno + i - 1]]

\* No sector changes but those of the last write, and to what it writes: a later
\* request does not disturb a drive that is still writing.
WritesOnlyRequested ==
    [][\A s \in Sectors : disk'[s] # disk[s] => s \in Span(wrote) /\ disk'[s] = wrote.data]_vars

\* No more is transferred than the caller's buffer holds, although the size of
\* the request is tested modulo 2^32.
TransferFitsBuffer == done <= req.bsize

\* A device is registered only when a drive has answered, and no request is made
\* of one that is not there: boot does not run into an assertion.
RegisteredAnswers ==
    /\ block_devs # <<>> => valid /\ kind = "ata"
    /\ booting => pc # "panic"

\* What sfs_mkfs computes for the partitions that are long enough is well formed.
LayoutWellFormed == \A l \in layout : WellFormed(l)

\* Whatever errors the drive reports, boot comes to its end and every request
\* returns, or panics.
CallsReturn == []<>(pc \in {"free", "none", "panic"})
=============================================================================
