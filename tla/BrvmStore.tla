------------------------------ MODULE BrvmStore ------------------------------
(***************************************************************************)
(* The durable store of the BOTTLE ROCKET VM (brvm.c) and the APDU host    *)
(* that drives it (brctl.c serve, update, save-state).                     *)
(*                                                                         *)
(* Two state records and two image files alternate.  An UPDATE stages      *)
(* fragments, verifies the image, writes the inactive image file and then  *)
(* commits a record; every file is written to a temporary name, renamed,   *)
(* and the directory is synced.  The process may be killed, and the power  *)
(* may fail, between any two of these steps.                               *)
(*                                                                         *)
(* An image stands for its bytes, length and hash.  Directory updates are  *)
(* assumed to reach the medium in order: a power loss leaves some earlier  *)
(* state of the directory, no earlier than the last one synced.            *)
(***************************************************************************)
EXTENDS Naturals

CONSTANTS Images,       \* the images the issuer signed
          Version,      \* their versions
          NumFrags,     \* fragments an image is sent in
          NoImg,        \* active_image_length = 0, an absent file, no code
          MaxTxid,      \* bound on the transaction numbers a client uses
          MaxGen        \* UINT32_MAX of the generation counter

ASSUME StoreAssumption ==
    /\ Version \in [Images -> Nat \ {0}]
    /\ NumFrags \in Nat \ {0}
    /\ NoImg \notin Images
    /\ MaxTxid \in Nat
    /\ MaxGen \in Nat

VARIABLES disk,      \* the files as a running process sees them
          older,     \* the states of the files a power loss may bring back
          stage,     \* the stage file
          vm,        \* the volatile br_vm
          pc,        \* where the process is: down, idle, or inside a write
          job,       \* the write in progress: its cause and, for an update, the
                     \* durable fields not in vm (new ones until the image is
                     \* durable, then the ones to restore if the save fails)
          acked,     \* history: the last update answered with SW_OK
          expected   \* history: images a restart may legitimately load

vars == <<disk, older, stage, vm, pc, job, acked, expected>>
-----------------------------------------------------------------------------
ImgOrNone == Images \cup {NoImg}
Slots     == {0, 1}
Gens      == 0..MaxGen
Txids     == 0..MaxTxid
Versions  == {0} \cup {Version[i] : i \in Images}
Fragments == Images \X (1..NumFrags)

\* The part of br_vm that persist_encode writes (with the generation).
Durable == [ver : Versions, txid : Txids, slot : Slots, img : ImgOrNone]
Record  == [gen : Gens, core : Durable]
NoRec   == [gen |-> 0, core |-> [ver |-> 0, txid |-> 0, slot |-> 0, img |-> NoImg]]
Blank   == NoRec.core

\* Every fragment counts one: update_received is update_next_seq.
Upload == [txid : Txids, total : 0..NumFrags, got : 0..NumFrags]
NoUpload == [txid |-> 0, total |-> 0, got |-> 0]

\* The stage file holds the first len fragments of an image, or bytes that are the
\* prefix of none and so can never pass verification.
Junk == [img |-> NoImg, len |-> 0]
Stages == {Junk} \cup [img : Images, len : 1..NumFrags]
Written(frag) == IF frag[2] = 1 THEN [img |-> frag[1], len |-> 1] ELSE Junk
Appended(frag) == IF stage # Junk /\ frag = <<stage.img, stage.len + 1>>
                  THEN [stage EXCEPT !.len = @ + 1] ELSE Junk

NoJob == [why |-> "none", aside |-> Blank]
FreshVM == [gen |-> 0, core |-> Blank, code |-> NoImg, upload |-> NoUpload]

\* A record with generation 0 stands for an absent file: br_vm_save writes >= 1.
HasRecord(d) == \E s \in Slots : d.rec[s].gen # 0

\* The record br_vm_recover chooses: record 0 unless record 1 is newer.
Chosen(d) == IF d.rec[0].gen >= d.rec[1].gen THEN d.rec[0] ELSE d.rec[1]

\* The record's image file is there and has the recorded length and hash.
ImageIntact(d) == LET c == Chosen(d).core
                  IN  c.img = NoImg \/ d.img[c.slot] = c.img

\* Every state of the files a later start may find.
Findable == older \cup {disk}

AnyVersion(staged) == staged.len = NumFrags    \* mutant: no downgrade check

\* br_image_load on the scratch VM: complete, signed, and not an older version.
Admissible(staged) == staged.len = NumFrags /\ Version[staged.img] >= vm.core.ver
-----------------------------------------------------------------------------
Init == /\ disk = [rec |-> [s \in Slots |-> NoRec], img |-> [s \in Slots |-> NoImg]]
        /\ older = {}
        /\ stage = Junk
        /\ vm = FreshVM
        /\ pc = "down"
        /\ job = NoJob
        /\ acked = Blank
        /\ expected = {NoImg}

(* br_vm_recover: the chosen record's fields are adopted before its image  *)
(* is verified, so a failed recovery leaves them in place.  With no record *)
(* at all nothing is adopted.  Code is replaced only by an intact image.   *)
Recovered(v) ==
    IF ~HasRecord(disk) THEN v
    ELSE LET c == Chosen(disk)
         IN  [v EXCEPT !.gen = c.gen, !.core = c.core,
                       !.code = IF ImageIntact(disk) /\ c.core.img # NoImg
                                THEN c.core.img ELSE @]

RecoverOK == HasRecord(disk) /\ ImageIntact(disk)

\* serve: br_vm_init, bind, recover; a failed recovery is followed by br_vm_reset,
\* which keeps the durable fields, and the host serves on.
Boot == /\ pc = "down"
        /\ vm' = Recovered(FreshVM)
        /\ pc' = "idle"
        /\ expected' = {Chosen(d).core.img : d \in Findable}
        /\ UNCHANGED <<disk, older, stage, job, acked>>

\* The process ends between any two steps; the files stay as it saw them.
Kill == /\ pc # "down"
        /\ pc' = "down" /\ job' = NoJob /\ vm' = FreshVM
        /\ UNCHANGED <<disk, older, stage, acked, expected>>

\* The power fails: a suffix of the directory updates since the last sync is lost.
PowerLoss == /\ older # {}
             /\ disk' \in Findable
             /\ older' = {}
             /\ pc' = "down" /\ job' = NoJob /\ vm' = FreshVM
             /\ UNCHANGED <<stage, acked, expected>>
-----------------------------------------------------------------------------
(* posix_write of a whole file: it fails with no visible effect, or the    *)
(* rename takes effect and then the parent directory is synced (a sync     *)
(* that fails is in BrvmStoreFaults).                                      *)
Rename(newDisk, then) == /\ disk' = newDisk
                         /\ older' = older \cup {disk}
                         /\ pc' = then

\* What a power loss may still bring back once the directory is synced.
NeverSynced == older        \* mutant: sync_parent is not called
Hardened == {}

\* br_vm_save up to the rename.  A counter at its limit fails closed.
StartSave(v, why, aside) == /\ vm' = v
                            /\ pc' = "save"
                            /\ job' = [why |-> why, aside |-> aside]

NextGen == vm.gen + 1

GenerationLeft == vm.gen # MaxGen

SaveRename ==
    /\ pc = "save" /\ GenerationLeft
    /\ Rename([disk EXCEPT !.rec[NextGen % 2] = [gen |-> NextGen, core |-> vm.core]],
              "saveSync")
    /\ expected' = expected \cup (IF job.why = "update" THEN {vm.core.img} ELSE {})
    /\ UNCHANGED <<stage, vm, job, acked>>

\* br_vm_save returned 0: an update loads its image and answers SW_OK; UPDATE and
\* RECOVER are followed by the save that serve makes after every SW_OK.
SaveDone ==
    /\ pc = "saveSync"
    /\ older' = Hardened
    /\ CASE job.why = "update" ->
              /\ StartSave([vm EXCEPT !.gen = NextGen, !.code = vm.core.img],
                           "serve", Blank)
              /\ acked' = vm.core
              /\ expected' = {vm.core.img}
         [] job.why = "recover" ->
              /\ StartSave([vm EXCEPT !.gen = NextGen], "serve", Blank)
              /\ UNCHANGED <<acked, expected>>
         [] job.why = "serve" ->
              /\ vm' = [vm EXCEPT !.gen = NextGen]
              /\ pc' = "idle" /\ job' = NoJob
              /\ UNCHANGED <<acked, expected>>
         [] job.why = "savestate" ->
              /\ vm' = FreshVM
              /\ pc' = "down" /\ job' = NoJob
              /\ UNCHANGED <<acked, expected>>
    /\ UNCHANGED <<disk, stage>>

KeepNewFields == vm.core    \* mutant: the roll-back is left out
RestoredFields == job.aside

\* br_vm_save returned -1: an update restores the five durable fields in memory
\* and answers SW_INTERNAL, whatever has become visible on disk.
AbortSave ==
    /\ vm' = CASE job.why = "update" -> [vm EXCEPT !.core = RestoredFields]
               [] job.why = "savestate" -> FreshVM
               [] OTHER -> vm
    /\ pc' = IF job.why = "savestate" THEN "down" ELSE "idle"
    /\ expected' = IF job.why = "update" THEN {job.aside.img} ELSE expected
    /\ job' = NoJob
    /\ UNCHANGED <<disk, older, stage, acked>>

SaveFailed == pc = "save" /\ AbortSave
-----------------------------------------------------------------------------
(* UPDATE: ordered fragments, then the inactive image, then the record.    *)

ActiveSlot == vm.core.slot  \* mutant: the slots do not alternate
InactiveSlot == IF vm.core.img = NoImg THEN 0 ELSE 1 - vm.core.slot

\* The reply to a fragment that was staged: SW_MORE, the start of the commit, or
\* a refusal that forgets the upload.
Disposed(u, staged, more) ==
    \/ /\ more /\ u.got < u.total
       /\ vm' = [vm EXCEPT !.upload = u]
       /\ UNCHANGED <<pc, job>>
    \/ /\ ~more /\ u.got = u.total
       /\ Admissible(staged)
       /\ job' = [why |-> "update",
                  aside |-> [ver |-> Version[staged.img], txid |-> u.txid,
                             img |-> staged.img, slot |-> InactiveSlot]]
       /\ vm' = [vm EXCEPT !.upload = NoUpload]
       /\ pc' = "image"
    \/ /\ IF more THEN u.got >= u.total ELSE u.got # u.total \/ ~Admissible(staged)
       /\ vm' = [vm EXCEPT !.upload = NoUpload]
       /\ UNCHANGED <<pc, job>>

\* Fragment 0 restarts the upload; a failed write of the stage file answers
\* SW_INTERNAL but keeps the upload open.
FirstFragment(t, total, frag, more) ==
    LET u == [txid |-> t, total |-> total, got |-> 1]
    IN  /\ pc = "idle" /\ t > vm.core.txid
        /\ \/ /\ stage' = Written(frag)
              /\ older' = Hardened
              /\ Disposed(u, stage', more)
           \/ /\ vm' = [vm EXCEPT !.upload = u]
              /\ UNCHANGED <<stage, older, pc, job>>
        /\ UNCHANGED <<disk, acked, expected>>

InSequence(t, seq) == /\ t = vm.upload.txid /\ seq = vm.upload.got
                      /\ vm.upload.got < vm.upload.total

\* A later fragment is appended; a failed append (whose bytes may have reached the
\* file) forgets the upload.
NextFragment(t, seq, frag, more) ==
    /\ pc = "idle" /\ t > vm.core.txid /\ InSequence(t, seq)
    /\ \/ /\ stage' = Appended(frag)
          /\ Disposed([vm.upload EXCEPT !.got = @ + 1], stage', more)
       \/ /\ stage' \in {stage, Appended(frag)}
          /\ vm' = [vm EXCEPT !.upload = NoUpload]
          /\ UNCHANGED <<pc, job>>
    /\ UNCHANGED <<disk, older, acked, expected>>

\* A fragment out of sequence forgets the upload.
StrayFragment(t, seq) ==
    /\ pc = "idle" /\ t > vm.core.txid /\ ~InSequence(t, seq)
    /\ vm' = [vm EXCEPT !.upload = NoUpload]
    /\ UNCHANGED <<disk, older, stage, pc, job, acked, expected>>

\* The verified image goes to the inactive image file.
ImageRename ==
    /\ pc = "image"
    /\ Rename([disk EXCEPT !.img[job.aside.slot] = job.aside.img], "imageSync")
    /\ UNCHANGED <<stage, vm, job, acked, expected>>

\* It is durable: memory takes the new fields and the record is saved.
ImageDone ==
    /\ pc = "imageSync"
    /\ older' = Hardened
    /\ StartSave([vm EXCEPT !.core = job.aside], "update", vm.core)
    /\ UNCHANGED <<disk, stage, acked, expected>>

\* The image could not be written: SW_INTERNAL.
AbortImage ==
    /\ pc' = "idle" /\ job' = NoJob
    /\ UNCHANGED <<disk, older, stage, vm, acked, expected>>

ImageFailed == pc = "image" /\ AbortImage
-----------------------------------------------------------------------------
(* INIT, EXEC, INPUT and RESET that succeed advance last_txid in memory    *)
(* only; serve answers and then saves.                                     *)
Command(t) ==
    /\ pc = "idle" /\ t > vm.core.txid
    /\ StartSave([vm EXCEPT !.core.txid = t], "serve", Blank)
    /\ UNCHANGED <<disk, older, stage, acked, expected>>

\* An EXEC that traps after service 5 (COMMIT) has bumped the generation counter.
\* The service has no overflow check (BrvmStoreFaults has the wrap).
Commit == /\ pc = "idle" /\ vm.gen # MaxGen
          /\ vm' = [vm EXCEPT !.gen = @ + 1]
          /\ UNCHANGED <<disk, older, stage, pc, job, acked, expected>>

\* RECOVER: adopt the durable state, then record this command's transaction.
Recover(t) ==
    /\ pc = "idle" /\ t > vm.core.txid
    /\ IF RecoverOK
       THEN StartSave([Recovered(vm) EXCEPT !.core.txid = t], "recover", Blank)
       ELSE vm' = Recovered(vm) /\ UNCHANGED <<pc, job>>
    /\ UNCHANGED <<disk, older, stage, acked, expected>>
-----------------------------------------------------------------------------
Update == \E t \in Txids, frag \in Fragments, more \in BOOLEAN :
             \/ \E total \in 1..NumFrags : FirstFragment(t, total, frag, more)
             \/ \E seq \in 1..NumFrags : NextFragment(t, seq, frag, more)

Next == \/ Boot \/ Kill \/ PowerLoss
        \/ SaveRename \/ SaveDone \/ SaveFailed
        \/ Update
        \/ \E t \in Txids, seq \in 1..NumFrags : StrayFragment(t, seq)
        \/ ImageRename \/ ImageDone \/ ImageFailed
        \/ \E t \in Txids : Command(t) \/ Recover(t)
        \/ Commit

Spec == Init /\ [][Next]_vars
-----------------------------------------------------------------------------
PCs == {"down", "idle", "image", "imageSync", "save", "saveSync"}

TypeOK ==
    /\ disk \in [rec : [Slots -> Record], img : [Slots -> ImgOrNone]]
    /\ older \subseteq [rec : [Slots -> Record], img : [Slots -> ImgOrNone]]
    /\ stage \in Stages
    /\ vm \in [gen : Gens, core : Durable, code : ImgOrNone, upload : Upload]
    /\ pc \in PCs
    /\ job \in [why : {"none", "update", "recover", "serve", "savestate"},
                aside : Durable]
    /\ acked \in Durable
    /\ expected \subseteq ImgOrNone

\* "Restart loads only the verified committed image": at every moment, and for every
\* directory state a power loss may leave, recovery finds its image intact and that
\* image is the committed one, or the one whose commit the crash interrupted.
\* br_vm_recover never falls back to the other record, so update_fragment's choice of
\* image file and its roll-back after a failed save must never break the newest one.
RestartLoadsCommitted ==
    \A d \in Findable : ImageIntact(d) /\ Chosen(d).core.img \in expected

\* An update answered with SW_OK survives every later crash: no state that can be
\* found has an older image version or transaction, so that neither a downgrade nor a
\* replay of the acknowledged update becomes possible again.
AckedUpdateDurable ==
    \A d \in Findable : /\ Chosen(d).core.ver >= acked.ver
                         /\ Chosen(d).core.txid >= acked.txid

\* While the host waits for a frame, the memory that the next save and the next choice
\* of image file rely on is at least as new as the newest record, and names its image:
\* the next record written wins over both records on disk.
MemoryLeadsDisk ==
    pc = "idle" =>
        /\ \A s \in Slots : vm.gen >= disk.rec[s].gen
        /\ vm.core.txid >= Chosen(disk).core.txid
        /\ vm.core.img = Chosen(disk).core.img
        /\ vm.core.slot = Chosen(disk).core.slot

\* The store refines one atomically updated register.
Value(d) == LET c == Chosen(d).core
            IN  [img |-> IF ImageIntact(d) THEN c.img ELSE "broken",
                 ver |-> c.ver, txid |-> c.txid]

Register == INSTANCE InstallRegister WITH
    Values <- [img : ImgOrNone, ver : Versions, txid : Txids],
    Blank <- [img |-> NoImg, ver |-> 0, txid |-> 0],
    installed <- Value(disk),
    recallable <- {Value(d) : d \in older},
    promised <- [img |-> acked.img, ver |-> acked.ver, txid |-> acked.txid]

\* What a restart reads advances atomically and never falls back behind an
\* acknowledged update (the abstract specification InstallRegister).
RefinesRegister == Register!ASpec
=============================================================================
