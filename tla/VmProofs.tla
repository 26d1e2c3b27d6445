------------------------------ MODULE VmProofs ------------------------------
(***************************************************************************)
(* Proofs about the virtual machine, for any images, programs, messages    *)
(* and bounds: BrvmStore's type invariant, its three safety invariants and *)
(* that it implements InstallRegister; that the interpreter only gives     *)
(* authority away; and that a session's commands arrive whole and once.    *)
(***************************************************************************)
EXTENDS BrvmStore, VmInterpreter, ApduSession, TLAPS

\* What each write in progress is for.
JobNamed ==
    /\ pc \in {"save", "saveSync"} => job.why \in {"update", "recover", "serve"}
    /\ pc \in {"image", "imageSync"} => job.why = "update"

\* An absent record counts as generation 0 with blank fields.
AbsentBlank == \A d \in Findable, s \in Slots : d.rec[s].gen = 0 => d.rec[s] = NoRec

\* Generation g is no less than those of the records.
Leads(g, d) == \A s \in Slots : d.rec[s].gen <= g

\* The fields core are those of the chosen record, or the same install with a later
\* transaction.
Follows(core, d) == LET c == Chosen(d).core
                    IN  /\ core.img = c.img /\ core.slot = c.slot
                        /\ core.ver = c.ver /\ core.txid >= c.txid

\* Memory follows the disk, except between the image and the record of an update.
MemoryFollows ==
    /\ pc \in {"idle", "image", "imageSync", "save"} => Leads(vm.gen, disk)
    /\ pc \in {"idle", "image", "imageSync"} => Follows(vm.core, disk)
    /\ pc = "save" /\ job.why # "update" => Follows(vm.core, disk)

\* Core is at least as late as base.
Later(core, base) == core.ver >= base.ver /\ core.txid >= base.txid

\* An update keeps clear of the active image until its own is durable, and then can go
\* back to fields that follow the disk.
UpdateSafe ==
    /\ pc \in {"image", "imageSync"} =>
          /\ job.aside.img \in Images /\ Later(job.aside, vm.core)
          /\ vm.core.img = NoImg \/ job.aside.slot # vm.core.slot
    /\ pc = "imageSync" => disk.img[job.aside.slot] = job.aside.img
    /\ pc = "save" /\ job.why = "update" =>
          /\ older = {} /\ Follows(job.aside, disk) /\ Later(vm.core, job.aside)
          /\ vm.core.img = NoImg \/ disk.img[vm.core.slot] = vm.core.img

\* Between the rename of a record and the sync, that record is the newest.
RecordSaved ==
    pc = "saveSync" => /\ vm.gen # MaxGen /\ Leads(NextGen, disk)
                       /\ Chosen(disk) = [gen |-> NextGen, core |-> vm.core]

\* The inductive invariant.
IInv == /\ TypeOK /\ JobNamed /\ AbsentBlank
        /\ MemoryFollows /\ UpdateSafe /\ RecordSaved
        /\ RestartLoadsCommitted /\ AckedUpdateDurable

USE StoreAssumption
-----------------------------------------------------------------------------
Files == [rec : [Slots -> Record], img : [Slots -> ImgOrNone]]

LEMMA FilesFound ==
    ASSUME TypeOK, NEW d \in Findable
    PROVE  d \in Files /\ Chosen(d) \in Record
  BY DEF TypeOK, Findable, Files, Chosen, Slots

\* Blank fields and no record are values of their types.
LEMMA Blanks == /\ Blank \in Durable /\ NoRec \in Record /\ NoUpload \in Upload
                /\ NoJob \in [why : {"none", "update", "recover", "serve", "savestate"},
                              aside : Durable]
                /\ FreshVM \in [gen : Gens, core : Durable, code : ImgOrNone,
                                upload : Upload]
                /\ Junk \in Stages
  BY DEF Blank, NoRec, Record, Durable, NoUpload, Upload, NoJob, FreshVM, Junk, Stages,
         Gens, Versions, Txids, Slots, ImgOrNone

\* A record newer than both is the one a recovery chooses.
LEMMA NewestChosen ==
    ASSUME NEW d \in Files, NEW s \in Slots, NEW r \in Record,
           \A t \in Slots : d.rec[t].gen < r.gen,
           NEW e, e = [d EXCEPT !.rec[s] = r]
    PROVE  /\ e \in Files /\ e.img = d.img /\ Chosen(e) = r /\ Leads(r.gen, e)
           /\ \A t \in Slots : e.rec[t] = d.rec[t] \/ e.rec[t] = r
  BY DEF Files, Record, Gens, Chosen, Leads, Slots
-----------------------------------------------------------------------------
LEMMA InitHolds == Init => IInv
<1> SUFFICES ASSUME Init PROVE IInv
  OBVIOUS
<1>1. TypeOK
  BY Blanks DEF Init, TypeOK, PCs, ImgOrNone
<1>2. Findable = {disk} /\ Chosen(disk) = NoRec
  BY DEF Init, Findable, Chosen, Slots
<1>3. RestartLoadsCommitted /\ AckedUpdateDurable
  BY <1>2 DEF Init, RestartLoadsCommitted, AckedUpdateDurable, ImageIntact, NoRec, Blank
<1>4. JobNamed /\ AbsentBlank /\ MemoryFollows /\ UpdateSafe /\ RecordSaved
  BY <1>2 DEF Init, JobNamed, AbsentBlank, MemoryFollows, UpdateSafe, RecordSaved
<1> QED
  BY <1>1, <1>3, <1>4 DEF IInv

LEMMA BootKeeps == ASSUME IInv, Boot PROVE IInv'
<1>1. disk \in Findable /\ disk \in Files /\ Chosen(disk) \in Record
  BY FilesFound DEF IInv, Findable
<1>2. Findable' = Findable
  BY DEF Boot, Findable
<1>3. /\ vm'.gen = Chosen(disk).gen /\ vm'.core = Chosen(disk).core
      /\ vm' \in [gen : Gens, core : Durable, code : ImgOrNone, upload : Upload]
  <2>1. CASE HasRecord(disk)
    BY <1>1, <2>1, Blanks DEF Boot, Recovered, Record, Durable, FreshVM
  <2>2. CASE ~HasRecord(disk)
    <3>1. Chosen(disk) = NoRec
      BY <1>1, <2>2 DEF HasRecord, Chosen, IInv, AbsentBlank, Slots
    <3> QED
      BY <2>2, <3>1, Blanks DEF Boot, Recovered, FreshVM, NoRec, Blank
  <2> QED
    BY <2>1, <2>2
<1>4. TypeOK'
  <2>1. expected' \subseteq ImgOrNone
    BY FilesFound DEF Boot, IInv, Record, Durable
  <2> QED
    BY <1>3, <2>1 DEF Boot, IInv, TypeOK, PCs
<1>5. MemoryFollows'
  BY <1>1, <1>3 DEF Boot, MemoryFollows, Leads, Follows, Chosen, Files, Record, Gens,
                    Slots, Durable, Txids
<1>6. RestartLoadsCommitted' /\ AckedUpdateDurable'
  BY <1>2 DEF Boot, IInv, RestartLoadsCommitted, AckedUpdateDurable
<1>7. JobNamed' /\ AbsentBlank' /\ UpdateSafe' /\ RecordSaved'
  BY <1>2 DEF Boot, IInv, JobNamed, AbsentBlank, UpdateSafe, RecordSaved
<1> QED
  BY <1>4, <1>5, <1>6, <1>7 DEF IInv

LEMMA KillKeeps == ASSUME IInv, Kill PROVE IInv'
<1>1. Findable' = Findable
  BY DEF Kill, Findable
<1>2. TypeOK'
  BY Blanks DEF Kill, IInv, TypeOK, PCs
<1> QED
  BY <1>1, <1>2 DEF Kill, IInv, JobNamed, AbsentBlank, MemoryFollows, UpdateSafe,
                    RecordSaved, RestartLoadsCommitted, AckedUpdateDurable

LEMMA PowerLossKeeps == ASSUME IInv, PowerLoss PROVE IInv'
<1>1. Findable' \subseteq Findable
  BY DEF PowerLoss, Findable
<1>2. TypeOK'
  BY Blanks DEF PowerLoss, IInv, TypeOK, PCs, Findable
<1> QED
  BY <1>1, <1>2 DEF PowerLoss, IInv, JobNamed, AbsentBlank, MemoryFollows, UpdateSafe,
                    RecordSaved, RestartLoadsCommitted, AckedUpdateDurable
-----------------------------------------------------------------------------
LEMMA SaveRenameKeeps == ASSUME IInv, SaveRename PROVE IInv'
<1> DEFINE r == [gen |-> NextGen, core |-> vm.core]
<1>1. disk \in Findable /\ disk \in Files /\ Chosen(disk) \in Record
  BY FilesFound DEF IInv, Findable
<1>2. NextGen % 2 \in Slots /\ r \in Record /\ \A t \in Slots : disk.rec[t].gen < NextGen
  <2>1. NextGen \in Gens /\ NextGen % 2 \in Slots
    BY DEF SaveRename, GenerationLeft, NextGen, IInv, TypeOK, Gens, Slots
  <2>2. \A t \in Slots : disk.rec[t].gen < NextGen
    BY <1>1 DEF SaveRename, IInv, TypeOK, MemoryFollows, Leads, NextGen, Files, Record, Gens
  <2> QED
    BY <2>1, <2>2 DEF IInv, TypeOK, Record
<1>3. disk' = [disk EXCEPT !.rec[NextGen % 2] = r] /\ Findable' = Findable \cup {disk'}
  BY DEF SaveRename, Rename, Findable
<1>4. /\ disk' \in Files /\ disk'.img = disk.img /\ Chosen(disk') = r
      /\ Leads(NextGen, disk')
      /\ \A t \in Slots : disk'.rec[t] = disk.rec[t] \/ disk'.rec[t] = r
  BY <1>1, <1>2, <1>3, NewestChosen, r.gen = NextGen
<1>5. TypeOK'
  <2>1. expected' \subseteq ImgOrNone
    BY DEF SaveRename, IInv, TypeOK, Durable
  <2> QED
    BY <1>1, <1>4, <2>1 DEF SaveRename, Rename, IInv, TypeOK, PCs, Files
<1>6. AbsentBlank'
  BY <1>2, <1>3, <1>4 DEF IInv, AbsentBlank, TypeOK, Gens, NextGen, Findable
<1>7. RecordSaved'
  BY <1>4 DEF SaveRename, Rename, GenerationLeft, RecordSaved, NextGen
<1>8. JobNamed' /\ MemoryFollows' /\ UpdateSafe'
  BY DEF SaveRename, Rename, IInv, JobNamed, MemoryFollows, UpdateSafe
<1>9. ImageIntact(disk') /\ Chosen(disk').core.img \in expected'
  <2>1. CASE job.why = "update"
    BY <1>4, <2>1 DEF SaveRename, IInv, UpdateSafe, ImageIntact
  <2>2. CASE job.why # "update"
    BY <1>1, <1>4, <2>2 DEF SaveRename, IInv, MemoryFollows, Follows, RestartLoadsCommitted,
                            ImageIntact
  <2> QED
    BY <2>1, <2>2
<1>10. RestartLoadsCommitted'
  BY <1>3, <1>9 DEF SaveRename, IInv, RestartLoadsCommitted
<1>11. Later(vm.core, acked)
  <2>1. Later(Chosen(disk).core, acked)
    BY <1>1 DEF IInv, AckedUpdateDurable, Later
  <2> QED
    BY <1>1, <2>1 DEF SaveRename, IInv, TypeOK, UpdateSafe, MemoryFollows, Follows, Later,
                      Record, Durable, Versions, Txids
<1>12. AckedUpdateDurable'
  BY <1>3, <1>4, <1>11 DEF SaveRename, IInv, AckedUpdateDurable, Later
<1> QED
  BY <1>5, <1>6, <1>7, <1>8, <1>10, <1>12 DEF IInv

\* The file system may only forget what a power loss could have brought back.
LEMMA SameFiles ==
    ASSUME IInv, disk' = disk, older' \subseteq older, acked' = acked, expected' = expected
    PROVE  AbsentBlank' /\ RestartLoadsCommitted' /\ AckedUpdateDurable'
<1>1. Findable' \subseteq Findable
  BY DEF Findable
<1> QED
  BY <1>1 DEF IInv, AbsentBlank, RestartLoadsCommitted, AckedUpdateDurable

LEMMA SaveDoneKeeps == ASSUME IInv, SaveDone PROVE IInv'
<1>1. disk \in Findable /\ disk \in Files /\ Chosen(disk) \in Record
  BY FilesFound DEF IInv, Findable
<1>2. /\ disk' = disk /\ stage' = stage /\ older' = {} /\ Findable' = {disk}
      /\ pc = "saveSync" /\ job.why \in {"update", "recover", "serve"}
  BY DEF SaveDone, Hardened, IInv, JobNamed, Findable
<1>3. /\ Chosen(disk) = [gen |-> NextGen, core |-> vm.core] /\ Leads(NextGen, disk)
      /\ NextGen \in Gens
  BY <1>1, <1>2 DEF IInv, RecordSaved, Record
<1>4. /\ vm' \in [gen : Gens, core : Durable, code : ImgOrNone, upload : Upload]
      /\ vm'.gen = NextGen /\ vm'.core = vm.core
      /\ \/ pc' = "save" /\ job' = [why |-> "serve", aside |-> Blank]
         \/ pc' = "idle" /\ job' = NoJob
      /\ \/ acked' = vm.core /\ expected' = {vm.core.img}
         \/ acked' = acked /\ expected' = expected
  BY <1>2, <1>3 DEF SaveDone, StartSave, IInv, TypeOK, Durable
<1>5. TypeOK'
  BY <1>2, <1>4, Blanks DEF IInv, TypeOK, PCs, Durable
<1>6. MemoryFollows'
  BY <1>2, <1>3, <1>4 DEF MemoryFollows, Follows, Leads, IInv, TypeOK, Durable, Txids
<1>7. AbsentBlank' /\ RestartLoadsCommitted' /\ AckedUpdateDurable'
  <2>1. CASE acked' = vm.core /\ expected' = {vm.core.img}
    BY <1>1, <1>2, <1>3, <2>1 DEF IInv, TypeOK, Durable, Versions, Txids, AbsentBlank,
                              RestartLoadsCommitted, AckedUpdateDurable
  <2>2. CASE acked' = acked /\ expected' = expected
    BY <1>2, <2>2, SameFiles
  <2> QED
    BY <1>4, <2>1, <2>2
<1>8. JobNamed' /\ UpdateSafe' /\ RecordSaved'
  BY <1>4 DEF JobNamed, UpdateSafe, RecordSaved
<1> QED
  BY <1>5, <1>6, <1>7, <1>8 DEF IInv

LEMMA SaveFailedKeeps == ASSUME IInv, SaveFailed PROVE IInv'
<1>1. disk \in Findable /\ disk \in Files /\ Chosen(disk) \in Record
  BY FilesFound DEF IInv, Findable
<1>2. /\ disk' = disk /\ older' = older /\ stage' = stage /\ acked' = acked
      /\ pc = "save" /\ job.why \in {"update", "recover", "serve"}
      /\ pc' = "idle" /\ job' = NoJob /\ Findable' = Findable
  BY DEF SaveFailed, AbortSave, IInv, JobNamed, Findable
<1>3. /\ vm' \in [gen : Gens, core : Durable, code : ImgOrNone, upload : Upload]
      /\ vm'.gen = vm.gen /\ Follows(vm'.core, disk)
  <2>1. CASE job.why = "update"
    BY <1>2, <2>1 DEF SaveFailed, AbortSave, RestoredFields, IInv, TypeOK, UpdateSafe
  <2>2. CASE job.why # "update"
    BY <1>2, <2>2 DEF SaveFailed, AbortSave, IInv, TypeOK, MemoryFollows
  <2> QED
    BY <2>1, <2>2
<1>4. TypeOK'
  BY <1>2, <1>3, Blanks DEF SaveFailed, AbortSave, IInv, TypeOK, PCs, Durable
<1>5. RestartLoadsCommitted'
  <2>1. CASE job.why = "update"
    <3>1. Findable = {disk} /\ expected' = {Chosen(disk).core.img}
      BY <1>2, <2>1 DEF SaveFailed, AbortSave, IInv, UpdateSafe, Follows, Findable
    <3> QED
      BY <1>2, <3>1 DEF IInv, RestartLoadsCommitted
  <2>2. CASE job.why # "update"
    BY <1>2, <2>2 DEF SaveFailed, AbortSave, IInv, RestartLoadsCommitted
  <2> QED
    BY <2>1, <2>2
<1>6. MemoryFollows'
  BY <1>2, <1>3 DEF IInv, MemoryFollows
<1>7. JobNamed' /\ AbsentBlank' /\ UpdateSafe' /\ RecordSaved' /\ AckedUpdateDurable'
  BY <1>2 DEF IInv, JobNamed, AbsentBlank, UpdateSafe, RecordSaved, AckedUpdateDurable
<1> QED
  BY <1>4, <1>5, <1>6, <1>7 DEF IInv
-----------------------------------------------------------------------------
\* What may stay in memory while the process waits for a frame.
LEMMA IdleKeeps ==
    ASSUME IInv, pc = "idle", pc' = "idle", disk' = disk, older' \subseteq older,
           stage' \in Stages, job' = job, UNCHANGED <<acked, expected>>,
           NEW u \in Upload, vm' = [vm EXCEPT !.upload = u]
    PROVE  IInv'
<1>1. vm'.gen = vm.gen /\ vm'.core = vm.core
  BY DEF IInv, TypeOK
<1>2. TypeOK'
  BY DEF IInv, TypeOK
<1>3. JobNamed' /\ MemoryFollows' /\ UpdateSafe' /\ RecordSaved'
  BY <1>1 DEF IInv, JobNamed, MemoryFollows, UpdateSafe, RecordSaved
<1> QED
  BY <1>2, <1>3, SameFiles DEF IInv

LEMMA DisposedKeeps ==
    ASSUME IInv, pc = "idle", disk' = disk, older' \subseteq older,
           stage' \in Stages, UNCHANGED <<acked, expected>>,
           NEW u \in Upload, u.txid > vm.core.txid, NEW more \in BOOLEAN,
           Disposed(u, stage', more)
    PROVE  IInv'
<1> DEFINE new == [ver |-> Version[stage'.img], txid |-> u.txid,
                   img |-> stage'.img, slot |-> InactiveSlot]
<1>1. CASE vm' = [vm EXCEPT !.upload = u] /\ UNCHANGED <<pc, job>>
  BY <1>1, IdleKeeps
<1>2. CASE vm' = [vm EXCEPT !.upload = NoUpload] /\ UNCHANGED <<pc, job>>
  BY <1>2, IdleKeeps, Blanks
<1>3. CASE /\ Admissible(stage') /\ job' = [why |-> "update", aside |-> new]
           /\ vm' = [vm EXCEPT !.upload = NoUpload] /\ pc' = "image"
  <2>1. stage'.img \in Images /\ Version[stage'.img] >= vm.core.ver
    BY <1>3 DEF Admissible, Stages, Junk
  <2>2. InactiveSlot \in Slots /\ (vm.core.img = NoImg \/ InactiveSlot # vm.core.slot)
    BY DEF InactiveSlot, IInv, TypeOK, Durable, Slots
  <2>3. /\ new \in Durable /\ new.img \in Images /\ Later(new, vm.core)
        /\ vm.core.img = NoImg \/ new.slot # vm.core.slot
    BY <2>1, <2>2 DEF Durable, Versions, ImgOrNone, Later, Upload, Txids, IInv, TypeOK
  <2>4. vm'.gen = vm.gen /\ vm'.core = vm.core
    BY <1>3 DEF IInv, TypeOK
  <2>5. TypeOK'
    BY <1>3, <2>3, Blanks DEF IInv, TypeOK, PCs
  <2>6. JobNamed' /\ MemoryFollows' /\ UpdateSafe' /\ RecordSaved'
    BY <1>3, <2>3, <2>4 DEF IInv, JobNamed, MemoryFollows, UpdateSafe, RecordSaved
  <2> QED
    BY <2>5, <2>6, SameFiles DEF IInv
<1> QED
  BY <1>1, <1>2, <1>3 DEF Disposed

\* What a fragment makes of the stage file.
LEMMA Staging ==
    ASSUME TypeOK, NEW frag \in Fragments
    PROVE  Written(frag) \in Stages /\ Appended(frag) \in Stages
<1>1. Written(frag) \in Stages
  BY Blanks DEF Written, Stages, Fragments
<1>2. Appended(frag) \in Stages
  BY Blanks DEF Appended, TypeOK, Stages, Fragments
<1> QED
  BY <1>1, <1>2

LEMMA UpdateKeeps == ASSUME IInv, Update PROVE IInv'
<1>1. ASSUME NEW t \in Txids, NEW frag \in Fragments, NEW more \in BOOLEAN,
             NEW total \in 1..NumFrags, FirstFragment(t, total, frag, more)
      PROVE  IInv'
  <2> DEFINE u == [txid |-> t, total |-> total, got |-> 1]
  <2>1. u \in Upload /\ u.txid = t
    BY DEF Upload
  <2>2. CASE /\ stage' = Written(frag) /\ older' = Hardened /\ Disposed(u, stage', more)
    BY <1>1, <2>1, <2>2, Staging, DisposedKeeps DEF FirstFragment, Hardened, IInv, Txids,
                                                   TypeOK, Durable
  <2>3. CASE vm' = [vm EXCEPT !.upload = u] /\ UNCHANGED <<stage, older, pc, job>>
    BY <1>1, <2>1, <2>3, IdleKeeps DEF FirstFragment, IInv, TypeOK
  <2> QED
    BY <1>1, <2>2, <2>3 DEF FirstFragment
<1>2. ASSUME NEW t \in Txids, NEW frag \in Fragments, NEW more \in BOOLEAN,
             NEW seq \in 1..NumFrags, NextFragment(t, seq, frag, more)
      PROVE  IInv'
  <2> DEFINE u == [vm.upload EXCEPT !.got = @ + 1]
  <2>1. u \in Upload /\ u.txid = t
    BY <1>2 DEF NextFragment, InSequence, IInv, TypeOK, Upload
  <2>2. CASE stage' = Appended(frag) /\ Disposed(u, stage', more)
    BY <1>2, <2>1, <2>2, Staging, DisposedKeeps DEF NextFragment, IInv
  <2>3. CASE /\ stage' \in {stage, Appended(frag)} /\ vm' = [vm EXCEPT !.upload = NoUpload]
             /\ UNCHANGED <<pc, job>>
    <3>1. stage' \in Stages
      BY <2>3, Staging DEF IInv, TypeOK
    <3> QED
      BY <1>2, <2>3, <3>1, Blanks, IdleKeeps DEF NextFragment
  <2> QED
    BY <1>2, <2>2, <2>3 DEF NextFragment
<1> QED
  BY <1>1, <1>2 DEF Update

LEMMA StrayFragmentKeeps ==
    ASSUME IInv, NEW t \in Txids, NEW seq \in 1..NumFrags, StrayFragment(t, seq)
    PROVE  IInv'
  BY Blanks, IdleKeeps DEF StrayFragment, IInv, TypeOK
-----------------------------------------------------------------------------
LEMMA ImageRenameKeeps == ASSUME IInv, ImageRename PROVE IInv'
<1>1. disk \in Findable /\ disk \in Files /\ Chosen(disk) \in Record
  BY FilesFound DEF IInv, Findable
<1>2. /\ job.aside \in Durable /\ job.aside.img \in Images
      /\ vm.core.img = NoImg \/ job.aside.slot # vm.core.slot
      /\ Follows(vm.core, disk)
  BY DEF ImageRename, IInv, TypeOK, UpdateSafe, MemoryFollows
<1>3. /\ disk' = [disk EXCEPT !.img[job.aside.slot] = job.aside.img]
      /\ Findable' = Findable \cup {disk'}
  BY DEF ImageRename, Rename, Findable
<1>4. /\ disk' \in Files /\ disk'.rec = disk.rec
      /\ disk'.img[job.aside.slot] = job.aside.img
      /\ \A s \in Slots \ {job.aside.slot} : disk'.img[s] = disk.img[s]
  BY <1>1, <1>2, <1>3 DEF Files, Durable, ImgOrNone
<1>5. Chosen(disk') = Chosen(disk)
  BY <1>4 DEF Chosen
<1>6. ImageIntact(disk')
  BY <1>1, <1>2, <1>4, <1>5 DEF ImageIntact, IInv, RestartLoadsCommitted, Follows, Record,
                            Durable
<1>7. TypeOK'
  BY <1>1, <1>4 DEF ImageRename, Rename, IInv, TypeOK, PCs, Files
<1>8. AbsentBlank' /\ RestartLoadsCommitted' /\ AckedUpdateDurable'
  <2>1. AbsentBlank'
    <3>1. \A s \in Slots : disk.rec[s].gen = 0 => disk.rec[s] = NoRec
      BY <1>1 DEF IInv, AbsentBlank
    <3>2. \A s \in Slots : disk'.rec[s].gen = 0 => disk'.rec[s] = NoRec
      BY <1>4, <3>1
    <3> QED
      BY <1>3, <3>2 DEF IInv, AbsentBlank
  <2>2. RestartLoadsCommitted'
    BY <1>1, <1>3, <1>5, <1>6 DEF ImageRename, IInv, RestartLoadsCommitted
  <2>3. AckedUpdateDurable'
    BY <1>1, <1>3, <1>5 DEF ImageRename, IInv, AckedUpdateDurable
  <2> QED
    BY <2>1, <2>2, <2>3
<1>9. MemoryFollows'
  BY <1>4, <1>5 DEF ImageRename, Rename, IInv, MemoryFollows, Leads, Follows
<1>10. JobNamed' /\ UpdateSafe' /\ RecordSaved'
  BY <1>4 DEF ImageRename, Rename, IInv, JobNamed, UpdateSafe, RecordSaved
<1> QED
  BY <1>7, <1>8, <1>9, <1>10 DEF IInv

LEMMA ImageDoneKeeps == ASSUME IInv, ImageDone PROVE IInv'
<1>1. /\ pc = "imageSync" /\ disk' = disk /\ older' = {} /\ stage' = stage
      /\ UNCHANGED <<acked, expected>>
      /\ vm' = [vm EXCEPT !.core = job.aside] /\ pc' = "save"
      /\ job' = [why |-> "update", aside |-> vm.core]
  BY DEF ImageDone, StartSave, Hardened
<1>2. vm'.core = job.aside /\ vm'.gen = vm.gen
  BY <1>1 DEF IInv, TypeOK
<1>3. TypeOK'
  BY <1>1 DEF IInv, TypeOK, PCs
<1>4. MemoryFollows'
  BY <1>1, <1>2 DEF IInv, MemoryFollows
<1>5. UpdateSafe'
  BY <1>1, <1>2 DEF IInv, MemoryFollows, UpdateSafe
<1>6. JobNamed' /\ RecordSaved'
  BY <1>1 DEF JobNamed, RecordSaved
<1> QED
  BY <1>1, <1>3, <1>4, <1>5, <1>6, SameFiles DEF IInv

LEMMA ImageFailedKeeps == ASSUME IInv, ImageFailed PROVE IInv'
<1>1. TypeOK'
  BY Blanks DEF ImageFailed, AbortImage, IInv, TypeOK, PCs
<1>2. JobNamed' /\ MemoryFollows' /\ UpdateSafe' /\ RecordSaved'
  BY DEF ImageFailed, AbortImage, IInv, JobNamed, MemoryFollows, UpdateSafe, RecordSaved
<1> QED
  BY <1>1, <1>2, SameFiles DEF ImageFailed, AbortImage, IInv
-----------------------------------------------------------------------------
\* A save begins with memory that follows the disk.
LEMMA ServeKeeps ==
    ASSUME IInv, UNCHANGED <<disk, older, stage, acked, expected>>,
           NEW v \in [gen : Gens, core : Durable, code : ImgOrNone, upload : Upload],
           NEW why \in {"recover", "serve"}, StartSave(v, why, Blank),
           Leads(v.gen, disk), Follows(v.core, disk)
    PROVE  IInv'
<1>1. TypeOK'
  BY Blanks DEF StartSave, IInv, TypeOK, PCs
<1>2. JobNamed' /\ MemoryFollows' /\ UpdateSafe' /\ RecordSaved'
  BY DEF StartSave, JobNamed, MemoryFollows, UpdateSafe, RecordSaved
<1> QED
  BY <1>1, <1>2, SameFiles DEF IInv

LEMMA CommandKeeps == ASSUME IInv, NEW t \in Txids, Command(t) PROVE IInv'
<1> DEFINE v == [vm EXCEPT !.core.txid = t]
<1>1. /\ v \in [gen : Gens, core : Durable, code : ImgOrNone, upload : Upload]
      /\ v.gen = vm.gen /\ v.core = [vm.core EXCEPT !.txid = t]
  BY DEF IInv, TypeOK, Durable
<1>2. Leads(v.gen, disk) /\ Follows(vm.core, disk)
  BY <1>1 DEF Command, IInv, MemoryFollows
<1>3. Follows(v.core, disk)
  <2>1. Chosen(disk) \in Record
    BY FilesFound DEF IInv, Findable
  <2> QED
    BY <1>1, <1>2, <2>1 DEF Follows, Command, IInv, TypeOK, Record, Durable, Txids
<1> QED
  BY <1>1, <1>2, <1>3, ServeKeeps DEF Command

LEMMA RecoverKeeps == ASSUME IInv, NEW t \in Txids, Recover(t) PROVE IInv'
<1>1. disk \in Findable /\ disk \in Files /\ Chosen(disk) \in Record
  BY FilesFound DEF IInv, Findable
<1>2. Follows(vm.core, disk) /\ ImageIntact(disk)
  BY <1>1 DEF Recover, IInv, MemoryFollows, RestartLoadsCommitted
<1>3. CASE HasRecord(disk)
  <2> DEFINE v == [Recovered(vm) EXCEPT !.core.txid = t]
  <2>1. /\ v \in [gen : Gens, core : Durable, code : ImgOrNone, upload : Upload]
        /\ v.gen = Chosen(disk).gen /\ v.core = [Chosen(disk).core EXCEPT !.txid = t]
    BY <1>1, <1>3 DEF Recovered, IInv, TypeOK, Record, Durable
  <2>2. Leads(v.gen, disk)
    BY <1>1, <2>1 DEF Leads, Chosen, Files, Record, Gens, Slots
  <2>3. Follows(v.core, disk)
    BY <1>1, <1>2, <2>1 DEF Follows, Recover, IInv, TypeOK, Record, Durable, Txids
  <2> QED
    BY <1>2, <1>3, <2>1, <2>2, <2>3, ServeKeeps DEF Recover, RecoverOK
<1>4. CASE ~HasRecord(disk)
  BY <1>4, IdleKeeps DEF Recover, RecoverOK, Recovered, IInv, TypeOK
<1> QED
  BY <1>3, <1>4

LEMMA CommitKeeps == ASSUME IInv, Commit PROVE IInv'
<1>1. /\ vm'.gen = vm.gen + 1 /\ vm'.core = vm.core
      /\ vm' \in [gen : Gens, core : Durable, code : ImgOrNone, upload : Upload]
  BY DEF Commit, IInv, TypeOK, Gens
<1>2. Leads(vm'.gen, disk)
  <2>1. disk \in Files
    BY FilesFound DEF IInv, Findable
  <2> QED
    BY <1>1, <2>1 DEF Commit, IInv, TypeOK, MemoryFollows, Leads, Files, Record, Gens
<1>3. TypeOK'
  BY <1>1 DEF Commit, IInv, TypeOK
<1>4. JobNamed' /\ MemoryFollows' /\ UpdateSafe' /\ RecordSaved'
  BY <1>1, <1>2 DEF Commit, IInv, JobNamed, MemoryFollows, UpdateSafe, RecordSaved
<1> QED
  BY <1>3, <1>4, SameFiles DEF Commit, IInv
-----------------------------------------------------------------------------
\* Every step of the store keeps the inductive invariant.
LEMMA NextKeeps == IInv /\ [Next]_vars => IInv'
<1> SUFFICES ASSUME IInv, [Next]_vars PROVE IInv'
  OBVIOUS
<1>1. CASE Boot \/ Kill \/ PowerLoss
  BY <1>1, BootKeeps, KillKeeps, PowerLossKeeps
<1>2. CASE SaveRename \/ SaveDone \/ SaveFailed
  BY <1>2, SaveRenameKeeps, SaveDoneKeeps, SaveFailedKeeps
<1>3. CASE Update
  BY <1>3, UpdateKeeps
<1>4. CASE \E t \in Txids, seq \in 1..NumFrags : StrayFragment(t, seq)
  BY <1>4, StrayFragmentKeeps
<1>5. CASE ImageRename \/ ImageDone \/ ImageFailed
  BY <1>5, ImageRenameKeeps, ImageDoneKeeps, ImageFailedKeeps
<1>6. CASE \E t \in Txids : Command(t) \/ Recover(t)
  BY <1>6, CommandKeeps, RecoverKeeps
<1>7. CASE Commit
  BY <1>7, CommitKeeps
<1>8. CASE UNCHANGED vars
  <2>1. Findable' = Findable
    BY <1>8 DEF vars, Findable
  <2> QED
    BY <1>8, <2>1 DEF vars, IInv, TypeOK, JobNamed, AbsentBlank, MemoryFollows, UpdateSafe,
                      RecordSaved, RestartLoadsCommitted, AckedUpdateDurable, NextGen
<1> QED
  BY <1>1, <1>2, <1>3, <1>4, <1>5, <1>6, <1>7, <1>8 DEF Next

\* The inductive invariant holds of every run of the store.
THEOREM Invariance == Spec => []IInv
<1> QED
  BY InitHolds, NextKeeps, PTL DEF Spec

\* Every variable keeps its type, and no saved generation passes the counter's limit.
THEOREM TypeCorrect == Spec => []TypeOK
<1>1. IInv => TypeOK
  BY DEF IInv
<1> QED
  BY <1>1, Invariance, PTL

\* Whatever kill, power loss or failed write came before, a restart finds an intact
\* image that was committed, or whose commit the crash interrupted.
THEOREM RestartsWell == Spec => []RestartLoadsCommitted
<1>1. IInv => RestartLoadsCommitted
  BY DEF IInv
<1> QED
  BY <1>1, Invariance, PTL

\* No crash takes the store back behind an acknowledged update.
THEOREM UpdatesLast == Spec => []AckedUpdateDurable
<1>1. IInv => AckedUpdateDurable
  BY DEF IInv
<1> QED
  BY <1>1, Invariance, PTL

\* Between two frames the memory is as new as the disk and names its image.
THEOREM MemoryLeads == Spec => []MemoryLeadsDisk
<1>1. IInv => MemoryLeadsDisk
  <2> SUFFICES ASSUME IInv, pc = "idle"
               PROVE  Leads(vm.gen, disk) /\ Follows(vm.core, disk) /\ disk \in Files
    BY FilesFound DEF IInv, TypeOK, MemoryLeadsDisk, Leads, Follows, Files, Record, Gens
  <2> QED
    BY FilesFound DEF IInv, MemoryFollows, Findable
<1> QED
  BY <1>1, Invariance, PTL
-----------------------------------------------------------------------------
\* What the register holds when recovery accepts the files.
LEMMA ValueTyped ==
    ASSUME NEW d \in Files, ImageIntact(d)
    PROVE  LET c == Chosen(d).core
           IN  /\ Value(d) = [img |-> c.img, ver |-> c.ver, txid |-> c.txid]
               /\ Value(d) \in [img : ImgOrNone, ver : Versions, txid : Txids]
  BY DEF Value, Files, Record, Durable, Chosen, Slots

\* A step that renames no file, and syncs or not, hardens the register or is none.
LEMMA SyncRefines ==
    ASSUME disk' = disk, older' = {}, acked' = acked
    PROVE  Register!ANext
  BY DEF Register!ANext, Register!Harden

LEMMA StillRefines ==
    ASSUME UNCHANGED <<disk, older, acked>>
    PROVE  UNCHANGED Register!avars
  BY DEF Register!avars

\* A rename puts a value that is not older.
LEMMA RenameRefines ==
    ASSUME older' = older \cup {disk}, acked' = acked,
           disk' \in Files, ImageIntact(disk'),
           Later(Chosen(disk').core, Chosen(disk).core)
    PROVE  Register!ANext
<1>1. Value(disk') \in [img : ImgOrNone, ver : Versions, txid : Txids]
  BY ValueTyped
<1>2. Register!NotOlder(Value(disk'), Value(disk))
  BY DEF Value, Register!NotOlder, Later
<1>3. {Value(d) : d \in older}' = {Value(d) : d \in older} \cup {Value(disk)}
  OBVIOUS
<1> QED
  BY <1>1, <1>2, <1>3 DEF Register!ANext, Register!Put

LEMMA PowerLossRefines == ASSUME PowerLoss PROVE Register!ANext
<1>1. {Value(d) : d \in older}' = {} /\ Value(disk') \in {Value(d) : d \in older} \cup {Value(disk)}
  BY DEF PowerLoss, Findable
<1> QED
  BY <1>1 DEF PowerLoss, Register!ANext, Register!Lose

\* The record of a save holds fields no older than the chosen record's.
LEMMA SaveRenameRefines ==
    ASSUME IInv, IInv', SaveRename
    PROVE  Register!ANext
<1>1. disk' \in Files /\ ImageIntact(disk') /\ Chosen(disk').core = vm.core
  BY DEF IInv, TypeOK, Files, SaveRename, Rename, RestartLoadsCommitted, Findable, RecordSaved
<1>2. Later(vm.core, Chosen(disk).core)
  <2>1. disk \in Findable /\ Chosen(disk) \in Record
    BY FilesFound DEF IInv, Findable
  <2> QED
    BY <2>1 DEF IInv, SaveRename, TypeOK, UpdateSafe, MemoryFollows, Follows, Later, Record,
                Durable, Versions, Txids
<1>3. older' = older \cup {disk} /\ acked' = acked
  BY DEF SaveRename, Rename
<1> QED
  BY <1>1, <1>2, <1>3, RenameRefines

\* The sync that ends a save may acknowledge the update it holds.
LEMMA SaveDoneRefines == ASSUME IInv, SaveDone PROVE Register!ANext
<1>1. disk \in Files /\ ImageIntact(disk) /\ Chosen(disk).core = vm.core
  BY FilesFound DEF IInv, Findable, RestartLoadsCommitted, SaveDone, RecordSaved
<1>2. Value(disk) = [img |-> vm.core.img, ver |-> vm.core.ver, txid |-> vm.core.txid]
  BY <1>1, ValueTyped
<1>3. disk' = disk /\ older' = {} /\ acked' \in {acked, vm.core}
  BY DEF SaveDone, Hardened, IInv, JobNamed
<1> QED
  BY <1>2, <1>3 DEF Register!ANext, Register!Harden

LEMMA ImageRenameRefines ==
    ASSUME IInv, IInv', ImageRename
    PROVE  Register!ANext
<1>1. disk' \in Files /\ ImageIntact(disk')
  BY DEF IInv, TypeOK, Files, RestartLoadsCommitted, Findable
<1>2. Chosen(disk') = Chosen(disk) /\ Chosen(disk) \in Record
  BY FilesFound DEF ImageRename, Rename, Chosen, IInv, Findable, TypeOK
<1>3. Later(Chosen(disk').core, Chosen(disk).core)
  BY <1>2 DEF Later, Record, Durable, Versions, Txids
<1>4. older' = older \cup {disk} /\ acked' = acked
  BY DEF ImageRename, Rename
<1> QED
  BY <1>1, <1>3, <1>4, RenameRefines

LEMMA UpdateRefines ==
    ASSUME Update
    PROVE  Register!ANext \/ UNCHANGED Register!avars
<1>1. disk' = disk /\ acked' = acked /\ (older' = {} \/ older' = older)
  BY DEF Update, FirstFragment, NextFragment, Hardened
<1> QED
  BY <1>1, SyncRefines, StillRefines

\* Every step of the store is a step of the register or leaves it alone.
LEMMA NextRefines ==
    IInv /\ IInv' /\ [Next]_vars => [Register!ANext]_(Register!avars)
<1> SUFFICES ASSUME IInv, IInv', [Next]_vars
             PROVE  Register!ANext \/ UNCHANGED Register!avars
  OBVIOUS
<1>1. CASE PowerLoss
  BY <1>1, PowerLossRefines
<1>2. CASE SaveRename \/ SaveDone
  BY <1>2, SaveRenameRefines, SaveDoneRefines
<1>3. CASE Update
  BY <1>3, UpdateRefines
<1>4. CASE ImageRename
  BY <1>4, ImageRenameRefines
<1>5. CASE ImageDone
  BY <1>5, SyncRefines DEF ImageDone, Hardened
<1>6. CASE \/ Boot \/ Kill \/ SaveFailed \/ ImageFailed \/ Commit
           \/ \E t \in Txids, seq \in 1..NumFrags : StrayFragment(t, seq)
           \/ \E t \in Txids : Command(t) \/ Recover(t)
  BY <1>6, StillRefines DEF Boot, Kill, SaveFailed, AbortSave, ImageFailed, AbortImage,
                            Commit, StrayFragment, Command, Recover
<1>7. CASE UNCHANGED vars
  BY <1>7, StillRefines DEF vars
<1> QED
  BY <1>1, <1>2, <1>3, <1>4, <1>5, <1>6, <1>7 DEF Next

LEMMA InitRefines == Init => Register!AInit
<1> SUFFICES ASSUME Init PROVE Register!AInit
  OBVIOUS
<1>1. Value(disk) = [img |-> NoImg, ver |-> 0, txid |-> 0]
  BY DEF Init, Value, Chosen, ImageIntact, NoRec, Slots
<1> QED
  BY <1>1 DEF Init, Register!AInit, Blank, NoRec

\* The dual-slot, dual-image store implements one register that moves forward atomically.
THEOREM ImplementsRegister == Spec => RefinesRegister
<1>1. Init => Register!AInit
  BY InitRefines
<1>2. IInv /\ IInv' /\ [Next]_vars => [Register!ANext]_(Register!avars)
  BY NextRefines
<1> QED
  BY <1>1, <1>2, Invariance, PTL DEF Spec, RefinesRegister, Register!ASpec

-----------------------------------------------------------------------------
(* The interpreter.                                                          *)

\* The types that the interpreter's checks rely on; its stack keeps to its size.
VmTyped == /\ cancel \in BOOLEAN /\ ip \in Nat /\ regs \in [Regs -> Nat]
           /\ pushed \in Seq(Nat) /\ Len(pushed) <= StackWords
           /\ caps \in [0 .. NumCaps - 1 -> SUBSET Capabilities]

\* No register holds more than the allowlist in force, nor that more than the platform's.
WithinAllowlist ==
    /\ \A c \in 0 .. NumCaps - 1 : caps[c] \subseteq allowlist
    /\ allowlist \subseteq Allowlist

\* A reset machine.
LEMMA Fresh ==
    /\ [r \in Regs |-> 0] \in [Regs -> Nat]
    /\ <<>> \in Seq(Nat) /\ Len(<<>>) <= StackWords
<1>1. StackWords \in Nat
  BY VmAssumption
<1> QED
  BY <1>1

\* What the host grants, register 0 alone receives.
LEMMA GrantedTyped ==
    ASSUME NEW granted, granted \subseteq Allowlist
    PROVE  /\ Granted(granted) \in [0 .. NumCaps - 1 -> SUBSET Capabilities]
           /\ \A c \in 0 .. NumCaps - 1 : Granted(granted)[c] \subseteq granted
           /\ \A c \in (0 .. NumCaps - 1) \ {0} : Granted(granted)[c] = {}
<1>1. Allowlist \subseteq Capabilities
  BY VmAssumption
<1> QED
  BY <1>1 DEF Granted

\* What a step may do to the authority, as AuthorityIsGranted has it.
Grants == /\ NothingGained \/ (~running /\ GrantedAnew)
          /\ Authority' \subseteq allowlist' /\ allowlist' \subseteq Allowlist
          /\ running /\ (config' # config \/ generation' # generation) => "STATE" \in Authority

\* A grant of the host, within an allowlist that the platform's contains.
LEMMA HostGrants ==
    ASSUME ~ running, ip' = 0, allowlist' \subseteq Allowlist,
           NEW granted, granted \subseteq allowlist', caps' = Granted(granted), VmTyped
    PROVE  /\ caps' \in [0 .. NumCaps - 1 -> SUBSET Capabilities]
           /\ WithinAllowlist' /\ Grants
<1>1. /\ caps' \in [0 .. NumCaps - 1 -> SUBSET Capabilities]
      /\ \A c \in 0 .. NumCaps - 1 : caps'[c] \subseteq granted
      /\ \A c \in (0 .. NumCaps - 1) \ {0} : caps'[c] = {}
  BY GrantedTyped
<1>2. DOMAIN caps = 0 .. NumCaps - 1 /\ DOMAIN caps' = 0 .. NumCaps - 1
  BY <1>1 DEF VmTyped
<1>3. GrantedAnew /\ Authority' \subseteq allowlist' /\ WithinAllowlist'
  BY <1>1, <1>2 DEF GrantedAnew, Authority, WithinAllowlist
<1> QED
  BY <1>1, <1>3 DEF Grants

LEMMA Decoded ==
    ASSUME NEW in \in Menu
    PROVE  /\ in.valid \in BOOLEAN /\ in.imm \in Nat
           /\ in.valid => /\ in.cap \in 0 .. NumCaps - 1
                          /\ in.rd \in Regs /\ in.ra \in Regs /\ in.rb \in Regs
<1>1. /\ in.valid \in BOOLEAN /\ {in.cap, in.imm} \subseteq Nat
      /\ in.valid => in.cap < NumCaps /\ {in.rd, in.ra, in.rb} \subseteq Regs
  BY VmAssumption
<1>2. NumCaps \in Nat
  BY VmAssumption
<1> QED
  BY <1>1, <1>2

\* The checks before execution let in only what its capability register allows.
LEMMA LetIn ==
    ASSUME VmTyped, NEW in \in Menu, Refusal(in) = "none"
    PROVE  /\ in.cap \in 0 .. NumCaps - 1 /\ in.rd \in Regs /\ in.ra \in Regs /\ in.rb \in Regs
           /\ in.imm \in Nat
           /\ in.op = "SVC" => ServiceNeeds(in.imm) \in caps[in.cap]
<1>1. ~ cancel /\ ip < CodeCount /\ in.valid
  <2>1. CASE cancel
    BY <2>1 DEF Refusal
  <2>2. CASE ~ cancel /\ ip >= CodeCount
    BY <2>2 DEF Refusal
  <2>3. CASE ~ cancel /\ ip < CodeCount /\ ~ in.valid
    BY <2>3, VmAssumption DEF Refusal
  <2> QED
    BY <2>1, <2>2, <2>3, Decoded, VmAssumption DEF VmTyped
<1>2. /\ in.cap \in 0 .. NumCaps - 1 /\ in.rd \in Regs /\ in.ra \in Regs /\ in.rb \in Regs
      /\ in.imm \in Nat
  BY <1>1, Decoded
<1>3. ~ (ip >= CodeCount)
  BY <1>1, VmAssumption DEF VmTyped
<1>4. in.op = "SVC" => ServiceNeeds(in.imm) \in caps[in.cap]
  BY <1>1, <1>3 DEF Refusal
<1> QED
  BY <1>2, <1>4

\* A step that leaves the capability registers alone, and during a run what is durable.
LEMMA CapsStay ==
    ASSUME VmTyped, WithinAllowlist, UNCHANGED <<caps, allowlist>>,
           running => UNCHANGED <<config, generation>>
    PROVE  Grants /\ WithinAllowlist'
<1>1. NothingGained
  BY DEF NothingGained
<1>2. Authority' \subseteq allowlist' /\ WithinAllowlist'
  BY DEF Authority, WithinAllowlist, VmTyped
<1> QED
  BY <1>1, <1>2 DEF Grants, WithinAllowlist

\* An instruction that does not call a service touches neither authority nor state.
LEMMA ExecuteKeeps ==
    ASSUME VmTyped, WithinAllowlist, UNCHANGED allowlist,
           NEW in \in Menu, Refusal(in) = "none",
           ExecControl(in) \/ ExecArith(in) \/ ExecMemory(in) \/ ExecStack(in)
    PROVE  VmTyped' /\ WithinAllowlist' /\ Grants
<1>1. in.rd \in Regs /\ in.ra \in Regs /\ in.imm \in Nat
  BY LetIn
<1>2. ip + 1 \in Nat /\ \A v \in Word : v \in Nat
  BY VmAssumption DEF VmTyped
<1>3. UNCHANGED <<caps, config, generation, cancel>>
  BY DEF ExecControl, ExecArith, ExecMemory, ExecStack, Trap
<1>4. ip' \in Nat
  BY <1>1, <1>2 DEF ExecControl, ExecArith, ExecMemory, ExecStack, Trap, Advance, VmTyped
<1>5. pushed' \in Seq(Nat) /\ Len(pushed') <= StackWords
  <2>1. CASE UNCHANGED pushed
    BY <2>1 DEF VmTyped
  <2>2. CASE in.op = "PUSH" /\ Len(pushed) # StackWords /\ pushed' = Append(pushed, regs[in.ra])
    <3>1. regs[in.ra] \in Nat /\ StackWords \in Nat
      BY <1>1, VmAssumption DEF VmTyped
    <3> QED
      BY <2>2, <3>1 DEF VmTyped
  <2>3. CASE Len(pushed) # 0 /\ pushed' = SubSeq(pushed, 1, Len(pushed) - 1)
    BY <2>3, VmAssumption DEF VmTyped
  <2> QED
    BY <2>1, <2>2, <2>3 DEF ExecControl, ExecArith, ExecMemory, ExecStack, Trap
<1>6. regs' \in [Regs -> Nat]
  <2>1. CASE UNCHANGED regs
    BY <2>1 DEF VmTyped
  <2>2. ASSUME NEW v \in Nat, Put(in.rd, v)
        PROVE  regs' \in [Regs -> Nat]
    BY <1>1, <2>2 DEF Put, VmTyped
  <2>3. regs[in.ra] \in Nat
    BY <1>1 DEF VmTyped
  <2>4. Len(pushed) # 0 => pushed[Len(pushed)] \in Nat
    BY DEF VmTyped
  <2>5. CASE ExecControl(in)
    BY <1>1, <2>1, <2>2, <2>3, <2>5 DEF ExecControl, Trap
  <2>6. CASE ExecArith(in)
    BY <1>2, <2>1, <2>2, <2>6 DEF ExecArith, Trap
  <2>7. CASE ExecMemory(in)
    BY <1>2, <2>1, <2>2, <2>7 DEF ExecMemory, Trap
  <2>8. CASE ExecStack(in)
    BY <2>1, <2>2, <2>4, <2>8 DEF ExecStack, StackOps, Trap
  <2> QED
    BY <2>5, <2>6, <2>7, <2>8
<1>7. VmTyped'
  BY <1>3, <1>4, <1>5, <1>6 DEF VmTyped
<1> QED
  BY <1>3, <1>7, CapsStay

\* A service revokes, delegates a part of what its caller holds, or changes what is
\* durable with the STATE authority.
LEMMA ServiceKeeps ==
    ASSUME VmTyped, WithinAllowlist, UNCHANGED allowlist,
           NEW in \in Menu, Refusal(in) = "none", ExecService(in)
    PROVE  VmTyped' /\ WithinAllowlist' /\ Grants
<1>1. /\ in.cap \in 0 .. NumCaps - 1 /\ in.rd \in Regs /\ in.ra \in Regs /\ in.imm \in Nat
      /\ ServiceNeeds(in.imm) \in caps[in.cap]
  BY LetIn DEF ExecService
<1>2. ip + 1 \in Nat /\ \A v \in Word : v \in Nat
  BY VmAssumption DEF VmTyped
<1>3. UNCHANGED <<pushed, cancel>> /\ ip' \in Nat
  BY <1>2 DEF ExecService, ServiceTrap, ServiceDone, Advance, VmTyped
<1>4. regs' \in [Regs -> Nat]
  <2>1. CASE UNCHANGED regs
    BY <2>1 DEF VmTyped
  <2>2. ASSUME NEW v \in Word, Put(in.rd, v)
        PROVE  regs' \in [Regs -> Nat]
    BY <1>1, <1>2, <2>2 DEF Put, VmTyped
  <2> QED
    BY <2>1, <2>2 DEF ExecService, ServiceTrap
<1>5. ASSUME NEW mask, mask \subseteq caps[in.cap], caps' = [caps EXCEPT ![Target(in)] = mask]
      PROVE  caps' \in [0 .. NumCaps - 1 -> SUBSET Capabilities] /\ NothingGained
  <2>1. mask \subseteq Capabilities
    BY <1>1, <1>5 DEF VmTyped
  <2>2. /\ caps' \in [0 .. NumCaps - 1 -> SUBSET Capabilities]
        /\ \A c \in 0 .. NumCaps - 1 : caps'[c] = caps[c] \/ caps'[c] = mask
    BY <1>5, <2>1 DEF VmTyped
  <2> QED
    BY <1>1, <1>5, <2>2 DEF VmTyped, NothingGained
<1>6. caps' \in [0 .. NumCaps - 1 -> SUBSET Capabilities] /\ NothingGained
  <2>1. CASE UNCHANGED caps
    BY <2>1 DEF VmTyped, NothingGained
  <2>2. CASE caps' = [caps EXCEPT ![Target(in)] = {}]
    BY <1>5, <2>2
  <2>3. CASE Delegable(in) /\ caps' = [caps EXCEPT ![Target(in)] = Mask(regs[in.rb])]
    BY <1>5, <2>3 DEF Delegable
  <2> QED
    BY <2>1, <2>2, <2>3 DEF ExecService, ServiceTrap
<1>8. WithinAllowlist' /\ Authority' \subseteq allowlist'
  <2>1. \A c \in 0 .. NumCaps - 1 : caps'[c] \subseteq allowlist
    BY <1>6 DEF NothingGained, WithinAllowlist, VmTyped
  <2> QED
    BY <1>6, <2>1 DEF WithinAllowlist, Authority
<1>7. (config' # config \/ generation' # generation) => "STATE" \in Authority
  <2>1. in.imm \in {4, 5} => "STATE" \in caps[in.cap]
    BY <1>1 DEF ServiceNeeds
  <2>2. in.imm \notin {4, 5} => UNCHANGED <<config, generation>>
    BY DEF ExecService, ServiceTrap
  <2> QED
    BY <1>1, <2>1, <2>2 DEF VmTyped, Authority
<1> QED
  BY <1>3, <1>4, <1>6, <1>7, <1>8 DEF VmTyped, Grants, WithinAllowlist

\* A trap stops the run and leaves the machine as it was.
LEMMA TrapKeeps ==
    ASSUME VmTyped, WithinAllowlist, UNCHANGED allowlist, NEW reason, Trap(reason)
    PROVE  VmTyped' /\ WithinAllowlist' /\ Grants
BY CapsStay DEF Trap, VmTyped

\* An image loaded, whether a record was saved before or not.
LEMMA ImageLoadGrants ==
    ASSUME VmTyped, WithinAllowlist, ~ running, ImageLoad
    PROVE  VmTyped' /\ WithinAllowlist' /\ Grants
<1>1. UNCHANGED <<regs, pushed, cancel, allowlist>> /\ allowlist' \subseteq Allowlist
  BY DEF ImageLoad, WithinAllowlist
<1>2. CASE UNCHANGED <<caps, ip>>
  BY <1>1, <1>2, CapsStay DEF VmTyped
<1>3. ASSUME NEW requested \in Requests, caps' = Granted(requested \cap allowlist), ip' = 0
      PROVE  VmTyped' /\ WithinAllowlist' /\ Grants
  <2>1. requested \cap allowlist \subseteq allowlist'
    BY <1>1
  <2>2. caps' \in [0 .. NumCaps - 1 -> SUBSET Capabilities] /\ WithinAllowlist' /\ Grants
    BY <1>1, <1>3, <2>1, HostGrants
  <2> QED
    BY <1>1, <1>3, <2>2 DEF VmTyped
<1> QED
  BY <1>2, <1>3 DEF ImageLoad

\* A recovery: the allowlist of the record, cut to the platform's.
LEMMA RecoverGrants ==
    ASSUME VmTyped, WithinAllowlist, RecoverRecord
    PROVE  VmTyped' /\ WithinAllowlist' /\ Grants
<1>1. ~ running
  BY DEF RecoverRecord
<1>2. CASE UNCHANGED <<ip, regs, pushed, caps, allowlist, cancel>>
  BY <1>1, <1>2, CapsStay DEF VmTyped
<1>3. ASSUME NEW rec \in Records, Clear, allowlist' = rec.allowlist \cap Allowlist,
             \/ caps' = Granted(allowlist')
             \/ \E requested \in Requests : caps' = Granted(requested \cap allowlist')
      PROVE  VmTyped' /\ WithinAllowlist' /\ Grants
  <2>1. PICK granted : granted \subseteq allowlist' /\ caps' = Granted(granted)
    BY <1>3
  <2>2. /\ caps' \in [0 .. NumCaps - 1 -> SUBSET Capabilities]
        /\ WithinAllowlist' /\ Grants
    BY <1>1, <1>3, <2>1, HostGrants DEF Clear
  <2>3. cancel' = FALSE /\ ip' = 0 /\ regs' = [r \in Regs |-> 0] /\ pushed' = <<>>
    BY <1>3 DEF Clear
  <2>4. cancel' \in BOOLEAN /\ ip' \in Nat
    BY <2>3
  <2> QED
    BY <2>2, <2>3, <2>4, Fresh, Zenon DEF VmTyped
<1> QED
  BY <1>2, <1>3 DEF RecoverRecord

LEMMA VmStep ==
    ASSUME VmTyped, WithinAllowlist, [VmNext]_vmVars
    PROVE  VmTyped' /\ WithinAllowlist' /\ (Grants \/ UNCHANGED vmVars)
<1>1. CASE Reset
  <2>1. caps' = Granted(allowlist) /\ ip' = 0 /\ UNCHANGED allowlist /\ ~ running
    BY <1>1 DEF Reset, Clear
  <2>2. /\ caps' \in [0 .. NumCaps - 1 -> SUBSET Capabilities]
        /\ WithinAllowlist' /\ Grants
    BY <2>1, HostGrants DEF WithinAllowlist
  <2>3. cancel' = FALSE /\ ip' = 0 /\ regs' = [r \in Regs |-> 0] /\ pushed' = <<>>
    BY <1>1 DEF Reset, Clear
  <2>4. cancel' \in BOOLEAN /\ ip' \in Nat
    BY <2>3
  <2> QED
    BY <2>2, <2>3, <2>4, Fresh, Zenon DEF VmTyped
<1>2. CASE LoadCode
  BY <1>2, CapsStay DEF LoadCode, VmTyped
<1>3. CASE LoadImage \/ UpdateImage
  BY <1>3, ImageLoadGrants DEF LoadImage, UpdateImage
<1>4. CASE RecoverRecord
  BY <1>4, RecoverGrants
<1>5. CASE RequestCancel \/ CallRun \/ CallEnds
  BY <1>5, CapsStay DEF RequestCancel, CallRun, CallEnds, VmTyped
<1>6. CASE RunStep
  <2>1. /\ UNCHANGED allowlist
        /\ \/ Trap("budget")
           \/ \E in \in Menu : Trap(Refusal(in))
           \/ \E in \in Menu : /\ Refusal(in) = "none"
                               /\ \/ ExecControl(in) \/ ExecArith(in) \/ ExecMemory(in)
                                  \/ ExecStack(in) \/ ExecService(in)
    BY <1>6 DEF RunStep, Instruction
  <2> QED
    BY <2>1, TrapKeeps, ExecuteKeeps, ServiceKeeps
<1>7. CASE UNCHANGED vmVars
  BY <1>7 DEF vmVars, VmTyped, WithinAllowlist
<1> QED
  BY <1>1, <1>2, <1>3, <1>4, <1>5, <1>6, <1>7 DEF VmNext

\* The interpreter's types hold, and no register ever holds what the allowlist forbids.
THEOREM InterpreterIsTyped == VmSpec => [](VmTyped /\ WithinAllowlist)
<1>1. VmInit => VmTyped /\ WithinAllowlist
  <2> SUFFICES ASSUME VmInit
               PROVE  VmTyped /\ WithinAllowlist
    OBVIOUS
  <2>1. /\ cancel = FALSE /\ ip = 0 /\ regs = [r \in Regs |-> 0] /\ pushed = <<>>
        /\ caps = Granted(Allowlist) /\ allowlist = Allowlist
    BY DEF VmInit
  <2>2. cancel \in BOOLEAN /\ ip \in Nat
    BY <2>1
  <2>3. caps \in [0 .. NumCaps - 1 -> SUBSET Capabilities] /\ WithinAllowlist
    BY <2>1, GrantedTyped DEF WithinAllowlist
  <2> QED
    BY <2>1, <2>2, <2>3, Fresh, Zenon DEF VmTyped
<1>2. VmTyped /\ WithinAllowlist /\ [VmNext]_vmVars => VmTyped' /\ WithinAllowlist'
  BY VmStep
<1> QED
  BY <1>1, <1>2, PTL DEF VmSpec

\* Programs gain no authority, the host alone grants it, between runs and within the
\* allowlist, and a run changes nothing durable without the STATE authority (brvm.c,
\* br_vm_step, service_call, br_image_load and br_vm_recover).
THEOREM AuthorityStaysGranted == VmSpec => AuthorityIsGranted
<1>1. VmTyped /\ WithinAllowlist /\ [VmNext]_vmVars => [Grants]_vmVars
  BY VmStep
<1> QED
  BY <1>1, InterpreterIsTyped, PTL DEF VmSpec, AuthorityIsGranted, Grants
-----------------------------------------------------------------------------
(* The session of the host.                                                  *)

SessionTyped ==
    /\ buffer \in Seq(Nat \X Nat) /\ Len(buffer) <= MaxFragments
    /\ fragmentTx \in Nat /\ nextSeq \in Nat /\ lastTx \in Nat /\ tx \in Nat /\ sent \in Nat
    /\ message \in Messages \union {Idle} /\ applied \in Seq(Nat)

\* The reassembly holds the first fragments of one message, in order.
Reassembled ==
    /\ nextSeq = Len(buffer)
    /\ \A i \in 1 .. Len(buffer) : buffer[i] = <<fragmentTx, i - 1>>

\* The host stays within its message, and past its first fragment there is a reassembly.
HostInStep ==
    /\ message # Idle => sent < message.size
    /\ sent > 0 => buffer # <<>>

\* The counter is the last transaction applied, and each applied one is later than those
\* before it.
AppliedRise ==
    /\ Len(applied) > 0 => applied[Len(applied)] = lastTx
    /\ \A i \in 1 .. Len(applied) - 1 : applied[i] < applied[i + 1]

ExecutedWhole == executed.payload = [i \in 1 .. executed.size |-> <<executed.tx, i - 1>>]

SessionInv == SessionTyped /\ Reassembled /\ HostInStep /\ AppliedRise /\ ExecutedWhole

LEMMA MessageSized ==
    ASSUME SessionTyped, message # Idle
    PROVE  message.size \in Nat /\ 0 < message.size
<1>1. message \in [cmd : STRING, size : Nat \ {0}]
  BY ApduAssumption DEF SessionTyped
<1> QED
  BY <1>1

\* Dropping the reassembly, with the host at the start of its message or without one.
LEMMA DroppedKeeps ==
    ASSUME SessionInv, DropBuffer, sent' = 0, message' \in {message, Idle}, UNCHANGED <<fragmentTx, tx>>
    PROVE  /\ buffer' \in Seq(Nat \X Nat) /\ Len(buffer') <= MaxFragments
           /\ fragmentTx' \in Nat /\ nextSeq' \in Nat /\ tx' \in Nat /\ sent' \in Nat
           /\ message' \in Messages \union {Idle} /\ Reassembled' /\ HostInStep'
<1>1. buffer' = <<>> /\ nextSeq' = 0 /\ Len(buffer') = 0
  BY DEF DropBuffer
<1>2. Len(buffer') <= MaxFragments /\ buffer' \in Seq(Nat \X Nat)
  BY <1>1, ApduAssumption
<1>3. Reassembled'
  BY <1>1 DEF Reassembled
<1>4. HostInStep'
  <2>1. message # Idle => 0 < message.size
    BY MessageSized DEF SessionInv
  <2> QED
    BY <1>1, <2>1 DEF HostInStep
<1> QED
  BY <1>1, <1>2, <1>3, <1>4 DEF SessionInv, SessionTyped

\* A fragment in its place extends the reassembly of its message.
LEMMA Extended ==
    ASSUME SessionInv, InPlace
    PROVE  /\ Append(buffer, Fragment) \in Seq(Nat \X Nat)
           /\ Len(Append(buffer, Fragment)) = Len(buffer) + 1 /\ sent = Len(buffer)
           /\ \A i \in 1 .. Len(buffer) + 1 : Append(buffer, Fragment)[i] = <<tx, i - 1>>
<1>1. sent = Len(buffer) /\ Len(buffer) \in Nat
  BY DEF SessionInv, SessionTyped, Reassembled, InPlace
<1>2. /\ Append(buffer, Fragment) \in Seq(Nat \X Nat) /\ Len(Append(buffer, Fragment)) = Len(buffer) + 1
      /\ Append(buffer, Fragment)[Len(buffer) + 1] = <<tx, sent>>
      /\ \A i \in 1 .. Len(buffer) : Append(buffer, Fragment)[i] = buffer[i]
  BY DEF SessionInv, SessionTyped, Fragment
<1>3. \A i \in 1 .. Len(buffer) : buffer[i] = <<tx, i - 1>>
  BY DEF SessionInv, SessionTyped, Reassembled, InPlace
<1>4. \A i \in 1 .. Len(buffer) + 1 : i \in 1 .. Len(buffer) \/ i = Len(buffer) + 1
  BY <1>1
<1> QED
  BY <1>1, <1>2, <1>3, <1>4

LEMMA TakeFragmentKeeps ==
    ASSUME SessionInv, TakeFragment
    PROVE  SessionInv'
<1>1. InPlace /\ Len(buffer) < MaxFragments
  BY DEF TakeFragment, Accepted
<1>2. buffer' = Append(buffer, Fragment) /\ nextSeq' = sent + 1 /\ fragmentTx' = tx
  BY DEF TakeFragment
<1>3. UNCHANGED <<lastTx, message, tx, executed, applied>> /\ sent' \in {sent + 1, 0}
  BY DEF TakeFragment, Answered
<1>4. /\ buffer' \in Seq(Nat \X Nat) /\ Len(buffer') = sent + 1 /\ sent = Len(buffer)
      /\ \A i \in 1 .. Len(buffer') : buffer'[i] = <<tx, i - 1>>
  BY <1>1, <1>2, Extended
<1>5. SessionTyped'
  BY <1>1, <1>2, <1>3, <1>4, ApduAssumption DEF SessionInv, SessionTyped
<1>6. Reassembled'
  BY <1>2, <1>4 DEF Reassembled
<1>7. HostInStep'
  <2>1. message # Idle /\ sent + 1 < message.size /\ 0 < message.size
    BY MessageSized DEF TakeFragment, More, SessionInv
  <2>2. buffer' # <<>>
    BY <1>4 DEF SessionInv, SessionTyped
  <2> QED
    BY <1>3, <2>1, <2>2 DEF HostInStep
<1>8. AppliedRise' /\ ExecutedWhole'
  BY <1>3 DEF SessionInv, AppliedRise, ExecutedWhole
<1> QED
  BY <1>5, <1>6, <1>7, <1>8 DEF SessionInv

LEMMA CompleteKeeps ==
    ASSUME SessionInv, Complete
    PROVE  SessionInv'
<1>1. /\ message # Idle /\ ~ More /\ (Reassembles => Accepted)
      /\ DropBuffer /\ sent' = 0 /\ message' \in {message, Idle} /\ UNCHANGED <<fragmentTx, tx>>
  BY DEF Complete, Over, Restart
<1>2. InPlace /\ sent + 1 = message.size
  <2>1. sent \in Nat /\ message.size \in Nat /\ sent < message.size
    BY <1>1, MessageSized DEF SessionInv, SessionTyped, HostInStep
  <2>2. sent + 1 = message.size
    BY <1>1, <2>1 DEF More
  <2>3. InPlace
    <3>1. CASE buffer = <<>>
      <4>1. ~ (sent > 0)
        BY <3>1 DEF SessionInv, HostInStep
      <4> QED
        BY <2>1, <3>1, <4>1 DEF InPlace
    <3>2. CASE buffer # <<>>
      <4>1. Accepted
        BY <1>1, <3>2, Zenon DEF Reassembles
      <4> QED
        BY <4>1 DEF Accepted
    <3> QED
      BY <3>1, <3>2
  <2> QED
    BY <2>2, <2>3
<1>3. \/ UNCHANGED executed
      \/ executed' = [cmd |-> message.cmd, size |-> message.size, payload |-> Whole, tx |-> tx]
  BY DEF Complete
<1>4. \/ UNCHANGED <<lastTx, applied>>
      \/ lastTx' = tx /\ applied' = Append(applied, tx) /\ ~ (tx <= lastTx)
  BY DEF Complete, Replayed
<1>5. ExecutedWhole'
  <2>1. CASE UNCHANGED executed
    BY <2>1 DEF SessionInv, ExecutedWhole
  <2>2. CASE executed' = [cmd |-> message.cmd, size |-> message.size, payload |-> Whole, tx |-> tx]
    <3>1. executed'.payload = Whole /\ executed'.size = message.size /\ executed'.tx = tx
      BY <2>2
    <3>2. Whole \in Seq(Nat \X Nat) /\ Len(Whole) = message.size
          /\ \A i \in 1 .. message.size : Whole[i] = <<tx, i - 1>>
      BY <1>2, Extended DEF Whole
    <3>3. Whole \in [1 .. message.size -> Nat \X Nat]
      BY <3>2
    <3>4. Whole = [i \in 1 .. message.size |-> <<tx, i - 1>>]
      BY <3>2, <3>3, Zenon
    <3> QED
      BY <3>1, <3>4 DEF ExecutedWhole
  <2> QED
    BY <1>3, <2>1, <2>2
<1>6. lastTx' \in Nat /\ applied' \in Seq(Nat)
  <2>1. tx \in Nat /\ lastTx \in Nat /\ applied \in Seq(Nat)
    BY DEF SessionInv, SessionTyped
  <2>2. CASE UNCHANGED <<lastTx, applied>>
    BY <2>1, <2>2
  <2>3. CASE lastTx' = tx /\ applied' = Append(applied, tx)
    BY <2>1, <2>3
  <2> QED
    BY <1>4, <2>2, <2>3
<1>7. AppliedRise'
  <2>1. CASE UNCHANGED <<lastTx, applied>>
    BY <2>1 DEF SessionInv, AppliedRise
  <2>2. CASE lastTx' = tx /\ applied' = Append(applied, tx) /\ ~ (tx <= lastTx)
    <3> DEFINE n == Len(applied)
    <3>1. n \in Nat /\ applied \in Seq(Nat) /\ tx \in Nat /\ lastTx \in Nat
      BY DEF SessionInv, SessionTyped
    <3>2. /\ Len(applied') = n + 1 /\ applied'[n + 1] = tx /\ \A i \in 1 .. n : applied'[i] = applied[i]
      BY <2>2, <3>1
    <3>3. /\ n > 0 => applied[n] < tx
          /\ \A i \in 1 .. n - 1 : applied[i] < applied[i + 1]
      BY <2>2, <3>1 DEF SessionInv, AppliedRise
    <3> HIDE DEF n
    <3>4. \A i \in 1 .. n : applied'[i] < applied'[i + 1]
      <4> TAKE i \in 1 .. n
      <4>1. CASE i = n
        BY <3>1, <3>2, <3>3, <4>1
      <4>2. CASE i \in 1 .. n - 1
        <5>1. i + 1 \in 1 .. n
          BY <3>1, <4>2
        <5> QED
          BY <3>2, <3>3, <4>2, <5>1
      <4> QED
        BY <3>1, <4>1, <4>2
    <3>5. Len(applied') - 1 = n
      BY <3>1, <3>2
    <3> QED
      BY <2>2, <3>2, <3>4, <3>5 DEF AppliedRise
  <2> QED
    BY <1>4, <2>1, <2>2
<1> QED
  BY <1>1, <1>5, <1>6, <1>7, DroppedKeeps DEF SessionInv, SessionTyped

\* The invariant of the session (br_apdu).
THEOREM SessionIsSound == ApduSpec => []SessionInv
<1>1. ApduInit => SessionInv
  <2> SUFFICES ASSUME ApduInit
               PROVE  SessionInv
    OBVIOUS
  <2>1. /\ buffer = <<>> /\ fragmentTx = 0 /\ nextSeq = 0 /\ lastTx = 0 /\ message = Idle
        /\ tx = 0 /\ sent = 0 /\ applied = <<>> /\ Len(buffer) = 0 /\ Len(applied) = 0
    BY DEF ApduInit
  <2>2. SessionTyped
    BY <2>1, ApduAssumption DEF SessionTyped
  <2>3. executed.payload = <<>> /\ executed.size = 0
    BY DEF ApduInit, Nothing
  <2>4. ExecutedWhole
    BY <2>3 DEF ExecutedWhole
  <2>5. Reassembled /\ HostInStep /\ AppliedRise
    BY <2>1 DEF Reassembled, HostInStep, AppliedRise
  <2> QED
    BY <2>2, <2>4, <2>5 DEF SessionInv
<1>2. SessionInv /\ [ApduNext]_apduVars => SessionInv'
  <2> SUFFICES ASSUME SessionInv, [ApduNext]_apduVars
               PROVE  SessionInv'
    OBVIOUS
  <2>1. CASE Begin
    <3>1. /\ message' \in Messages /\ tx' = tx + 1 /\ sent' = 0
          /\ UNCHANGED <<buffer, fragmentTx, nextSeq, lastTx, executed, applied>>
      BY <2>1 DEF Begin
    <3>2. 0 < message'.size
      BY <3>1, ApduAssumption
    <3>3. SessionTyped'
      BY <3>1 DEF SessionInv, SessionTyped
    <3>4. Reassembled' /\ HostInStep' /\ AppliedRise' /\ ExecutedWhole'
      BY <3>1, <3>2 DEF SessionInv, Reassembled, HostInStep, AppliedRise, ExecutedWhole
    <3> QED
      BY <3>3, <3>4 DEF SessionInv
  <2>2. CASE GiveUp
    <3>1. /\ message' = Idle /\ sent' = 0
          /\ UNCHANGED <<buffer, fragmentTx, nextSeq, lastTx, tx, executed, applied>>
      BY <2>2 DEF GiveUp
    <3>2. SessionTyped'
      BY <3>1 DEF SessionInv, SessionTyped
    <3>3. Reassembled' /\ HostInStep' /\ AppliedRise' /\ ExecutedWhole'
      BY <3>1 DEF SessionInv, Reassembled, HostInStep, AppliedRise, ExecutedWhole
    <3> QED
      BY <3>2, <3>3 DEF SessionInv
  <2>3. CASE RefuseFragment
    <3>1. /\ DropBuffer /\ sent' = 0 /\ message' \in {message, Idle}
          /\ UNCHANGED <<fragmentTx, tx, lastTx, executed, applied>>
      BY <2>3 DEF RefuseFragment
    <3>2. AppliedRise' /\ ExecutedWhole' /\ lastTx' \in Nat /\ applied' \in Seq(Nat)
      BY <3>1 DEF SessionInv, SessionTyped, AppliedRise, ExecutedWhole
    <3> QED
      BY <3>1, <3>2, DroppedKeeps DEF SessionInv, SessionTyped
  <2>4. CASE UNCHANGED apduVars
    BY <2>4 DEF apduVars, SessionInv, SessionTyped, Reassembled, HostInStep, AppliedRise, ExecutedWhole
  <2> QED
    BY <2>1, <2>2, <2>3, <2>4, TakeFragmentKeeps, CompleteKeeps DEF ApduNext
<1> QED
  BY <1>1, <1>2, PTL DEF ApduSpec

\* A command that reaches its handler is exactly what its sender sent, and a
\* state-changing command takes effect once, in the order of the ids (br_apdu).
THEOREM CommandsArriveWholeAndOnce == ApduSpec => []WholeAndOnce
<1>1. SessionInv => WholeAndOnce
  BY DEF SessionInv, AppliedRise, ExecutedWhole, WholeAndOnce
<1> QED
  BY <1>1, SessionIsSound, PTL
=============================================================================
