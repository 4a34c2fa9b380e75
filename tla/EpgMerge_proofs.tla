-------------------------- MODULE EpgMerge_proofs --------------------------
(***************************************************************************)
(* Theorems about EpgMerge, for every set of events, every schedule, every *)
(* tolerance and any number of interrupted merges, and whether or not the  *)
(* handlers of the VDRs pause while epgd merges.                           *)
(*                                                                         *)
(* Published is not inductive: it speaks of the end of a merge only.  The  *)
(* strengthening says, at every step, which rows of useevents may lag      *)
(* behind their row of events: those whose stamps are recent enough for    *)
(* the next copy to take them, and those this merge has linked already and *)
(* is going to stamp (LinkDvb writes useid without touching updsp).        *)
(***************************************************************************)
EXTENDS EpgMerge, TLAPS

Copying == pc \in {"hidden", "lastrun"}

(* The rows whose stamp makes the next copy take them. *)
Unsaved == IF Copying THEN late ELSE dirty

(* An active DVB event that got a link, and that UpdateOthers will stamp. *)
Pending(e) ==
  /\ e \in Dvb
  /\ flg[e] = "A"
  /\ use[e] # e
  /\ BelowMergePoint(e)
  /\ pc \notin {"reinit", "useevents", "hidden", "lastrun"}

MirrorInv ==
  \A e \in Events :
     /\ flg[e] \in Needed
     /\ Live(use[e])
     /\ e \notin Unsaved
     /\ use[e] \notin Unsaved
     => Mirrored(e) \/ Pending(e)

HiddenInv ==
  pc = "lastrun" => \A e \in Events : flg[e] \in Hidden /\ e \notin late => uflg[e] = None

LateInv == late \subseteq dirty

(* DVB events never carry a flag of the external side. *)
DvbFlags == \A v \in Dvb : flg[v] \in {None, "A", "L", "I", "D"}

(* An analysed DVB event that nobody wrote since is not linked yet and lies *)
(* within the merge range as the merge is about to move it, or has moved it. *)
AnalyseInv ==
  pc \in {"mergesp", "dvb"} =>
    \A v \in Dvb : an[v] # v /\ v \notin dirty =>
      /\ flg[v] \in {"I", "A"}
      /\ start[v] <= IF pc = "mergesp" THEN ansp ELSE mergesp

(* Between its two statements the clean-up has left no row that ended long ago. *)
CleanupInv == pc = "cleanup" => OldEvents = {}

IInv ==
  /\ TypeOK
  /\ DvbFlags
  /\ CleanupInv
  /\ LateInv
  /\ AnalyseInv
  /\ MirrorInv
  /\ HiddenInv

-----------------------------------------------------------------------------
(* The types of the constants, one fact each. *)
LEMMA Constants ==
  /\ Dvb \subseteq Events /\ Ext \subseteq Events
  /\ \A e \in Dvb : e \notin Ext
  /\ Starts \in [Events -> SUBSET Nat]
  /\ MaxNow \in Nat /\ MaxCrashes \in Nat
  /\ Fuzz \in Nat /\ Fuzz > 0
BY EventsAssumption, TimesAssumption DEF Events

(* A flag a function of the model computes is a flag. *)
LEMMA FlagValues ==
  /\ \A x, s : NewFlag(x, s) \in Flags
  /\ \A v, s, own : GetUpdFlg(v, s, own) \in {"A", "L", "I"}
  /\ \A x : Removed(x) \in {"D", "R"}
  /\ TypeOK => \A e \in Events : Deleted(e) \in Flags \cup {None}
  /\ {"A", "L", "I", "D", "R", "C", "T", "S"} = Flags
BY DEF NewFlag, GetUpdFlg, Removed, Deleted, TypeOK, Flags, Needed, Visible, Signal, Hidden

(* Every table holds what its columns can hold, whatever the VDRs, the     *)
(* providers and interrupted merges do.                                    *)
LEMMA TypeStep == TypeOK /\ [Next]_vars => TypeOK'
<1> SUFFICES ASSUME TypeOK, [Next]_vars PROVE TypeOK'
  OBVIOUS
<1> USE Constants, FlagValues
<1>1. ASSUME NEW x \in Ext, NEW s \in Starts[x], ProviderInsert(x, s) \/ ProviderUpdate(x, s)
      PROVE  TypeOK'
  BY <1>1 DEF ProviderInsert, ProviderUpdate, Touch, TypeOK, uevars
<1>2. ASSUME NEW xs \in SUBSET Ext, MarkOldEvents(xs) PROVE TypeOK'
  BY <1>2 DEF MarkOldEvents, Touch, TypeOK, uevars
<1>3. CASE CleanupEvents
  BY <1>3 DEF CleanupEvents, TypeOK, uevars
<1>4. ASSUME NEW v \in Dvb, NEW s \in Starts[v], DvbStore(v, s) PROVE TypeOK'
  BY <1>4 DEF DvbStore, Touch, TypeOK, uevars
<1>5. ASSUME NEW v \in Dvb, DvbDelete(v) PROVE TypeOK'
  BY <1>5 DEF DvbDelete, Touch, TypeOK, uevars
<1>6. CASE StartMerge
  BY <1>6 DEF StartMerge, DeletedLinks, Touch, TypeOK, Statements, uevars
<1>7. CASE CleanTargets
  <2>1. flg' \in [Events -> Flags \cup {None}] /\ use' \in [Events -> Events] /\ fresh' \in SUBSET Dvb
    BY <1>7 DEF CleanTargets, TypeOK
  <2>2. dirty' \in SUBSET Events /\ late' \in SUBSET Events /\ behind' \in SUBSET Events
    BY <1>7 DEF CleanTargets, BrokenTargets, Touch, TypeOK
  <2> QED
    BY <1>7, <2>1, <2>2 DEF CleanTargets, TypeOK, Statements, uevars
<1>8. CASE CleanLinks
  <2>1. PICK unlike :
          /\ flg' = [e \in Events |-> IF e \notin BrokenLinks(unlike) THEN flg[e]
                                     ELSE IF e \in del THEN "D" ELSE "A"]
          /\ use' = [e \in Events |-> IF e \in BrokenLinks(unlike) THEN e ELSE use[e]]
          /\ fresh' = fresh \ BrokenLinks(unlike)
          /\ Touch(BrokenLinks(unlike))
    BY <1>8 DEF CleanLinks
  <2>2. BrokenLinks(unlike) \subseteq Events
    BY DEF BrokenLinks
  <2>3. flg' \in [Events -> Flags \cup {None}] /\ use' \in [Events -> Events] /\ fresh' \in SUBSET Dvb
    BY <2>1 DEF TypeOK
  <2>4. dirty' \in SUBSET Events /\ late' \in SUBSET Events /\ behind' \in SUBSET Events
    BY <2>1, <2>2 DEF Touch, TypeOK
  <2> QED
    BY <1>8, <2>3, <2>4 DEF CleanLinks, TypeOK, Statements, uevars
<1>9. CASE Analyse
  <2>1. ansp' \in Nat
    BY <1>9 DEF Analyse, TypeOK
  <2> QED
    BY <1>9, <2>1 DEF Analyse, Analyses, TypeOK, Statements, rows, uevars
<1>10. CASE CleanupUseevents
  BY <1>10 DEF CleanupUseevents, TypeOK, rows
<1>11. CASE UpdateMergesp
  BY <1>11 DEF UpdateMergesp, TypeOK, Statements, rows, uevars
<1>12. CASE LinkDvb
  BY <1>12 DEF LinkDvb, TypeOK, Statements, uevars
<1>13. CASE LinkExt
  BY <1>13 DEF LinkExt, Linkers, Touch, TypeOK, Statements, uevars
<1>14. CASE UpdateOthers
  BY <1>14 DEF UpdateOthers, Restamped, MergedDvb, ReplacedExt, Touch, TypeOK, Statements, uevars
<1>15. CASE ReinitDvb
  BY <1>15 DEF ReinitDvb, Touch, TypeOK, Statements, uevars
<1>16. CASE UpdateUseevents
  BY <1>16 DEF UpdateUseevents, Copied, Copyable, TypeOK, Statements, rows
<1>17. CASE RemoveHidden
  BY <1>17 DEF RemoveHidden, TypeOK, Statements, rows
<1>18. CASE UpdateLastrun
  BY <1>18 DEF UpdateLastrun, TypeOK, rows, uevars
<1>19. CASE Interrupt
  BY <1>19 DEF Interrupt, TypeOK, rows, uevars
<1>20. CASE Tick
  BY <1>20 DEF Tick, TypeOK, rows, uevars
<1>21. CASE UNCHANGED vars
  BY <1>21 DEF TypeOK, vars, rows, uevars
<1> QED
  BY <1>1, <1>2, <1>3, <1>4, <1>5, <1>6, <1>7, <1>8, <1>9, <1>10, <1>11, <1>12, <1>13,
     <1>14, <1>15, <1>16, <1>17, <1>18, <1>19, <1>20, <1>21 DEF Next, MergeStep

LEMMA TypeInit == Init => TypeOK
BY Constants DEF Init, TypeOK, Self

(* Every column keeps its type, by the lemma above. *)
THEOREM TypeCorrect == Spec => []TypeOK
BY TypeInit, TypeStep, PTL DEF Spec

-----------------------------------------------------------------------------
(* Whoever writes the rows es and stamps them leaves the rest mirrored. *)
LEMMA StampedWrites ==
  ASSUME TypeOK, MirrorInv,
         NEW es \in SUBSET Events, Touch(es),
         use' \in [Events -> Events],
         \A e \in Events \ es : flg'[e] = flg[e] /\ use'[e] = use[e] /\ start'[e] = start[e],
         UNCHANGED <<mergesp, uflg, uuse, ustart>>,
         Copying' = Copying,
         pc' \in {"reinit", "useevents", "hidden", "lastrun"}
           => pc \in {"reinit", "useevents", "hidden", "lastrun"}
  PROVE  MirrorInv'
<1> SUFFICES ASSUME NEW e \in Events,
                    flg'[e] \in Needed, Live(use[e])',
                    e \notin Unsaved', use'[e] \notin Unsaved'
             PROVE  Mirrored(e)' \/ Pending(e)'
  BY DEF MirrorInv
<1>1. Unsaved' = Unsaved \cup es
  BY DEF Touch, Unsaved, Copying
<1>2. e \notin es /\ use'[e] \notin es /\ use'[e] \in Events
  BY <1>1
<1>3. flg'[e] = flg[e] /\ use'[e] = use[e] /\ start'[e] = start[e] /\ flg'[use[e]] = flg[use[e]]
  BY <1>2
<1>4. Mirrored(e) \/ Pending(e)
  BY <1>1, <1>3 DEF MirrorInv, Live
<1>5. CASE Mirrored(e)
  BY <1>2, <1>3, <1>5 DEF Mirrored, Touch
<1>6. CASE Pending(e)
  BY <1>3, <1>6 DEF Pending, BelowMergePoint
<1> QED
  BY <1>4, <1>5, <1>6

(* The same for what an analysed event must be when the merge links it. *)
LEMMA StampedAnalyse ==
  ASSUME TypeOK, AnalyseInv,
         NEW es \in SUBSET Events, Touch(es),
         \A e \in Events \ es : flg'[e] = flg[e] /\ start'[e] = start[e],
         UNCHANGED <<mergesp, an, ansp, pc>>
  PROVE  AnalyseInv'
BY Constants DEF AnalyseInv, Touch

(* And for the rows a merge that is about to end has removed. *)
LEMMA StampedHidden ==
  ASSUME HiddenInv,
         NEW es \in SUBSET Events, Touch(es),
         \A e \in Events \ es : flg'[e] = flg[e],
         UNCHANGED <<uflg, pc>>
  PROVE  HiddenInv'
BY DEF HiddenInv, Touch

(* The provider's plugin and the handlers of the VDRs write and stamp. *)
Writers ==
  \/ \E x \in Ext : \E s \in Starts[x] : ProviderInsert(x, s) \/ ProviderUpdate(x, s)
  \/ \E xs \in SUBSET Ext : MarkOldEvents(xs)
  \/ \E v \in Dvb : \E s \in Starts[v] : DvbStore(v, s)
  \/ \E v \in Dvb : DvbDelete(v)

LEMMA WritersStamp ==
  ASSUME TypeOK, Writers
  PROVE  /\ UNCHANGED <<mergesp, uflg, uuse, ustart, an, ansp, pc>>
         /\ \E es \in SUBSET Events :
              /\ Touch(es)
              /\ \A e \in Events \ es : flg'[e] = flg[e] /\ use'[e] = use[e] /\ start'[e] = start[e]
<1> USE Constants
<1>1. ASSUME NEW x \in Ext, NEW s \in Starts[x], ProviderInsert(x, s)
      PROVE  /\ Touch({x}) /\ UNCHANGED <<mergesp, uflg, uuse, ustart, an, ansp, pc>>
             /\ \A e \in Events \ {x} : flg'[e] = flg[e] /\ use'[e] = use[e] /\ start'[e] = start[e]
  BY <1>1 DEF ProviderInsert, TypeOK, uevars
<1>2. ASSUME NEW x \in Ext, NEW s \in Starts[x], ProviderUpdate(x, s)
      PROVE  /\ Touch({x}) /\ UNCHANGED <<mergesp, uflg, uuse, ustart, an, ansp, pc>>
             /\ \A e \in Events \ {x} : flg'[e] = flg[e] /\ use'[e] = use[e] /\ start'[e] = start[e]
  BY <1>2 DEF ProviderUpdate, TypeOK, uevars
<1>3. ASSUME NEW xs \in SUBSET Ext, MarkOldEvents(xs)
      PROVE  /\ Touch(xs) /\ UNCHANGED <<mergesp, uflg, uuse, ustart, an, ansp, pc>>
             /\ \A e \in Events \ xs : flg'[e] = flg[e] /\ use'[e] = use[e] /\ start'[e] = start[e]
  BY <1>3 DEF MarkOldEvents, TypeOK, uevars
<1>4. ASSUME NEW v \in Dvb, NEW s \in Starts[v], DvbStore(v, s)
      PROVE  /\ Touch({v}) /\ UNCHANGED <<mergesp, uflg, uuse, ustart, an, ansp, pc>>
             /\ \A e \in Events \ {v} : flg'[e] = flg[e] /\ use'[e] = use[e] /\ start'[e] = start[e]
  BY <1>4 DEF DvbStore, TypeOK, uevars
<1>5. ASSUME NEW v \in Dvb, DvbDelete(v)
      PROVE  /\ Touch({v}) /\ UNCHANGED <<mergesp, uflg, uuse, ustart, an, ansp, pc>>
             /\ \A e \in Events \ {v} : flg'[e] = flg[e] /\ use'[e] = use[e] /\ start'[e] = start[e]
  BY <1>5 DEF DvbDelete, TypeOK, uevars
<1>6. \A x \in Ext : {x} \in SUBSET Events
  OBVIOUS
<1>7. \A v \in Dvb : {v} \in SUBSET Events
  OBVIOUS
<1>8. \A xs \in SUBSET Ext : xs \in SUBSET Events
  OBVIOUS
<1> QED
  <2>1. CASE \E x \in Ext : \E s \in Starts[x] : ProviderInsert(x, s) \/ ProviderUpdate(x, s)
    BY <1>1, <1>2, <1>6, <2>1, Zenon
  <2>2. CASE \E xs \in SUBSET Ext : MarkOldEvents(xs)
    BY <1>3, <1>8, <2>2, Zenon
  <2>3. CASE \E v \in Dvb : \E s \in Starts[v] : DvbStore(v, s)
    BY <1>4, <1>7, <2>3, Zenon
  <2>4. CASE \E v \in Dvb : DvbDelete(v)
    BY <1>5, <1>7, <2>4, Zenon
  <2> QED
    BY <2>1, <2>2, <2>3, <2>4 DEF Writers

(* So do the statements that clean up at the beginning of a merge. *)
Cleaners == StartMerge \/ CleanLinks \/ CleanTargets

LEMMA CleanersStamp ==
  ASSUME TypeOK, Cleaners
  PROVE  /\ UNCHANGED <<mergesp, uflg, uuse, ustart, start>>
         /\ pc \in {"idle", "links", "targets"} /\ pc' \in {"links", "targets", "snapshot"}
         /\ \E es \in SUBSET Events :
              /\ Touch(es)
              /\ \A e \in Events \ es : flg'[e] = flg[e] /\ use'[e] = use[e] /\ start'[e] = start[e]
<1>1. CASE StartMerge
  <2>1. /\ DeletedLinks \in SUBSET Events /\ Touch(DeletedLinks)
        /\ \A e \in Events \ DeletedLinks : flg'[e] = flg[e] /\ use'[e] = use[e] /\ start'[e] = start[e]
    BY <1>1, Constants DEF StartMerge, DeletedLinks
  <2> QED BY <1>1, <2>1 DEF StartMerge, uevars
<1>2. CASE CleanLinks
  <2>1. PICK unlike :
          /\ Touch(BrokenLinks(unlike))
          /\ \A e \in Events \ BrokenLinks(unlike) : flg'[e] = flg[e] /\ use'[e] = use[e]
    BY <1>2 DEF CleanLinks
  <2>2. BrokenLinks(unlike) \in SUBSET Events
    BY Constants DEF BrokenLinks
  <2>3. /\ UNCHANGED <<mergesp, uflg, uuse, ustart, start>> /\ pc = "links" /\ pc' = "targets"
    BY <1>2 DEF CleanLinks, uevars
  <2> QED BY <2>1, <2>2, <2>3
<1>3. CASE CleanTargets
  <2>1. /\ BrokenTargets \in SUBSET Events /\ Touch(BrokenTargets)
        /\ \A e \in Events \ BrokenTargets : flg'[e] = flg[e] /\ use'[e] = use[e] /\ start'[e] = start[e]
    BY <1>3 DEF CleanTargets, BrokenTargets
  <2> QED BY <1>3, <2>1 DEF CleanTargets, uevars
<1> QED BY <1>1, <1>2, <1>3 DEF Cleaners

(* Whatever is written meanwhile is not over, and time stands still. *)
LEMMA CleanupStep == TypeOK /\ CleanupInv /\ [Next]_vars => CleanupInv'
<1> SUFFICES ASSUME TypeOK, CleanupInv, [Next]_vars, pc' = "cleanup" PROVE OldEvents' = {}
  BY DEF CleanupInv
<1> USE Constants
<1>1. CASE CleanupEvents
  <2>1. \A e \in Events : ~(Live(e)' /\ start'[e] + Dur + Keep < now')
    BY <1>1 DEF CleanupEvents, OldEvents, Live
  <2> QED BY <2>1 DEF OldEvents
<1>2. ASSUME NEW v \in Dvb, NEW s \in Starts[v], DvbStore(v, s) PROVE OldEvents' = {}
  <2>1. ~(s + Dur + Keep < now)
    <3>1. s \in Nat /\ now \in Nat /\ Dur \in Nat /\ Keep \in Nat
      BY TimesAssumption DEF TypeOK
    <3> QED BY <1>2, <3>1 DEF DvbStore
  <2>2. pc = "cleanup" /\ UNCHANGED now /\ start' = [start EXCEPT ![v] = s]
    BY <1>2 DEF DvbStore
  <2>3. \A e \in Events \ {v} : Live(e)' <=> Live(e)
    BY <1>2 DEF DvbStore, Live, TypeOK
  <2> QED BY <2>1, <2>2, <2>3 DEF OldEvents, CleanupInv, TypeOK
<1>3. ASSUME NEW v \in Dvb, DvbDelete(v) PROVE OldEvents' = {}
  BY <1>3 DEF DvbDelete, OldEvents, Live, CleanupInv, TypeOK
<1>4. CASE UNCHANGED vars
  BY <1>4 DEF vars, rows, OldEvents, Live, CleanupInv
<1> QED
  BY <1>1, <1>2, <1>3, <1>4
     DEF Next, MergeStep, ProviderInsert, ProviderUpdate, MarkOldEvents, CleanupUseevents, StartMerge,
         CleanLinks, CleanTargets, Analyse, UpdateMergesp, LinkDvb, LinkExt, UpdateOthers, ReinitDvb,
         UpdateUseevents, RemoveHidden, UpdateLastrun, Interrupt, Tick

(* The stamps of this merge are among those of all merges. *)
LEMMA LateStep == TypeOK /\ LateInv /\ [Next]_vars => LateInv'
<1> SUFFICES ASSUME TypeOK, LateInv, [Next]_vars PROVE LateInv'
  OBVIOUS
<1>1. ASSUME NEW es, Touch(es) PROVE LateInv'
  BY <1>1 DEF LateInv, Touch
<1>2. CASE Writers
  BY <1>1, <1>2, WritersStamp
<1>3. CASE CleanupEvents
  BY <1>3 DEF CleanupEvents, LateInv
<1>4. CASE Cleaners
  BY <1>1, <1>4, CleanersStamp
<1>5. CASE LinkExt \/ UpdateOthers \/ ReinitDvb
  BY <1>1, <1>5 DEF LinkExt, UpdateOthers, ReinitDvb
<1>6. CASE CleanupUseevents \/ Analyse \/ UpdateMergesp \/ LinkDvb \/ RemoveHidden \/ Tick
            \/ UNCHANGED vars
  BY <1>6 DEF CleanupUseevents, Analyse, UpdateMergesp, LinkDvb, RemoveHidden, Tick, LateInv, vars
<1>7. CASE UpdateUseevents \/ UpdateLastrun \/ Interrupt
  BY <1>7 DEF UpdateUseevents, UpdateLastrun, Interrupt, LateInv
<1> QED
  BY <1>2, <1>3, <1>4, <1>5, <1>6, <1>7 DEF Next, MergeStep, Writers, Cleaners

LEMMA DvbFlagsStep == TypeOK /\ DvbFlags /\ [Next]_vars => DvbFlags'
<1> SUFFICES ASSUME TypeOK, DvbFlags, [Next]_vars, NEW d \in Dvb
             PROVE  flg'[d] \in {None, "A", "L", "I", "D"}
  BY DEF DvbFlags
<1> USE Constants DEF DvbFlags
<1>1. CASE flg'[d] = flg[d]
  BY <1>1
<1>2. ASSUME NEW x \in Ext, NEW s \in Starts[x], ProviderInsert(x, s) \/ ProviderUpdate(x, s)
      PROVE  flg'[d] = flg[d]
  BY <1>2 DEF ProviderInsert, ProviderUpdate, TypeOK
<1>3. ASSUME NEW xs \in SUBSET Ext, MarkOldEvents(xs) PROVE flg'[d] = flg[d]
  BY <1>3 DEF MarkOldEvents
<1>4. ASSUME NEW v \in Dvb, NEW s \in Starts[v], DvbStore(v, s)
      PROVE  flg'[d] \in {None, "A", "L", "I", "D"}
  BY <1>4, FlagValues DEF DvbStore, TypeOK
<1>5. ASSUME NEW v \in Dvb, DvbDelete(v) PROVE flg'[d] \in {None, "A", "L", "I", "D"}
  BY <1>5 DEF DvbDelete, Deleted, TypeOK
<1>6. CASE CleanupEvents
  BY <1>6 DEF CleanupEvents
<1>7. CASE Cleaners
  BY <1>7 DEF Cleaners, StartMerge, CleanLinks, CleanTargets, BrokenTargets, None
<1>8. CASE LinkExt
  BY <1>8 DEF LinkExt
<1>9. CASE UpdateOthers
  BY <1>9 DEF UpdateOthers, MergedDvb, ReplacedExt
<1>10. CASE ReinitDvb
  BY <1>10 DEF ReinitDvb
<1>11. CASE CleanupUseevents \/ Analyse \/ UpdateMergesp \/ LinkDvb \/ UpdateUseevents
            \/ RemoveHidden \/ UpdateLastrun \/ Interrupt \/ Tick \/ UNCHANGED vars
  BY <1>11 DEF CleanupUseevents, Analyse, UpdateMergesp, LinkDvb, UpdateUseevents, RemoveHidden, UpdateLastrun,
               Interrupt, Tick, vars, rows
<1> QED
  BY <1>1, <1>2, <1>3, <1>4, <1>5, <1>6, <1>7, <1>8, <1>9, <1>10, <1>11 DEF Next, MergeStep, Cleaners

LEMMA AnalyseStep == TypeOK /\ DvbFlags /\ AnalyseInv /\ [Next]_vars => AnalyseInv'
<1> SUFFICES ASSUME TypeOK, DvbFlags, AnalyseInv, [Next]_vars PROVE AnalyseInv'
  OBVIOUS
<1> USE Constants
<1>1. CASE Writers
  <2>1. PICK es \in SUBSET Events :
               /\ Touch(es)
               /\ \A e \in Events \ es : flg'[e] = flg[e] /\ use'[e] = use[e] /\ start'[e] = start[e]
    BY <1>1, WritersStamp
  <2>2. UNCHANGED <<mergesp, an, ansp, pc>>
    BY <1>1, WritersStamp
  <2> QED
    BY <2>1, <2>2, StampedAnalyse
<1>2. CASE Analyse
  <2> SUFFICES ASSUME NEW v \in Dvb, an'[v] # v
               PROVE  flg'[v] \in {"I", "A"} /\ start'[v] <= ansp'
    BY <1>2 DEF Analyse, AnalyseInv
  <2>1. v \in Snapshot /\ UNCHANGED <<flg, start>>
    BY <1>2 DEF Analyse, Analyses, rows
  <2>2. flg[v] \in {"I", "A"}
    BY <2>1 DEF Snapshot, DvbFlags, None
  <2>3. start[v] <= ansp'
    BY <1>2 DEF Analyse
  <2> QED
    BY <2>1, <2>2, <2>3
<1>3. CASE Cleaners
  BY <1>3, CleanersStamp DEF AnalyseInv
<1>4. CASE UpdateMergesp
  <2>1. mergesp' >= ansp /\ mergesp' \in Nat
    BY <1>4 DEF UpdateMergesp, TypeOK
  <2> QED
    BY <1>4, <2>1 DEF UpdateMergesp, AnalyseInv, TypeOK, rows
<1>5. CASE CleanupEvents \/ CleanupUseevents \/ LinkDvb \/ LinkExt \/ UpdateOthers \/ ReinitDvb
           \/ UpdateUseevents \/ RemoveHidden \/ UpdateLastrun \/ Interrupt \/ Tick
  BY <1>5 DEF CleanupEvents, CleanupUseevents, LinkDvb, LinkExt, UpdateOthers, ReinitDvb, UpdateUseevents,
              RemoveHidden, UpdateLastrun, Interrupt, Tick, AnalyseInv
<1>6. CASE UNCHANGED vars
  BY <1>6 DEF vars, rows, AnalyseInv
<1> QED
  BY <1>1, <1>2, <1>3, <1>4, <1>5, <1>6 DEF Next, MergeStep, Writers, Cleaners

LEMMA HiddenStep == TypeOK /\ HiddenInv /\ [Next]_vars => HiddenInv'
<1> SUFFICES ASSUME TypeOK, HiddenInv, [Next]_vars PROVE HiddenInv'
  OBVIOUS
<1>1. CASE Writers
  <2>1. PICK es \in SUBSET Events :
               /\ Touch(es)
               /\ \A e \in Events \ es : flg'[e] = flg[e] /\ use'[e] = use[e] /\ start'[e] = start[e]
    BY <1>1, WritersStamp
  <2>2. UNCHANGED <<uflg, pc>>
    BY <1>1, WritersStamp
  <2> QED
    BY <2>1, <2>2, StampedHidden
<1>2. CASE RemoveHidden
  BY <1>2 DEF RemoveHidden, HiddenRows, HiddenInv, rows
<1>3. CASE Cleaners
  BY <1>3, CleanersStamp DEF HiddenInv
<1>4. CASE CleanupEvents \/ CleanupUseevents \/ Analyse \/ UpdateMergesp \/ LinkDvb \/ LinkExt
           \/ UpdateOthers \/ ReinitDvb \/ UpdateUseevents \/ UpdateLastrun \/ Interrupt \/ Tick
  BY <1>4 DEF CleanupEvents, CleanupUseevents, Analyse, UpdateMergesp, LinkDvb, LinkExt, UpdateOthers,
              ReinitDvb, UpdateUseevents, UpdateLastrun, Interrupt, Tick, HiddenInv
<1>5. CASE UNCHANGED vars
  BY <1>5 DEF vars, rows, uevars, HiddenInv
<1> QED
  BY <1>1, <1>2, <1>3, <1>4, <1>5 DEF Next, MergeStep, Writers, Cleaners

(* No change is lost between `events` and `useevents`: the heart of the    *)
(* proof, one step per statement of mergeepg.                              *)
LEMMA MirrorStep == IInv /\ [Next]_vars => MirrorInv'
<1> SUFFICES ASSUME IInv, [Next]_vars PROVE MirrorInv'
  OBVIOUS
<1> USE Constants
<1>0. TypeOK /\ MirrorInv /\ TypeOK'
  BY TypeStep DEF IInv
<1>1. CASE Writers
  <2>1. PICK es \in SUBSET Events :
               /\ Touch(es)
               /\ \A e \in Events \ es : flg'[e] = flg[e] /\ use'[e] = use[e] /\ start'[e] = start[e]
    BY <1>0, <1>1, WritersStamp
  <2>2. UNCHANGED <<mergesp, uflg, uuse, ustart, pc>>
    BY <1>0, <1>1, WritersStamp
  <2> QED
    BY <1>0, <2>1, <2>2, StampedWrites DEF TypeOK, Copying
<1>2. CASE CleanupEvents
  <2> SUFFICES ASSUME NEW e \in Events, flg'[e] \in Needed, Live(use[e])',
                      e \notin Unsaved', use'[e] \notin Unsaved'
               PROVE  Mirrored(e)' \/ Pending(e)'
    BY DEF MirrorInv
  <2>1. pc = "idle" /\ Unsaved = dirty /\ Unsaved' = dirty \ OldEvents
    BY <1>2 DEF CleanupEvents, Unsaved, Copying
  <2>2. e \notin OldEvents
    BY <1>2 DEF CleanupEvents, Needed, Visible, Signal, None
  <2>3. flg'[e] = flg[e] /\ use'[e] = use[e] /\ start'[e] = start[e]
    BY <1>2, <2>2 DEF CleanupEvents
  <2>4. use[e] \in Events /\ use[e] \notin OldEvents /\ Live(use[e])
    BY <1>0, <1>2, <2>3 DEF CleanupEvents, Live, TypeOK
  <2>5. Mirrored(e) \/ Pending(e)
    BY <1>0, <2>1, <2>2, <2>3, <2>4 DEF MirrorInv
  <2>6. Mirrored(e) => Mirrored(e)'
    BY <1>2, <2>3 DEF CleanupEvents, Mirrored, uevars
  <2>7. Pending(e) => Pending(e)'
    BY <1>2, <2>3 DEF CleanupEvents, Pending, BelowMergePoint
  <2> QED
    BY <2>5, <2>6, <2>7
<1>3. CASE CleanupUseevents
  <2> SUFFICES ASSUME NEW e \in Events, flg[e] \in Needed, Live(use[e]),
                      e \notin Unsaved, use[e] \notin Unsaved
               PROVE  Mirrored(e)' \/ Pending(e)'
    BY <1>3 DEF CleanupUseevents, MirrorInv, Unsaved, Copying, Live, rows
  <2>1. Mirrored(e) \/ Pending(e)
    BY <1>0 DEF MirrorInv
  <2>2. e \notin OldEvents
    BY <1>3 DEF CleanupUseevents, IInv, CleanupInv
  <2>3. CASE Mirrored(e)
    <3>1. e \notin OldUseevents
      BY <2>2, <2>3 DEF Mirrored, OldEvents, OldUseevents, Live
    <3> QED
      BY <1>3, <2>3, <3>1 DEF CleanupUseevents, Mirrored, rows
  <2>4. CASE Pending(e)
    BY <1>3, <2>4 DEF CleanupUseevents, Pending, BelowMergePoint, rows
  <2> QED
    BY <2>1, <2>3, <2>4
<1>4. CASE Cleaners
  <2>1. PICK es \in SUBSET Events :
               /\ Touch(es)
               /\ \A e \in Events \ es : flg'[e] = flg[e] /\ use'[e] = use[e] /\ start'[e] = start[e]
    BY <1>0, <1>4, CleanersStamp
  <2>2. /\ UNCHANGED <<mergesp, uflg, uuse, ustart>> /\ Copying' = Copying
        /\ pc' \notin {"reinit", "useevents", "hidden", "lastrun"}
    BY <1>0, <1>4, CleanersStamp DEF Copying
  <2> QED
    BY <1>0, <2>1, <2>2, StampedWrites DEF TypeOK
<1>5. CASE Analyse
  BY <1>0, <1>5 DEF Analyse, MirrorInv, Mirrored, Pending, BelowMergePoint, Live, Unsaved, Copying,
                     rows, uevars
<1>6. CASE UpdateMergesp
  <2>1. mergesp' >= mergesp /\ mergesp' \in Nat /\ mergesp \in Nat
    BY <1>0, <1>6 DEF UpdateMergesp, TypeOK
  <2>2. \A e \in Events : Pending(e) => Pending(e)'
    BY <1>0, <1>6, <2>1 DEF UpdateMergesp, Pending, BelowMergePoint, TypeOK, rows
  <2>3. \A e \in Events : Mirrored(e) => Mirrored(e)'
    BY <1>6 DEF UpdateMergesp, Mirrored, rows, uevars
  <2>4. Unsaved' = Unsaved /\ UNCHANGED rows
    BY <1>6 DEF UpdateMergesp, Unsaved, Copying
  <2> QED
    BY <1>0, <2>2, <2>3, <2>4 DEF MirrorInv, Live, rows
<1>7. CASE LinkDvb
  <2> SUFFICES ASSUME NEW e \in Events, flg'[e] \in Needed, Live(use[e])',
                      e \notin Unsaved', use'[e] \notin Unsaved'
               PROVE  Mirrored(e)' \/ Pending(e)'
    BY DEF MirrorInv
  <2>1. pc = "dvb" /\ Unsaved = dirty /\ Unsaved' = dirty /\ UNCHANGED <<flg, start, mergesp>>
    BY <1>7 DEF LinkDvb, Unsaved, Copying
  <2>2. CASE e \in Dvb /\ an[e] # e
    <3>1. flg[e] = "A" /\ start[e] <= mergesp
      BY <2>1, <2>2 DEF IInv, AnalyseInv, Needed, Visible, Signal
    <3>2. use'[e] = an[e]
      BY <1>7, <2>1, <2>2, <3>1 DEF LinkDvb, Live, None
    <3>3. start[e] < mergesp + Fuzz
      BY <1>0, <3>1 DEF TypeOK
    <3> QED
      BY <1>7, <2>1, <2>2, <3>1, <3>2, <3>3 DEF LinkDvb, Pending, BelowMergePoint
  <2>3. CASE ~(e \in Dvb /\ an[e] # e)
    <3>1. use'[e] = use[e]
      BY <1>7, <2>3 DEF LinkDvb
    <3>2. Mirrored(e) \/ Pending(e)
      BY <1>0, <2>1, <3>1 DEF MirrorInv, Live
    <3>3. Mirrored(e) => Mirrored(e)'
      BY <1>7, <3>1 DEF LinkDvb, Mirrored, uevars
    <3>4. Pending(e) => Pending(e)'
      BY <1>7, <2>1, <3>1 DEF LinkDvb, Pending, BelowMergePoint
    <3> QED
      BY <3>2, <3>3, <3>4
  <2> QED
    BY <2>2, <2>3
<1>8. CASE LinkExt
  <2> SUFFICES ASSUME NEW e \in Events, flg'[e] \in Needed, Live(use[e])',
                      e \notin Unsaved', use'[e] \notin Unsaved'
               PROVE  Mirrored(e)' \/ Pending(e)'
    BY DEF MirrorInv
  <2> DEFINE targets == {x \in Ext : flg[x] \in {"I", "A", "R", "S"} /\ Linkers(x) # {}}
             changed == {x \in targets : flg[x] \in {"I", "R"}}
  <2>1. Touch(changed) /\ pc = "ext" /\ pc' = "others" /\ UNCHANGED <<start, mergesp, uflg, uuse, ustart>>
    BY <1>8 DEF LinkExt, uevars
  <2>2. Unsaved = dirty /\ Unsaved' = dirty \cup changed
    BY <2>1 DEF Unsaved, Copying, Touch
  <2>3. e \notin changed /\ use'[e] \notin changed
    BY <2>2
  <2>4. flg'[e] = flg[e]
    BY <1>8, <2>3 DEF LinkExt, Needed, Visible, Signal
  <2>5. use'[e] = use[e]
    BY <1>8, <2>3 DEF LinkExt
  <2>6. use[e] \in Events /\ Live(use[e])
    BY <1>0, <1>8, <2>5 DEF LinkExt, Live, TypeOK, None
  <2>7. Mirrored(e) \/ Pending(e)
    BY <1>0, <2>2, <2>4, <2>5, <2>6 DEF MirrorInv
  <2>8. Mirrored(e) => Mirrored(e)'
    BY <2>1, <2>3, <2>4, <2>5 DEF Mirrored, Touch
  <2>9. Pending(e) => Pending(e)'
    BY <2>1, <2>4, <2>5 DEF Pending, BelowMergePoint
  <2> QED
    BY <2>7, <2>8, <2>9
<1>9. CASE UpdateOthers
  <2> SUFFICES ASSUME NEW e \in Events, flg'[e] \in Needed, Live(use[e])',
                      e \notin Unsaved', use'[e] \notin Unsaved'
               PROVE  Mirrored(e)'
    BY DEF MirrorInv
  <2>1. Touch(Restamped) /\ pc = "others" /\ UNCHANGED <<use, start, mergesp, uflg, uuse, ustart>>
    BY <1>9 DEF UpdateOthers, uevars
  <2>2. Unsaved = dirty /\ Unsaved' = dirty \cup Restamped
    BY <1>9, <2>1 DEF UpdateOthers, Unsaved, Copying, Touch
  <2>3. e \notin Restamped /\ use'[e] \notin Restamped
    BY <2>2
  <2>4. flg'[e] = flg[e] /\ ~Pending(e)
    BY <1>9, <2>1, <2>3 DEF UpdateOthers, Restamped, MergedDvb, OwnUse, Pending
  <2>5. Live(use[e])
    BY <1>0, <1>9, <2>1 DEF UpdateOthers, Live, TypeOK, None, ReplacedExt, MergedDvb
  <2>6. Mirrored(e)
    BY <1>0, <2>1, <2>2, <2>4, <2>5 DEF MirrorInv
  <2> QED
    BY <2>1, <2>3, <2>4, <2>6 DEF Mirrored, Touch
<1>10. CASE ReinitDvb
  <2> DEFINE removed == {v \in Dvb : flg[v] = "R" /\ BelowMergePoint(v)}
  <2>1. removed \in SUBSET Events
    OBVIOUS
  <2>2. /\ Touch(removed) /\ UNCHANGED <<mergesp, uflg, uuse, ustart>>
        /\ \A e \in Events \ removed : flg'[e] = flg[e] /\ use'[e] = use[e] /\ start'[e] = start[e]
    BY <1>10 DEF ReinitDvb, uevars
  <2>3. Copying' = Copying /\ pc = "reinit"
    BY <1>10 DEF ReinitDvb, Copying
  <2> HIDE DEF removed
  <2> QED
    BY <1>0, <2>1, <2>2, <2>3, StampedWrites DEF TypeOK
<1>11. CASE UpdateUseevents
  <2> SUFFICES ASSUME NEW e \in Events, flg[e] \in Needed, Live(use[e]) PROVE Mirrored(e)'
    BY <1>11 DEF UpdateUseevents, MirrorInv, rows, Live
  <2> USE DEF Copyable, Copied
  <2>0. PICK more \in SUBSET Copyable :
          /\ uflg' = [d \in Events |-> IF d \in Copied \cup more THEN flg[d] ELSE uflg[d]]
          /\ uuse' = [d \in Events |-> IF d \in Copied \cup more THEN use[d] ELSE uuse[d]]
          /\ ustart' = [d \in Events |-> IF d \in Copied \cup more THEN start[d] ELSE ustart[d]]
          /\ behind' = behind \ (Copied \cup more)
    BY <1>11 DEF UpdateUseevents
  <2>1. CASE e \in Copied \cup more
    BY <1>11, <2>0, <2>1 DEF UpdateUseevents, Mirrored, rows
  <2>2. CASE e \notin Copied \cup more
    <3>1. Mirrored(e)
      BY <1>0, <1>11, <2>2 DEF UpdateUseevents, MirrorInv, Pending, Unsaved, Copying
    <3> QED
      BY <1>11, <2>0, <2>2, <3>1 DEF UpdateUseevents, Mirrored, rows
  <2> QED
    BY <2>1, <2>2
<1>12. CASE RemoveHidden
  <2>1. \A e \in Events : flg[e] \in Needed => e \notin HiddenRows
    BY DEF HiddenRows, Hidden, Needed, Visible, Signal
  <2>2. \A e \in Events : flg[e] \in Needed /\ Mirrored(e) => Mirrored(e)'
    BY <1>12, <2>1 DEF RemoveHidden, Mirrored, rows
  <2>3. \A e \in Events : ~Pending(e)
    BY <1>12 DEF RemoveHidden, Pending
  <2>4. Unsaved' = Unsaved /\ UNCHANGED rows
    BY <1>12 DEF RemoveHidden, Unsaved, Copying
  <2> QED
    BY <1>0, <2>2, <2>3, <2>4 DEF MirrorInv, Live, rows
<1>13. CASE UpdateLastrun
  <2>1. Unsaved' = Unsaved /\ UNCHANGED <<rows, uevars, behind>>
    BY <1>13 DEF UpdateLastrun, Unsaved, Copying
  <2>2. \A e \in Events : ~Pending(e)
    BY <1>13 DEF UpdateLastrun, Pending
  <2> QED
    BY <1>0, <2>1, <2>2 DEF MirrorInv, Mirrored, Live, rows, uevars
<1>14. CASE Interrupt
  <2>1. Unsaved \subseteq Unsaved' /\ UNCHANGED <<rows, mergesp, uevars, behind>> /\ pc' = "idle"
    BY <1>14 DEF Interrupt, Unsaved, Copying, IInv, LateInv
  <2> QED
    BY <1>0, <2>1 DEF MirrorInv, Mirrored, Pending, BelowMergePoint, Live, rows, uevars
<1>15. CASE Tick
  BY <1>0, <1>15 DEF Tick, MirrorInv, Mirrored, Pending, BelowMergePoint, Live, Unsaved, Copying, rows, uevars
<1>16. CASE UNCHANGED vars
  BY <1>0, <1>16 DEF vars, MirrorInv, Mirrored, Pending, BelowMergePoint, Live, Unsaved, Copying, rows, uevars
<1> QED
  BY <1>1, <1>2, <1>3, <1>4, <1>5, <1>6, <1>7, <1>8, <1>9, <1>10, <1>11, <1>12, <1>13, <1>14, <1>15, <1>16
     DEF Next, MergeStep, Writers, Cleaners

LEMMA InvInit == Init => IInv
<1> SUFFICES ASSUME Init PROVE IInv
  OBVIOUS
<1>1. TypeOK
  BY TypeInit
<1>2. DvbFlags /\ CleanupInv /\ LateInv /\ AnalyseInv /\ MirrorInv /\ HiddenInv
  BY Constants DEF Init, DvbFlags, CleanupInv, LateInv, AnalyseInv, MirrorInv, HiddenInv, None, Needed,
                        Visible, Signal
<1> QED
  BY <1>1, <1>2 DEF IInv

LEMMA InvStep == IInv /\ [Next]_vars => IInv'
BY TypeStep, DvbFlagsStep, CleanupStep, LateStep, AnalyseStep, MirrorStep, HiddenStep DEF IInv

LEMMA InvPublished == IInv => Published
BY DEF IInv, MirrorInv, HiddenInv, Pending, Unsaved, Copying, Published, Merged

(* At the end of every merge, useevents shows what a copy of the whole     *)
(* table would: the delta by update stamps loses no change, whatever the   *)
(* handlers of the VDRs write meanwhile and wherever an earlier merge was  *)
(* cut off.                                                                *)
THEOREM PublishedCorrect == Spec => []Published
BY InvInit, InvStep, InvPublished, PTL DEF Spec
=============================================================================
