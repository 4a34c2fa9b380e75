------------------------ MODULE EpgMergeLinks_proofs ------------------------
(***************************************************************************)
(* Links, targets and what is listed at the end of a merge, for every set  *)
(* of events, every schedule and every tolerance.                          *)
(*                                                                         *)
(* First the merge nobody disturbs: the handlers of the VDRs pause, no     *)
(* merge is cut off and a deleted DVB event does not come back with its    *)
(* old link.  LinksInv follows an event from the analysis through the      *)
(* statements that link it, make its partner a target and flag it as a     *)
(* link: PairInv is what holds of the pairs in between, RowInv what the    *)
(* next merge relies on.  Then, without any of these hypotheses, TakenInv: *)
(* what a DVB event is linked to is never an event of its own any more.    *)
(* Last, SignalInv: what becomes of the events the VDRs have been shown.   *)
(***************************************************************************)
EXTENDS EpgMerge_proofs

Undisturbed == HandlersPause /\ MaxCrashes = 0 /\ ~Reinstates

Linked(v) == use[v] # v

Between == {"idle", "cleanup"}          \* no merge runs

(* The flags of an external event a merge may still make a target. *)
Unmerged == {"I", "A", "R", "S"}
Target == {"T", "C"}

-----------------------------------------------------------------------------
(* What holds of the rows at any time.                                     *)

(* Deleted DVB events are those flagged so, *)
DelInv == \A v \in Dvb : v \in del <=> flg[v] = "D"

(* and those with a link are shown with it or deleted, or are about to be  *)
(* by the running merge.  A row stored without a useid is taken for a link *)
(* until the next merge, or for good if it is over by then.                *)
DvbUseInv ==
  \A v \in Dvb :
    /\ use[v] \in Ext \cup {v}
    /\ flg[v] = "L" => Linked(v) \/ Ended(v) \/ pc \in Between \cup {"links"}
    /\ Linked(v) => \/ flg[v] \in {"L", "D"}
                    \/ flg[v] \in {"A", "I"} /\ pc \in {"ext", "others"}

(* The first statement of a merge gives every row its useid. *)
FreshInv == pc \notin Between => fresh = {}

(* Only external events that are signalled as changed go by another id. *)
ExtUseInv == \A x \in Ext : use[x] # x => flg[x] = "C"

(* They are not visible in useevents, unless the running merge has changed *)
(* them and will copy them.                                                *)
ChangedInv ==
  \A x \in Ext : flg[x] = "C" /\ uflg[x] \in Visible =>
    pc \in {"others", "reinit", "useevents"} /\ x \in dirty /\ Live(use[x])

LateEmpty == late = {}

RowInv == DelInv /\ DvbUseInv /\ FreshInv /\ ExtUseInv /\ ChangedInv /\ LateEmpty

-----------------------------------------------------------------------------
(* What holds of the links and targets while a merge runs.                 *)

(* v is linked to x by the running merge. *)
Pair(v, x) ==
  /\ x \in Ext /\ flg[v] \in {"A", "I"} /\ ~Ended(v)
  /\ start[v] <= (IF pc = "mergesp" THEN ansp ELSE mergesp)
  /\ ~Apart(x, v, MatchTol)

PairInv ==
  /\ pc \in {"mergesp", "dvb"} =>
       \A v \in Dvb : an[v] # v => Pair(v, an[v]) /\ flg[an[v]] \in Unmerged
  /\ \A v \in Dvb : Linked(v) /\ flg[v] \in {"A", "I"} =>
       Pair(v, use[v]) /\ flg[use[v]] \in (IF pc = "ext" THEN Unmerged ELSE Target)

(* The links that were there are sound once they have been cleaned up. *)
LinkInv ==
  \A v \in Dvb :
    /\ pc \notin Between => (flg[v] = "D" /\ Linked(v) => Ended(v))
    /\ pc \notin Between \cup {"links"} =>
         (flg[v] = "L" /\ ~Ended(v) => flg[use[v]] \in Target /\ ~Apart(use[v], v, BreakTol))

Shows(v) == flg[v] = "L" \/ Ended(v) \/ (flg[v] \in {"A", "I"} /\ pc = "others")

TargetInv ==
  pc \notin Between \cup {"links", "targets"} =>
    \A x \in Ext : flg[x] \in Target /\ ~Ended(x) =>
      \E v \in Dvb : use[v] = x /\ Shows(v)

PlacedInv ==
  pc \in {"reinit", "useevents", "hidden", "lastrun"} =>
    \A v \in Dvb : flg[v] = "I" => ~BelowMergePoint(v)

MergeInv == PairInv /\ LinkInv /\ TargetInv /\ PlacedInv

LinksInv == TypeOK /\ DvbFlags /\ RowInv /\ MergeInv

-----------------------------------------------------------------------------
LEMMA FlagSets ==
  /\ Visible = {"A", "L"} /\ Signal = {"C", "D", "R"} /\ Hidden = {"T", "S", "I"}
  /\ Needed = {"A", "L", "C", "D", "R"} /\ Deletable = {"A", "L", "R", "I"}
  /\ Unmerged = {"I", "A", "R", "S"} /\ Target = {"T", "C"}
  /\ Between = {"idle", "cleanup"} /\ None = "-"
BY DEF Visible, Signal, Hidden, Needed, Deletable, Unmerged, Target, Between, None

(* Between merges no event waits for its link, and the rest is about merges. *)
LEMMA IdleMergeInv ==
  ASSUME DvbUseInv', pc' \in Between
  PROVE  MergeInv'
BY DEF Between, DvbUseInv, MergeInv, PairInv, LinkInv, TargetInv, PlacedInv

LEMMA LinksInit == Init => LinksInv
<1> SUFFICES ASSUME Init PROVE LinksInv OBVIOUS
<1> USE Constants, FlagSets
<1>1. TypeOK BY TypeInit
<1>2. DvbFlags BY DEF Init, DvbFlags
<1>3. RowInv
  BY DEF Init, Self, RowInv, DelInv, DvbUseInv, FreshInv, ExtUseInv, ChangedInv, LateEmpty, Linked
<1>4. MergeInv
  BY <1>3 DEF Init, RowInv, DvbUseInv, MergeInv, PairInv, LinkInv, TargetInv, PlacedInv
<1> QED BY <1>1, <1>2, <1>3, <1>4 DEF LinksInv

-----------------------------------------------------------------------------
(* The provider and the handlers of the VDRs write between merges. *)
LEMMA WriterStep ==
  ASSUME LinksInv, Undisturbed, Writers
  PROVE  RowInv' /\ pc' \in Between
<1> USE Constants, FlagSets
<1>0. TypeOK /\ DvbFlags /\ DelInv /\ DvbUseInv /\ ExtUseInv /\ ChangedInv /\ LateEmpty
  BY DEF LinksInv, RowInv
<1>1. pc = "idle" /\ pc' = "idle"
  BY DEF Writers, Undisturbed, ProviderInsert, ProviderUpdate, MarkOldEvents, DvbStore, DvbDelete,
         HandlerRuns
<1>2. LateEmpty'
  <2>1. \E es : Touch(es) BY <1>0, WritersStamp
  <2> QED BY <1>0, <1>1, <2>1 DEF Touch, LateEmpty
<1>3. ASSUME NEW x \in Ext, NEW s \in Starts[x], ProviderInsert(x, s)
      PROVE  DelInv' /\ DvbUseInv' /\ ExtUseInv' /\ ChangedInv'
  <2>1. /\ flg' = [flg EXCEPT ![x] = NewFlag(x, s)] /\ use' = [use EXCEPT ![x] = x]
        /\ del' = del \ {x} /\ uflg' = uflg
    BY <1>3 DEF ProviderInsert, uevars
  <2>2. flg'[x] # "C" BY <1>0, <2>1 DEF TypeOK, NewFlag
  <2>3. DelInv' BY <1>0, <2>1 DEF DelInv, TypeOK
  <2>4. DvbUseInv' BY <1>0, <1>1, <2>1 DEF DvbUseInv, Linked, TypeOK
  <2>5. ExtUseInv' BY <1>0, <2>1 DEF ExtUseInv, TypeOK
  <2>6. ChangedInv' BY <1>0, <1>1, <2>1, <2>2 DEF ChangedInv, TypeOK
  <2> QED BY <2>3, <2>4, <2>5, <2>6
<1>4. ASSUME NEW x \in Ext, NEW s \in Starts[x], ProviderUpdate(x, s)
      PROVE  DelInv' /\ DvbUseInv' /\ ExtUseInv' /\ ChangedInv'
  <2>1. /\ flg' = [flg EXCEPT ![x] = IF @ = "D" THEN NewFlag(x, s) ELSE @] /\ use' = use
        /\ del' = del \ {x} /\ uflg' = uflg
    BY <1>4 DEF ProviderUpdate, uevars
  <2>2. flg'[x] = "C" <=> flg[x] = "C" BY <1>0, <2>1 DEF TypeOK, NewFlag
  <2>3. DelInv' BY <1>0, <2>1 DEF DelInv, TypeOK
  <2>4. DvbUseInv' BY <1>0, <1>1, <2>1 DEF DvbUseInv, Linked, TypeOK
  <2>5. ExtUseInv' BY <1>0, <2>1, <2>2 DEF ExtUseInv, TypeOK
  <2>6. ChangedInv' BY <1>0, <1>1, <2>1, <2>2 DEF ChangedInv, TypeOK
  <2> QED BY <2>3, <2>4, <2>5, <2>6
<1>5. ASSUME NEW xs \in SUBSET Ext, MarkOldEvents(xs)
      PROVE  DelInv' /\ DvbUseInv' /\ ExtUseInv' /\ ChangedInv'
  <2>1. /\ flg' = [e \in Events |-> IF e \in xs THEN Deleted(e) ELSE flg[e]] /\ use' = use
        /\ del' = del \cup xs /\ uflg' = uflg
    BY <1>5 DEF MarkOldEvents, uevars
  <2>2. \A x \in Ext : flg'[x] = "C" <=> flg[x] = "C" BY <2>1 DEF Deleted
  <2>3. DelInv' BY <1>0, <2>1 DEF DelInv
  <2>4. DvbUseInv' BY <1>0, <1>1, <2>1 DEF DvbUseInv, Linked
  <2>5. ExtUseInv' BY <1>0, <2>1, <2>2 DEF ExtUseInv
  <2>6. ChangedInv' BY <1>0, <1>1, <2>1, <2>2 DEF ChangedInv
  <2> QED BY <2>3, <2>4, <2>5, <2>6
<1>6. ASSUME NEW v \in Dvb, NEW s \in Starts[v], DvbStore(v, s)
      PROVE  DelInv' /\ DvbUseInv' /\ ExtUseInv' /\ ChangedInv'
  <2>1. /\ flg' = [flg EXCEPT ![v] = IF ~Live(v) \/ v \in del
                                        THEN GetUpdFlg(v, s, use[v] = v /\ v \notin fresh') ELSE @]
        /\ use' = use /\ del' = del \ {v} /\ uflg' = uflg
    BY <1>6 DEF DvbStore, uevars
  <2>2. ~Live(v) \/ v \in del => use[v] = v
    <3>1. v \in del => use[v] = v BY <1>6, Zenon DEF DvbStore, Undisturbed
    <3>2. ~Live(v) => use[v] = v BY <1>0, <1>1 DEF Live, DvbUseInv, Linked
    <3> QED BY <3>1, <3>2
  <2>3. \/ flg'[v] \in {"A", "L", "I"} /\ use[v] = v
        \/ flg'[v] = flg[v] /\ v \notin del
    BY <1>0, <2>1, <2>2 DEF GetUpdFlg, TypeOK
  <2>4. DelInv' BY <1>0, <2>1, <2>3 DEF DelInv, TypeOK
  <2>5. DvbUseInv' BY <1>0, <1>1, <2>1, <2>3 DEF DvbUseInv, Linked, TypeOK
  <2>6. ExtUseInv' BY <1>0, <2>1 DEF ExtUseInv, TypeOK
  <2>7. ChangedInv' BY <1>0, <1>1, <2>1 DEF ChangedInv, TypeOK
  <2> QED BY <2>4, <2>5, <2>6, <2>7
<1>7. ASSUME NEW v \in Dvb, DvbDelete(v)
      PROVE  DelInv' /\ DvbUseInv' /\ ExtUseInv' /\ ChangedInv'
  <2>1. /\ flg' = [flg EXCEPT ![v] = Deleted(v)] /\ Live(v)
        /\ use' = use /\ del' = del \cup {v} /\ uflg' = uflg
    BY <1>7 DEF DvbDelete, uevars
  <2>2. flg'[v] = "D" BY <1>0, <2>1 DEF Deleted, Live, DvbFlags, TypeOK
  <2>3. DelInv' BY <1>0, <2>1, <2>2 DEF DelInv, TypeOK
  <2>4. DvbUseInv' BY <1>0, <1>1, <2>1, <2>2 DEF DvbUseInv, Linked, TypeOK
  <2>5. ExtUseInv' BY <1>0, <2>1 DEF ExtUseInv, TypeOK
  <2>6. ChangedInv' BY <1>0, <1>1, <2>1 DEF ChangedInv, TypeOK
  <2> QED BY <2>3, <2>4, <2>5, <2>6
<1>8. DelInv' /\ DvbUseInv' /\ ExtUseInv' /\ ChangedInv'
  BY <1>3, <1>4, <1>5, <1>6, <1>7 DEF Writers
<1> QED BY <1>1, <1>2, <1>8 DEF RowInv, FreshInv

(* Old rows are dropped, from events with their link. *)
LEMMA CleanupLinks ==
  ASSUME LinksInv, CleanupEvents \/ CleanupUseevents
  PROVE  RowInv' /\ pc' \in Between
<1> USE Constants, FlagSets
<1>1. TypeOK /\ DelInv /\ DvbUseInv /\ ExtUseInv /\ ChangedInv /\ LateEmpty
  BY DEF LinksInv, RowInv
<1>2. pc \in Between /\ pc' \in Between BY DEF CleanupEvents, CleanupUseevents
<1>3. CASE CleanupEvents
  <2>1. DelInv' BY <1>1, <1>3 DEF CleanupEvents, DelInv
  <2>2. DvbUseInv' BY <1>1, <1>2, <1>3 DEF CleanupEvents, DvbUseInv, Linked
  <2>3. ExtUseInv' BY <1>1, <1>3 DEF CleanupEvents, ExtUseInv
  <2>4. ChangedInv' BY <1>1, <1>2, <1>3 DEF CleanupEvents, ChangedInv, uevars
  <2>5. LateEmpty' BY <1>1, <1>3 DEF CleanupEvents, LateEmpty
  <2> QED BY <1>2, <2>1, <2>2, <2>3, <2>4, <2>5 DEF RowInv, FreshInv
<1>4. CASE CleanupUseevents
  <2>1. UNCHANGED <<flg, use, del, late>> BY <1>4 DEF CleanupUseevents, rows
  <2>2. DelInv' /\ DvbUseInv' /\ ExtUseInv' /\ LateEmpty'
    BY <1>1, <1>2, <2>1 DEF DelInv, DvbUseInv, ExtUseInv, LateEmpty, Linked
  <2>3. ChangedInv' BY <1>1, <1>2, <1>4, <2>1 DEF CleanupUseevents, ChangedInv
  <2> QED BY <1>2, <2>2, <2>3 DEF RowInv, FreshInv
<1> QED BY <1>3, <1>4

-----------------------------------------------------------------------------
(* "fix useid = 0" and "cleanup deleted Links" *)
LEMMA StartMergeStep ==
  ASSUME LinksInv, StartMerge
  PROVE  RowInv' /\ MergeInv'
<1> USE Constants, FlagSets
<1>0. TypeOK /\ DvbFlags /\ DelInv /\ DvbUseInv /\ ExtUseInv /\ ChangedInv /\ LateEmpty
  BY DEF LinksInv, RowInv
<1>1. /\ pc = "idle" /\ pc' = "links" /\ fresh' = {}
      /\ UNCHANGED <<flg, del, start, uflg, now>> /\ late' = late
      /\ use' = [e \in Events |-> IF e \in DeletedLinks THEN e ELSE use[e]]
  BY DEF StartMerge, Touch, uevars
<1>2. \A v \in Dvb : use'[v] = use[v] \/ use'[v] = v
  BY <1>1
<1>3. \A x \in Ext : use'[x] = use[x]
  BY <1>1 DEF DeletedLinks
<1>4. \A v \in Dvb : flg[v] = "D" /\ use'[v] # v => Ended(v)
  BY <1>1 DEF DeletedLinks
<1>5. DelInv' /\ DvbUseInv' /\ FreshInv' /\ ExtUseInv' /\ ChangedInv' /\ LateEmpty'
  BY <1>0, <1>1, <1>2, <1>3 DEF DelInv, DvbUseInv, FreshInv, ExtUseInv, ChangedInv, LateEmpty, Linked
<1>6. PairInv'
  BY <1>1, <1>5 DEF PairInv, DvbUseInv
<1>7. LinkInv'
  BY <1>1, <1>4 DEF LinkInv, Linked, Ended
<1> QED BY <1>1, <1>5, <1>6, <1>7 DEF RowInv, MergeInv, TargetInv, PlacedInv

(* "cleanup broken Links": the links left over lead to a target close by. *)
LEMMA CleanLinksStep ==
  ASSUME LinksInv, CleanLinks
  PROVE  RowInv' /\ MergeInv'
<1> USE Constants, FlagSets
<1>0. /\ TypeOK /\ DvbFlags /\ DelInv /\ DvbUseInv /\ FreshInv /\ ExtUseInv /\ ChangedInv /\ LateEmpty
      /\ LinkInv
  BY DEF LinksInv, RowInv, MergeInv
<1>1. PICK unlike :
        /\ flg' = [e \in Events |-> IF e \notin BrokenLinks(unlike) THEN flg[e]
                                   ELSE IF e \in del THEN "D" ELSE "A"]
        /\ use' = [e \in Events |-> IF e \in BrokenLinks(unlike) THEN e ELSE use[e]]
        /\ fresh' = fresh \ BrokenLinks(unlike)
        /\ Touch(BrokenLinks(unlike))
  BY DEF CleanLinks
<1> DEFINE broken == BrokenLinks(unlike)
<1>2. /\ pc = "links" /\ pc' = "targets" /\ fresh' = {}
      /\ UNCHANGED <<del, start, uflg, now>> /\ late' = late
  BY <1>0, <1>1 DEF CleanLinks, Touch, FreshInv, uevars
<1>3. \A x \in Ext : flg'[x] = flg[x] /\ use'[x] = use[x]
  BY <1>1 DEF BrokenLinks
<1>4. \A v \in Dvb : v \in broken => flg[v] = "L" /\ flg'[v] = "A" /\ use'[v] = v
  BY <1>0, <1>1 DEF BrokenLinks, DelInv
<1>5. \A v \in Dvb : v \notin broken => flg'[v] = flg[v] /\ use'[v] = use[v]
  BY <1>1
<1>6. ASSUME NEW v \in Dvb, v \notin broken, flg[v] = "L", ~Ended(v)
      PROVE  use[v] \in Ext /\ flg[use[v]] \in Target /\ ~Apart(use[v], v, BreakTol)
  <2>1. IsTarget(use[v], v) /\ ~Apart(use[v], v, BreakTol) BY <1>6 DEF BrokenLinks
  <2> QED BY <1>0, <2>1 DEF IsTarget, DvbUseInv
<1> HIDE DEF broken
<1>7. DelInv'
  BY <1>0, <1>2, <1>4, <1>5 DEF DelInv
<1>8. DvbUseInv'
  <2> SUFFICES ASSUME NEW v \in Dvb
               PROVE  /\ use'[v] \in Ext \cup {v}
                      /\ flg'[v] = "L" => use'[v] # v \/ Ended(v)
                      /\ use'[v] # v => flg'[v] \in {"L", "D"}
    BY <1>2 DEF DvbUseInv, Linked, Ended
  <2>1. CASE v \in broken BY <1>4, <2>1
  <2>2. CASE v \notin broken BY <1>0, <1>2, <1>5, <1>6, <2>2 DEF DvbUseInv, Linked
  <2> QED BY <2>1, <2>2
<1>9. ExtUseInv' /\ ChangedInv' /\ LateEmpty' /\ FreshInv'
  BY <1>0, <1>2, <1>3 DEF ExtUseInv, ChangedInv, LateEmpty, FreshInv
<1>10. PairInv'
  BY <1>2, <1>8 DEF PairInv, DvbUseInv
<1>11. LinkInv'
  <2> SUFFICES ASSUME NEW v \in Dvb, ~Ended(v)
               PROVE  /\ flg'[v] = "D" => use'[v] = v
                      /\ flg'[v] = "L" => flg'[use'[v]] \in Target /\ ~Apart(use'[v], v, BreakTol)
    BY <1>2 DEF LinkInv, Linked, Ended, Apart
  <2>1. CASE v \in broken BY <1>4, <2>1
  <2>2. CASE v \notin broken
    BY <1>0, <1>2, <1>3, <1>5, <1>6, <2>2 DEF LinkInv, Linked
  <2> QED BY <2>1, <2>2
<1> QED BY <1>2, <1>7, <1>8, <1>9, <1>10, <1>11 DEF RowInv, MergeInv, TargetInv, PlacedInv

(* "cleanup broken Targets": the targets left over are shown by a link. *)
LEMMA CleanTargetsStep ==
  ASSUME LinksInv, CleanTargets
  PROVE  RowInv' /\ MergeInv'
<1> USE Constants, FlagSets
<1>0. /\ TypeOK /\ DvbFlags /\ DelInv /\ DvbUseInv /\ FreshInv /\ ExtUseInv /\ ChangedInv /\ LateEmpty
      /\ LinkInv
  BY DEF LinksInv, RowInv, MergeInv
<1>1. /\ pc = "targets" /\ pc' = "snapshot" /\ fresh' = {}
      /\ UNCHANGED <<del, start, uflg, now>> /\ late' = late
      /\ flg' = [e \in Events |-> IF e \in BrokenTargets THEN Removed(e) ELSE flg[e]]
      /\ use' = [e \in Events |-> IF e \in BrokenTargets THEN e ELSE use[e]]
  BY <1>0 DEF CleanTargets, Touch, FreshInv, uevars
<1>2. \A v \in Dvb : flg'[v] = flg[v] /\ use'[v] = use[v]
  BY <1>0, <1>1 DEF BrokenTargets, DvbFlags
<1>3. \A x \in Ext : x \in BrokenTargets => flg'[x] \in {"D", "R"} /\ use'[x] = x
  BY <1>1, FlagValues
<1>4. \A x \in Ext : x \notin BrokenTargets => flg'[x] = flg[x] /\ use'[x] = use[x]
  BY <1>1
<1>5. \A x \in Ext : flg'[x] \in Target /\ ~Ended(x) => \E v \in Dvb : flg[v] = "L" /\ use[v] = x
  BY <1>3, <1>4 DEF BrokenTargets
<1>6. DelInv' /\ DvbUseInv' /\ FreshInv' /\ LateEmpty'
  BY <1>0, <1>1, <1>2 DEF DelInv, DvbUseInv, FreshInv, LateEmpty, Linked, Ended
<1>7. ExtUseInv' /\ ChangedInv'
  BY <1>0, <1>1, <1>3, <1>4 DEF ExtUseInv, ChangedInv
<1>8. PairInv'
  BY <1>1, <1>6 DEF PairInv, DvbUseInv
<1>9. LinkInv'
  <2> SUFFICES ASSUME NEW v \in Dvb, ~Ended(v)
               PROVE  /\ flg[v] = "D" => use[v] = v
                      /\ flg[v] = "L" => flg'[use[v]] \in Target /\ ~Apart(use[v], v, BreakTol)
    BY <1>1, <1>2 DEF LinkInv, Linked, Ended, Apart
  <2>1. ASSUME flg[v] = "L"
        PROVE  use[v] \in Ext /\ flg[use[v]] \in Target /\ ~Apart(use[v], v, BreakTol)
    BY <1>0, <1>1, <2>1 DEF DvbUseInv, LinkInv, Linked
  <2>2. flg[v] = "L" => use[v] \notin BrokenTargets
    BY <2>1 DEF BrokenTargets
  <2> QED BY <1>0, <1>1, <1>4, <2>1, <2>2 DEF LinkInv, Linked
<1>10. TargetInv'
  BY <1>1, <1>2, <1>5 DEF TargetInv, Shows, Ended
<1> QED BY <1>1, <1>6, <1>7, <1>8, <1>9, <1>10 DEF RowInv, MergeInv, PlacedInv

(* "do the magic": what is paired may be linked. *)
LEMMA AnalysePairs ==
  ASSUME LinksInv, Analyse
  PROVE  RowInv' /\ MergeInv'
<1> USE Constants, FlagSets
<1>0. /\ TypeOK /\ DvbFlags /\ DelInv /\ DvbUseInv /\ FreshInv /\ ExtUseInv /\ ChangedInv /\ LateEmpty
      /\ LinkInv /\ TargetInv
  BY DEF LinksInv, RowInv, MergeInv
<1>1. /\ pc = "snapshot" /\ pc' = "mergesp"
      /\ UNCHANGED <<flg, use, fresh, del, start, uflg, dirty, late, now>>
      /\ an' \in Analyses
      /\ \A v \in Dvb : an'[v] # v => start[v] <= ansp'
  BY DEF Analyse, rows, uevars
<1>2. RowInv'
  BY <1>0, <1>1 DEF RowInv, DelInv, DvbUseInv, FreshInv, Linked, Ended, ExtUseInv, ChangedInv, LateEmpty, Live
<1>3. PairInv'
  <2>1. ASSUME NEW v \in Dvb, an'[v] # v
        PROVE  Pair(v, an[v])' /\ flg[an'[v]] \in Unmerged
    <3>1. v \in Snapshot /\ an'[v] \in Ext /\ an'[v] \in Snapshot /\ ~Apart(an'[v], v, MatchTol)
      BY <1>1, <2>1 DEF Analyses
    <3>2. flg[v] \in {"A", "I"} /\ flg[an'[v]] \in Unmerged /\ ~Ended(v)
      BY <1>0, <3>1 DEF Snapshot, DvbFlags
    <3> QED BY <1>1, <2>1, <3>1, <3>2 DEF Pair, Ended, Apart
  <2>2. \A v \in Dvb : ~(Linked(v) /\ flg[v] \in {"A", "I"})'
    BY <1>1, <1>2 DEF RowInv, DvbUseInv
  <2> QED BY <1>1, <2>1, <2>2 DEF PairInv
<1>4. LinkInv' /\ TargetInv'
  BY <1>0, <1>1 DEF LinkInv, TargetInv, Linked, Shows, Ended, Apart
<1> QED BY <1>1, <1>2, <1>3, <1>4 DEF MergeInv, PlacedInv

(* "update mergesp": the merge point moves up to the last event matched. *)
LEMMA UpdateMergespStep ==
  ASSUME LinksInv, UpdateMergesp
  PROVE  RowInv' /\ MergeInv'
<1> USE Constants, FlagSets
<1>0. /\ TypeOK /\ DelInv /\ DvbUseInv /\ FreshInv /\ ExtUseInv /\ ChangedInv
      /\ LateEmpty /\ PairInv /\ LinkInv /\ TargetInv
  BY DEF LinksInv, RowInv, MergeInv
<1>1. /\ pc = "mergesp" /\ pc' = "dvb" /\ UNCHANGED <<flg, use, fresh, del, start, uflg, dirty, late, an, now>>
      /\ mergesp' >= ansp /\ mergesp' \in Nat
  BY <1>0 DEF UpdateMergesp, rows, uevars, TypeOK
<1>2. RowInv'
  BY <1>0, <1>1 DEF RowInv, DelInv, DvbUseInv, FreshInv, Linked, Ended, ExtUseInv, ChangedInv, LateEmpty, Live
<1>3. PairInv'
  <2>1. \A v \in Dvb : start[v] \in Nat BY <1>0 DEF TypeOK
  <2>2. \A v \in Dvb : \A x \in Ext : Pair(v, x) => Pair(v, x)'
    BY <1>0, <1>1, <2>1 DEF Pair, Ended, Apart, TypeOK
  <2>3. \A v \in Dvb : ~(Linked(v) /\ flg[v] \in {"A", "I"})'
    BY <1>0, <1>1 DEF DvbUseInv, Linked
  <2> QED BY <1>0, <1>1, <2>2, <2>3 DEF PairInv, Pair
<1>4. LinkInv'
  BY <1>0, <1>1 DEF LinkInv, Linked, Ended, Apart
<1>5. TargetInv'
  BY <1>0, <1>1 DEF TargetInv, Shows, Ended
<1>6. PlacedInv'
  BY <1>1 DEF PlacedInv
<1> QED BY <1>2, <1>3, <1>4, <1>5, <1>6 DEF MergeInv

(* "update useid on vdr events": the matched events get their links. *)
LEMMA LinkDvbStep ==
  ASSUME LinksInv, LinkDvb
  PROVE  RowInv' /\ MergeInv'
<1> USE Constants, FlagSets
<1>0. /\ TypeOK /\ DvbFlags /\ DelInv /\ DvbUseInv /\ FreshInv /\ ExtUseInv /\ ChangedInv
      /\ LateEmpty /\ PairInv /\ LinkInv /\ TargetInv
  BY DEF LinksInv, RowInv, MergeInv
<1>1. /\ pc = "dvb" /\ pc' = "ext"
      /\ UNCHANGED <<flg, del, start, mergesp, uflg, dirty, late, now>>
      /\ \A v \in Dvb : use'[v] = IF Live(v) /\ an[v] # v THEN an[v] ELSE use[v]
      /\ \A x \in Ext : use'[x] = use[x]
      /\ fresh' = {}
  BY <1>0 DEF LinkDvb, FreshInv, uevars
<1>2. \A e \in Events : Ended(e)' <=> Ended(e)
  BY <1>1 DEF Ended
<1>3. \A v \in Dvb : an[v] # v => Pair(v, an[v]) /\ flg[an[v]] \in Unmerged
  BY <1>0, <1>1 DEF PairInv
<1>4. \A v \in Dvb : flg[v] \in {"L", "D"} \/ Ended(v) => use'[v] = use[v]
  BY <1>1, <1>3 DEF Pair
<1>5. \A v \in Dvb : \A x \in Ext : Pair(v, x) => Pair(v, x)'
  BY <1>1, <1>2 DEF Pair, Apart
<1>6. \A v \in Dvb : Linked(v)' /\ flg[v] \in {"A", "I"} => use'[v] = an[v] /\ an[v] # v
  BY <1>0, <1>1 DEF DvbUseInv, Linked
<1>7. DelInv' /\ FreshInv' /\ ExtUseInv' /\ ChangedInv' /\ LateEmpty'
  BY <1>0, <1>1 DEF DelInv, FreshInv, ExtUseInv, ChangedInv, LateEmpty
<1>8. DvbUseInv'
  <2> SUFFICES ASSUME NEW v \in Dvb
               PROVE  /\ use'[v] \in Ext \cup {v}
                      /\ flg[v] = "L" => Linked(v)' \/ Ended(v)'
                      /\ Linked(v)' => flg[v] \in {"L", "D", "A", "I"}
    BY <1>1 DEF DvbUseInv
  <2>1. CASE use'[v] = use[v]
    BY <1>0, <1>1, <1>2, <2>1 DEF DvbUseInv, Linked
  <2>2. CASE use'[v] # use[v]
    BY <1>1, <1>3, <1>4, <2>2 DEF Pair
  <2> QED BY <2>1, <2>2
<1>9. PairInv'
  BY <1>1, <1>3, <1>5, <1>6 DEF PairInv, Pair
<1>10. LinkInv'
  BY <1>0, <1>1, <1>2, <1>4 DEF LinkInv, Linked, Apart
<1>11. TargetInv'
  BY <1>0, <1>1, <1>2, <1>4 DEF TargetInv, Shows
<1>12. PlacedInv'
  BY <1>1 DEF PlacedInv
<1> QED BY <1>7, <1>8, <1>9, <1>10, <1>11, <1>12 DEF RowInv, MergeInv

(* "update useid on ext events": what a DVB event links becomes a target. *)
LEMMA LinkExtStep ==
  ASSUME LinksInv, LinkExt
  PROVE  RowInv' /\ MergeInv'
<1> USE Constants, FlagSets
<1> DEFINE targets == {x \in Ext : flg[x] \in Unmerged /\ Linkers(x) # {}}
           changed == {x \in targets : flg[x] \in {"I", "R"}}
<1>0. /\ TypeOK /\ DvbFlags /\ DelInv /\ DvbUseInv /\ FreshInv /\ ExtUseInv /\ ChangedInv
      /\ LateEmpty /\ PairInv /\ LinkInv /\ TargetInv
  BY DEF LinksInv, RowInv, MergeInv
<1>1. /\ pc = "ext" /\ pc' = "others"
      /\ UNCHANGED <<fresh, del, start, mergesp, uflg, now>>
      /\ late' = late /\ dirty' = dirty \cup changed
  BY DEF LinkExt, Touch, uevars
<1>2. /\ \A v \in Dvb : flg'[v] = flg[v] /\ use'[v] = use[v]
      /\ \A x \in targets : flg'[x] = (IF x \in changed THEN "C" ELSE "T")
      /\ \A x \in Ext \ targets : flg'[x] = flg[x]
      /\ \A x \in Ext \ changed : use'[x] = use[x]
      /\ \A x \in changed : use'[x] \in Linkers(x)
  BY DEF LinkExt
<1>3. \A e \in Events : Ended(e)' <=> Ended(e)
  BY <1>1 DEF Ended
<1>4. \A v \in Dvb : \A x \in Ext : Pair(v, x) => Pair(v, x)'
  BY <1>1, <1>2, <1>3 DEF Pair, Apart
<1>5. \A x \in Ext : flg[x] \in Target => flg'[x] = flg[x] /\ x \notin targets
  BY <1>2
<1>6. DelInv' /\ DvbUseInv' /\ FreshInv' /\ LateEmpty'
  BY <1>0, <1>1, <1>2, <1>3 DEF DelInv, DvbUseInv, FreshInv, Linked, LateEmpty
<1>7. ExtUseInv'
  BY <1>0, <1>2 DEF ExtUseInv
<1>8. ChangedInv'
  <2>1. \A x \in changed : Live(use[x])'
    BY <1>2 DEF Linkers, Live
  <2> QED BY <1>0, <1>1, <1>2, <2>1 DEF ChangedInv
<1>9. PairInv'
  <2>1. ASSUME NEW v \in Dvb, Linked(v), flg[v] \in {"A", "I"}
        PROVE  Pair(v, use[v])' /\ flg'[use[v]] \in Target
    <3>1. Pair(v, use[v]) /\ flg[use[v]] \in Unmerged /\ use[v] \in Ext
      BY <1>0, <1>1, <2>1 DEF PairInv, Pair
    <3>2. use[v] \in targets
      BY <2>1, <3>1 DEF Linkers, Live
    <3>3. Pair(v, use[v])'
      BY <1>1, <1>2, <1>3, <3>1 DEF Pair, Apart
    <3> QED BY <1>2, <3>2, <3>3
  <2> QED BY <1>1, <1>2, <2>1 DEF PairInv, Linked
<1>10. LinkInv'
  <2>1. \A v \in Dvb : flg[v] = "L" /\ ~Ended(v) => use[v] \in Ext
    BY <1>0, <1>1 DEF DvbUseInv, Linked
  <2> QED BY <1>0, <1>1, <1>2, <1>3, <1>5, <2>1 DEF LinkInv, Linked, Apart
<1>11. TargetInv'
  <2>1. ASSUME NEW x \in Ext, x \in targets
        PROVE  \E v \in Dvb : use'[v] = x /\ Shows(v)'
    <3>1. PICK v \in Dvb : Live(v) /\ use[v] = x
      BY <2>1 DEF Linkers
    <3>2. flg[v] \in {"A", "L", "I"} \/ Ended(v)
      BY <1>0, <1>1, <2>1, <3>1 DEF DvbFlags, Live, LinkInv, Linked
    <3> QED BY <1>1, <1>2, <1>3, <3>1, <3>2 DEF Shows
  <2>2. ASSUME NEW x \in Ext, x \notin targets, flg[x] \in Target, ~Ended(x)
        PROVE  \E v \in Dvb : use'[v] = x /\ Shows(v)'
    BY <1>0, <1>1, <1>2, <1>3, <2>2 DEF TargetInv, Shows
  <2> QED BY <1>2, <1>3, <2>1, <2>2 DEF TargetInv
<1>12. PlacedInv'
  BY <1>1 DEF PlacedInv
<1> QED BY <1>6, <1>7, <1>8, <1>9, <1>10, <1>11, <1>12 DEF RowInv, MergeInv

(* "update all other relevant updflg": linked events are shown as links. *)
LEMMA UpdateOthersStep ==
  ASSUME LinksInv, UpdateOthers
  PROVE  RowInv' /\ MergeInv'
<1> USE Constants, FlagSets
<1>0. /\ TypeOK /\ DvbFlags /\ DelInv /\ DvbUseInv /\ FreshInv /\ ExtUseInv /\ ChangedInv
      /\ LateEmpty /\ PairInv /\ LinkInv /\ TargetInv
  BY DEF LinksInv, RowInv, MergeInv
<1>1. /\ pc = "others" /\ pc' = "reinit"
      /\ UNCHANGED <<use, fresh, del, start, mergesp, uflg, now>>
      /\ late' = late /\ dirty \subseteq dirty'
  BY DEF UpdateOthers, Touch, uevars
<1>2. /\ \A v \in Dvb : flg'[v] = IF v \in MergedDvb THEN (IF use[v] # v THEN "L" ELSE "A") ELSE flg[v]
      /\ \A x \in Ext : flg'[x] = IF x \in ReplacedExt THEN (IF flg[x] = "S" THEN "I" ELSE "R") ELSE flg[x]
  BY <1>0, <1>1 DEF UpdateOthers, OwnUse, FreshInv, MergedDvb, ReplacedExt
<1>3. \A e \in Events : Ended(e)' <=> Ended(e)
  BY <1>1 DEF Ended
<1>4. \A x \in Ext : flg[x] \in Target \cup {"C", None} \/ flg'[x] \in Target \cup {"C", None} => flg'[x] = flg[x]
  BY <1>2 DEF ReplacedExt
<1>5. \A v \in Dvb : Linked(v) /\ flg[v] \in {"A", "I"} =>
        /\ flg'[v] = "L" /\ use[v] \in Ext /\ flg[use[v]] \in Target /\ ~Apart(use[v], v, MatchTol)
  <2> SUFFICES ASSUME NEW v \in Dvb, Linked(v), flg[v] \in {"A", "I"}
               PROVE  flg'[v] = "L" /\ use[v] \in Ext /\ flg[use[v]] \in Target /\ ~Apart(use[v], v, MatchTol)
    OBVIOUS
  <2>1. /\ use[v] \in Ext /\ flg[use[v]] \in Target /\ ~Apart(use[v], v, MatchTol)
        /\ start[v] <= mergesp
    BY <1>0, <1>1 DEF PairInv, Pair
  <2>2. v \in MergedDvb
    BY <1>0, <2>1 DEF MergedDvb, BelowMergePoint, TypeOK
  <2> QED BY <1>2, <2>1, <2>2 DEF Linked
<1>6. \A v \in Dvb : /\ flg'[v] = "L" <=> flg[v] = "L" \/ (Linked(v) /\ flg[v] \in {"A", "I"})
                     /\ flg'[v] = "D" <=> flg[v] = "D"
                     /\ flg'[v] = None <=> flg[v] = None
  BY <1>2, <1>5 DEF MergedDvb, Linked
<1>7. DelInv' /\ FreshInv' /\ LateEmpty'
  BY <1>0, <1>1, <1>6 DEF DelInv, FreshInv, LateEmpty
<1>8. DvbUseInv'
  BY <1>0, <1>1, <1>3, <1>6 DEF DvbUseInv, Linked
<1>9. ExtUseInv'
  BY <1>0, <1>1, <1>4 DEF ExtUseInv
<1>10. ChangedInv'
  <2>1. \A e \in Events : Live(e) => Live(e)'
    BY <1>4, <1>6 DEF Live, Events
  <2>2. \A x \in Ext : use[x] \in Events
    BY <1>0 DEF TypeOK
  <2> QED BY <1>0, <1>1, <1>4, <2>1, <2>2 DEF ChangedInv, Live
<1>11. PairInv'
  BY <1>1, <1>8 DEF PairInv, DvbUseInv
<1>12. LinkInv'
  <2>1. \A v \in Dvb : use[v] \in Ext => start[use[v]] \in Nat /\ start[v] \in Nat
    BY <1>0 DEF TypeOK
  <2>2. \A v \in Dvb : use[v] \in Ext /\ ~Apart(use[v], v, MatchTol) => ~Apart(use[v], v, BreakTol)
    BY <2>1, TimesAssumption DEF Apart
  <2>3. \A v \in Dvb : Apart(use[v], v, BreakTol)' <=> Apart(use[v], v, BreakTol)
    BY <1>1 DEF Apart
  <2>4. ASSUME NEW v \in Dvb, flg'[v] = "L", ~Ended(v)
        PROVE  flg'[use[v]] \in Target /\ ~Apart(use[v], v, BreakTol)
    <3>1. use[v] \in Ext
      BY <1>1, <1>3, <1>8, <2>4 DEF DvbUseInv, Linked
    <3>2. CASE flg[v] = "L"
      BY <1>0, <1>1, <1>4, <2>4, <3>1, <3>2 DEF LinkInv
    <3>3. CASE Linked(v) /\ flg[v] \in {"A", "I"}
      BY <1>4, <1>5, <2>2, <3>1, <3>3
    <3> QED BY <1>6, <2>4, <3>2, <3>3
  <2>5. ASSUME NEW v \in Dvb, flg'[v] = "D", Linked(v) PROVE Ended(v)
    BY <1>0, <1>1, <1>6, <2>5 DEF LinkInv
  <2> QED BY <1>1, <1>3, <2>3, <2>4, <2>5 DEF LinkInv, Linked
<1>13. TargetInv'
  <2> SUFFICES ASSUME NEW x \in Ext, flg'[x] \in Target, ~Ended(x)
               PROVE  \E v \in Dvb : use[v] = x /\ (flg'[v] = "L" \/ Ended(v))
    BY <1>1, <1>3 DEF TargetInv, Shows
  <2>1. PICK v \in Dvb : use[v] = x /\ Shows(v)
    BY <1>0, <1>1, <1>4 DEF TargetInv
  <2>2. Linked(v) BY <2>1 DEF Linked
  <2> QED BY <1>6, <2>1, <2>2 DEF Shows
<1>14. PlacedInv'
  BY <1>1, <1>2 DEF PlacedInv, MergedDvb, BelowMergePoint
<1> QED BY <1>7, <1>8, <1>9, <1>10, <1>11, <1>12, <1>13, <1>14 DEF RowInv, MergeInv

(* "reinitialize prior removed dvb events": there are none. *)
LEMMA ReinitDvbStep ==
  ASSUME LinksInv, ReinitDvb
  PROVE  RowInv' /\ MergeInv'
<1> USE Constants, FlagSets
<1>0. /\ TypeOK /\ DvbFlags /\ DelInv /\ DvbUseInv /\ FreshInv /\ ExtUseInv /\ ChangedInv
      /\ LateEmpty /\ PairInv /\ LinkInv /\ TargetInv /\ PlacedInv
  BY DEF LinksInv, RowInv, MergeInv
<1>1. {v \in Dvb : flg[v] = "R" /\ BelowMergePoint(v)} = {}
  BY <1>0 DEF DvbFlags
<1>2. /\ pc = "reinit" /\ pc' = "useevents"
      /\ flg' = [e \in Events |-> flg[e]] /\ use' = [e \in Events |-> use[e]]
      /\ fresh' = fresh /\ dirty' = dirty /\ late' = late
      /\ UNCHANGED <<del, start, mergesp, uflg, now>>
  BY <1>1 DEF ReinitDvb, Touch, uevars
<1>3. flg' = flg /\ use' = use
  BY <1>0, <1>2 DEF TypeOK
<1>4. RowInv'
  BY <1>0, <1>2, <1>3 DEF RowInv, DelInv, DvbUseInv, FreshInv, Linked, Ended, ExtUseInv, ChangedInv, LateEmpty,
                          Live
<1>5. MergeInv'
  BY <1>0, <1>2, <1>3 DEF MergeInv, PairInv, LinkInv, TargetInv, PlacedInv, DvbUseInv, Linked, Shows,
                          Ended, Apart, BelowMergePoint
<1> QED BY <1>4, <1>5

(* The last three statements leave the rows of `events` as they are. *)
LEMMA PublishStep ==
  ASSUME LinksInv, UpdateUseevents \/ RemoveHidden \/ UpdateLastrun
  PROVE  RowInv' /\ MergeInv'
<1> USE Constants, FlagSets
<1>0. /\ TypeOK /\ DvbFlags /\ DelInv /\ DvbUseInv /\ FreshInv /\ ExtUseInv /\ ChangedInv
      /\ LateEmpty /\ PairInv /\ LinkInv /\ TargetInv /\ PlacedInv
  BY DEF LinksInv, RowInv, MergeInv
<1>1. /\ pc \in {"useevents", "hidden", "lastrun"} /\ pc' \in {"hidden", "lastrun", "idle"}
      /\ UNCHANGED <<flg, use, fresh, del, start, mergesp, now>> /\ late' = {}
  BY <1>0 DEF UpdateUseevents, RemoveHidden, UpdateLastrun, rows, LateEmpty
<1>2. DelInv' /\ DvbUseInv' /\ FreshInv' /\ ExtUseInv' /\ LateEmpty'
  BY <1>0, <1>1 DEF DelInv, DvbUseInv, FreshInv, Linked, Ended, ExtUseInv, LateEmpty
<1>3. \A x \in Ext : flg[x] = "C" => uflg'[x] \notin Visible
  <2>1. CASE UpdateUseevents
    BY <1>0, <2>1 DEF UpdateUseevents, ChangedInv, Copied, Copyable
  <2>2. CASE RemoveHidden
    BY <1>0, <2>2 DEF RemoveHidden, ChangedInv
  <2>3. CASE UpdateLastrun
    BY <1>0, <2>3 DEF UpdateLastrun, ChangedInv, uevars
  <2> QED BY <2>1, <2>2, <2>3
<1>4. ChangedInv'
  BY <1>1, <1>3 DEF ChangedInv
<1>5. MergeInv'
  BY <1>0, <1>1 DEF MergeInv, PairInv, LinkInv, TargetInv, PlacedInv, DvbUseInv, Linked, Shows, Ended,
                    Apart, BelowMergePoint
<1> QED BY <1>2, <1>4, <1>5 DEF RowInv

-----------------------------------------------------------------------------
LEMMA LinksStep ==
  ASSUME LinksInv, [Next]_vars, Undisturbed
  PROVE  LinksInv'
<1>0. TypeOK /\ DvbFlags /\ RowInv /\ MergeInv
  BY DEF LinksInv
<1>1. TypeOK' /\ DvbFlags'
  BY <1>0, TypeStep, DvbFlagsStep
<1> SUFFICES RowInv' /\ MergeInv'
  BY <1>1 DEF LinksInv
<1>2. CASE Writers
  BY <1>2, WriterStep, IdleMergeInv DEF RowInv
<1>3. CASE CleanupEvents \/ CleanupUseevents
  BY <1>3, CleanupLinks, IdleMergeInv DEF RowInv
<1>4. CASE StartMerge
  BY <1>4, StartMergeStep
<1>5. CASE MergeStep
  BY <1>5, CleanLinksStep, CleanTargetsStep, AnalysePairs, UpdateMergespStep, LinkDvbStep, LinkExtStep,
     UpdateOthersStep, ReinitDvbStep, PublishStep
     DEF MergeStep
<1>6. ~Interrupt
  BY <1>0, Constants DEF Interrupt, Undisturbed, TypeOK
<1>7. CASE Tick
  <2>1. RowInv'
    BY <1>0, <1>7 DEF Tick, Between, rows, uevars, RowInv, DelInv, DvbUseInv, FreshInv, Linked, ExtUseInv,
                      ChangedInv, LateEmpty, Live
  <2> QED BY <1>7, <2>1, IdleMergeInv DEF Tick, Between, RowInv
<1>8. CASE UNCHANGED vars
  BY <1>0, <1>8 DEF vars, rows, uevars, RowInv, DelInv, DvbUseInv, FreshInv, Linked, ExtUseInv, ChangedInv,
                    LateEmpty, Live, MergeInv, PairInv, Pair, LinkInv, TargetInv, PlacedInv, Shows, Ended, Apart,
                    BelowMergePoint
<1> QED
  BY <1>2, <1>3, <1>4, <1>5, <1>6, <1>7, <1>8 DEF Next, Writers

(* The rows, links and targets are always as the invariant says. *)
LEMMA LinksAlways == ASSUME Undisturbed PROVE Spec => [](LinksInv /\ IInv)
<1>1. Init => LinksInv BY LinksInit
<1>2. LinksInv /\ [Next]_vars => LinksInv' BY LinksStep
<1>3. Init => IInv BY InvInit
<1>4. IInv /\ [Next]_vars => IInv' BY InvStep
<1> QED BY <1>1, <1>2, <1>3, <1>4, PTL DEF Spec

(* When a merge has done its work, an event shown with other data is linked *)
(* to an external event that is marked as a target and close to it, and an  *)
(* event without a link goes by its own id.                                 *)
THEOREM LinksAreSound == ASSUME Undisturbed PROVE Spec => []LinksSound
<1>1. LinksInv => LinksSound
  <2> SUFFICES ASSUME LinksInv, pc = "lastrun", NEW v \in Dvb
               PROVE  /\ flg[v] = "L" /\ ~Ended(v) =>
                           use[v] \in Ext /\ flg[use[v]] \in Target /\ ~Apart(use[v], v, BreakTol)
                      /\ flg[v] = "A" => use[v] = v
    BY FlagSets DEF LinksSound, Merged
  <2>1. DvbUseInv /\ LinkInv
    BY DEF LinksInv, RowInv, MergeInv
  <2> QED BY <2>1 DEF DvbUseInv, LinkInv, Linked, Between
<1> QED BY <1>1, LinksAlways, PTL

(* An external event is hidden as a target only while a DVB event shows it: *)
(* no programme disappears with the link that replaced it.                  *)
THEOREM TargetsAreLinked == ASSUME Undisturbed PROVE Spec => []TargetsLinked
<1>1. LinksInv => TargetsLinked
  <2> SUFFICES ASSUME LinksInv, pc = "lastrun", NEW x \in Ext, flg[x] \in Target, ~Ended(x)
               PROVE  \E v \in Dvb : use[v] = x /\ (flg[v] = "L" \/ Ended(v))
    BY FlagSets DEF TargetsLinked, Merged
  <2> QED BY DEF LinksInv, MergeInv, TargetInv, Shows, Between
<1> QED BY <1>1, LinksAlways, PTL

(* At the end of a merge every row of useevents is the copy of its event, or *)
(* goes by the id of a row that was dropped.                                *)
LEMMA MirroredAtEnd ==
  ASSUME LinksInv, IInv, pc = "lastrun", NEW e \in Events
  PROVE  /\ flg[e] \in Needed /\ Live(use[e]) => uflg[e] = flg[e] /\ uuse[e] = use[e]
         /\ flg[e] \in Hidden => uflg[e] = None
<1>1. late = {} /\ MirrorInv /\ HiddenInv
  BY DEF LinksInv, RowInv, LateEmpty, IInv
<1> QED BY <1>1 DEF MirrorInv, HiddenInv, Unsaved, Copying, Mirrored, Pending

(* A DVB event up to the merge point is an EPG entry of its own or shown    *)
(* with the data of its target, whatever the external events do.            *)
THEOREM DvbArePlaced == ASSUME Undisturbed PROVE Spec => []DvbPlaced
<1>1. LinksInv /\ IInv => DvbPlaced
  <2> SUFFICES ASSUME LinksInv, IInv, pc = "lastrun", NEW v \in Dvb, Placeable(v)
               PROVE  /\ flg[v] \in Visible
                      /\ uflg[v] \in Visible \/ (Ended(v) /\ ~Live(use[v]))
    BY DEF DvbPlaced, Merged
  <2> USE Constants, FlagSets
  <2>1. DvbFlags /\ DelInv /\ DvbUseInv /\ LinkInv /\ PlacedInv
    BY DEF LinksInv, RowInv, MergeInv
  <2>2. flg[v] \in Visible
    BY <2>1 DEF DvbFlags, DelInv, PlacedInv, Placeable, Live
  <2>3. Live(use[v]) => uflg[v] = flg[v]
    BY <2>2, MirroredAtEnd
  <2>4. ~Live(use[v]) => Ended(v)
    BY <2>1, <2>2 DEF DvbUseInv, LinkInv, Linked, Placeable, Live
  <2> QED BY <2>2, <2>3, <2>4
<1> QED BY <1>1, LinksAlways, PTL

(* The row an entry of useevents that is not over was copied from. *)
LEMMA VisibleAtEnd ==
  ASSUME LinksInv, IInv, pc = "lastrun", NEW e \in Events, uflg[e] \in Visible, Scheduled(e)
  PROVE  Live(use[e]) /\ uflg[e] = flg[e] /\ uuse[e] = use[e]
<1> USE Constants, FlagSets
<1>1. DvbUseInv /\ ExtUseInv /\ ChangedInv /\ LinkInv
  BY DEF LinksInv, RowInv, MergeInv
<1>2. flg[e] \in Needed
  <2>1. flg[e] \in Flags BY DEF IInv, TypeOK, Scheduled, Live
  <2>2. flg[e] \notin Hidden BY MirroredAtEnd
  <2> QED BY <2>1, <2>2 DEF Flags
<1>3. Live(use[e])
  <2>1. CASE e \in Dvb
    BY <1>1, <2>1 DEF DvbUseInv, LinkInv, Linked, Live, Scheduled
  <2>2. CASE e \in Ext
    BY <1>1, <2>2 DEF ExtUseInv, ChangedInv, Live, Scheduled
  <2> QED BY <2>1, <2>2 DEF Events
<1> QED BY <1>2, <1>3, MirroredAtEnd

(* The id a visible entry goes by names an event, so that a timer set on it *)
(* can be found again in `events`.                                          *)
THEOREM IdsAreKnown == ASSUME Undisturbed PROVE Spec => []IdKnown
<1>1. LinksInv /\ IInv => IdKnown
  BY VisibleAtEnd DEF IdKnown, Merged
<1> QED BY <1>1, LinksAlways, PTL

(* A programme is not listed twice, by the DVB event and by its target. *)
THEOREM ProgrammesAreOnce == ASSUME Undisturbed PROVE Spec => []ProgrammeOnce
<1>1. LinksInv /\ IInv => ProgrammeOnce
  <2> SUFFICES ASSUME LinksInv, IInv, pc = "lastrun", NEW v \in Dvb, uflg[v] = "L", Scheduled(v)
               PROVE  uflg[uuse[v]] \notin Visible
    BY DEF ProgrammeOnce, Merged
  <2> USE Constants, FlagSets
  <2>1. flg[v] = "L" /\ uuse[v] = use[v]
    BY VisibleAtEnd
  <2>2. use[v] \in Ext /\ flg[use[v]] \in Target
    BY <2>1 DEF LinksInv, RowInv, DvbUseInv, Linked, MergeInv, LinkInv, Scheduled
  <2>3. flg[use[v]] = "T" => uflg[use[v]] = None
    BY <2>2, MirroredAtEnd
  <2>4. flg[use[v]] = "C" => uflg[use[v]] \notin Visible
    BY <2>2 DEF LinksInv, RowInv, ChangedInv
  <2> QED BY <2>1, <2>2, <2>3, <2>4
<1> QED BY <1>1, LinksAlways, PTL

-----------------------------------------------------------------------------
(* Handlers that do not pause and merges that are cut off: no linked event  *)
(* leaves its target behind as something a merge may publish of its own.    *)

DvbUse ==
  \A v \in Dvb :
    /\ use[v] \in Ext \cup {v}
    /\ an[v] \in Ext \cup {v}
    /\ ~Live(v) => ~Linked(v)

ExtUnlinked == \A x \in Ext : flg[x] # "L"

Taken ==
  pc \in {"others", "reinit", "useevents", "hidden", "lastrun"} =>
    \A v \in Dvb : Linked(v) => flg[use[v]] \notin Unmerged

TakenInv == DvbUse /\ ExtUnlinked /\ Taken

LEMMA TakenInit == Init => TakenInv
BY Constants, FlagSets DEF Init, Self, TakenInv, DvbUse, ExtUnlinked, Taken, Linked

LEMMA TakenWriter ==
  ASSUME IInv, TakenInv, Writers
  PROVE  TakenInv'
<1> USE Constants, FlagSets
<1>0. TypeOK /\ DvbFlags /\ DvbUse /\ ExtUnlinked /\ Taken
  BY DEF IInv, TakenInv
<1>1. UNCHANGED <<an, pc>> BY <1>0, WritersStamp
<1>2. ASSUME NEW x \in Ext, NEW s \in Starts[x], ProviderInsert(x, s) \/ ProviderUpdate(x, s)
      PROVE  TakenInv'
  <2>1. \A v \in Dvb : flg'[v] = flg[v] /\ use'[v] = use[v]
    BY <1>0, <1>2 DEF ProviderInsert, ProviderUpdate, TypeOK
  <2>2. \A d \in Ext : flg'[d] # "L"
    BY <1>0, <1>2 DEF ProviderInsert, ProviderUpdate, NewFlag, ExtUnlinked, TypeOK
  <2>3. pc' = "idle" BY <1>2 DEF ProviderInsert, ProviderUpdate
  <2> QED BY <1>0, <1>1, <2>1, <2>2, <2>3 DEF TakenInv, DvbUse, ExtUnlinked, Taken, Linked, Live
<1>3. ASSUME NEW xs \in SUBSET Ext, MarkOldEvents(xs)
      PROVE  TakenInv'
  <2>1. \A v \in Dvb : flg'[v] = flg[v] /\ use'[v] = use[v]
    BY <1>3 DEF MarkOldEvents
  <2>2. \A d \in Ext : flg'[d] # "L"
    BY <1>0, <1>3 DEF MarkOldEvents, Deleted, ExtUnlinked
  <2>3. pc' = "idle" BY <1>3 DEF MarkOldEvents
  <2> QED BY <1>0, <1>1, <2>1, <2>2, <2>3 DEF TakenInv, DvbUse, ExtUnlinked, Taken, Linked, Live
<1>4. ASSUME NEW v \in Dvb, (\E s \in Starts[v] : DvbStore(v, s)) \/ DvbDelete(v)
      PROVE  TakenInv'
  <2>1. (\A e \in Events : e # v => flg'[e] = flg[e]) /\ use' = use
    BY <1>0, <1>4 DEF DvbStore, DvbDelete, TypeOK
  <2>2. flg'[v] # None
    BY <1>0, <1>4 DEF DvbStore, GetUpdFlg, DvbDelete, Deleted, TypeOK, Live
  <2>3. \A x \in Ext : flg'[x] = flg[x] BY <2>1
  <2>4. DvbUse' BY <1>0, <1>1, <2>1, <2>2 DEF DvbUse, Linked, Live
  <2>5. ExtUnlinked' /\ Taken'
    BY <1>0, <1>1, <2>1, <2>3 DEF DvbUse, ExtUnlinked, Taken, Linked
  <2> QED BY <2>4, <2>5 DEF TakenInv
<1> QED BY <1>2, <1>3, <1>4 DEF Writers

LEMMA TakenMerge ==
  ASSUME IInv, TakenInv, StartMerge \/ MergeStep
  PROVE  TakenInv'
<1> USE Constants, FlagSets
<1>0. TypeOK /\ DvbFlags /\ DvbUse /\ ExtUnlinked /\ Taken
  BY DEF IInv, TakenInv
<1>1. CASE StartMerge
  <2>1. /\ pc' = "links" /\ UNCHANGED <<flg, an>>
        /\ \A v \in Dvb : use'[v] = use[v] \/ use'[v] = v
    BY <1>1 DEF StartMerge
  <2> QED BY <1>0, <2>1 DEF TakenInv, DvbUse, ExtUnlinked, Taken, Linked, Live
<1>2. CASE CleanLinks
  <2>1. PICK unlike :
          /\ flg' = [e \in Events |-> IF e \notin BrokenLinks(unlike) THEN flg[e]
                                     ELSE IF e \in del THEN "D" ELSE "A"]
          /\ use' = [e \in Events |-> IF e \in BrokenLinks(unlike) THEN e ELSE use[e]]
    BY <1>2 DEF CleanLinks
  <2>2. /\ pc' = "targets" /\ an' = an
        /\ \A v \in Dvb : use'[v] = use[v] \/ use'[v] = v
        /\ \A v \in Dvb : Live(v)' <=> Live(v)
        /\ \A x \in Ext : flg'[x] = flg[x]
    BY <1>2, <2>1 DEF CleanLinks, BrokenLinks, Live
  <2> QED BY <1>0, <2>2 DEF TakenInv, DvbUse, ExtUnlinked, Taken, Linked
<1>3. CASE CleanTargets
  <2>1. \A v \in Dvb : v \notin BrokenTargets
    BY <1>0 DEF BrokenTargets, DvbFlags
  <2>2. /\ pc' = "snapshot" /\ an' = an
        /\ \A v \in Dvb : flg'[v] = flg[v] /\ use'[v] = use[v]
        /\ \A x \in Ext : flg'[x] = flg[x] \/ flg'[x] \in {"D", "R"}
    BY <1>3, <2>1, FlagValues DEF CleanTargets
  <2> QED BY <1>0, <2>2 DEF TakenInv, DvbUse, ExtUnlinked, Taken, Linked, Live
<1>4. CASE Analyse
  <2>1. \A v \in Dvb : an'[v] \in Ext \cup {v}
    BY <1>4 DEF Analyse, Analyses
  <2> QED BY <1>0, <1>4, <2>1 DEF Analyse, rows, TakenInv, DvbUse, ExtUnlinked, Taken, Linked, Live
<1>5. CASE UpdateMergesp \/ UpdateUseevents \/ RemoveHidden \/ UpdateLastrun
  <2>1. UNCHANGED <<flg, use, an>>
    BY <1>5 DEF UpdateMergesp, UpdateUseevents, RemoveHidden, UpdateLastrun, rows
  <2>2. pc' \in {"hidden", "lastrun"} => pc \in {"useevents", "hidden"}
    BY <1>5 DEF UpdateMergesp, UpdateUseevents, RemoveHidden, UpdateLastrun
  <2>3. pc' \in {"dvb", "hidden", "lastrun", "idle"}
    BY <1>5 DEF UpdateMergesp, UpdateUseevents, RemoveHidden, UpdateLastrun
  <2> QED BY <1>0, <2>1, <2>2, <2>3 DEF TakenInv, DvbUse, ExtUnlinked, Taken, Linked, Live
<1>6. CASE LinkDvb
  BY <1>0, <1>6 DEF LinkDvb, TakenInv, DvbUse, ExtUnlinked, Taken, Linked, Live
<1>7. CASE LinkExt
  <2>1. /\ pc' = "others" /\ an' = an
        /\ \A v \in Dvb : flg'[v] = flg[v] /\ use'[v] = use[v]
        /\ \A x \in Ext : IF flg[x] \in Unmerged /\ Linkers(x) # {}
                          THEN flg'[x] \in {"C", "T"} ELSE flg'[x] = flg[x]
    BY <1>7 DEF LinkExt
  <2>2. ASSUME NEW v \in Dvb, Linked(v) PROVE flg'[use[v]] \notin Unmerged
    <3>1. use[v] \in Ext /\ v \in Linkers(use[v])
      BY <1>0, <2>2 DEF DvbUse, Linked, Linkers
    <3> QED BY <2>1, <3>1
  <2> QED BY <1>0, <2>1, <2>2 DEF TakenInv, DvbUse, ExtUnlinked, Taken, Linked, Live
<1>8. CASE UpdateOthers
  <2>1. /\ pc = "others" /\ UNCHANGED <<an, use>>
        /\ \A v \in Dvb : Live(v)' <=> Live(v)
        /\ \A x \in Ext : flg'[x] = IF x \in ReplacedExt THEN (IF flg[x] = "S" THEN "I" ELSE "R") ELSE flg[x]
    BY <1>8 DEF UpdateOthers, MergedDvb, ReplacedExt, Live
  <2>2. \A x \in Ext : (flg'[x] \in Unmerged => flg[x] \in Unmerged) /\ flg'[x] # "L"
    BY <1>0, <2>1 DEF ReplacedExt, ExtUnlinked
  <2>3. \A v \in Dvb : Linked(v) => use[v] \in Ext
    BY <1>0 DEF DvbUse, Linked
  <2>4. DvbUse'
    BY <1>0, <2>1 DEF DvbUse, Linked
  <2> QED BY <1>0, <2>1, <2>2, <2>3, <2>4 DEF TakenInv, ExtUnlinked, Taken, Linked
<1>9. CASE ReinitDvb
  <2>1. {v \in Dvb : flg[v] = "R" /\ BelowMergePoint(v)} = {}
    BY <1>0 DEF DvbFlags
  <2>2. pc = "reinit" /\ an' = an /\ flg' = [e \in Events |-> flg[e]] /\ use' = [e \in Events |-> use[e]]
    BY <1>9, <2>1 DEF ReinitDvb
  <2>3. flg' = flg /\ use' = use BY <1>0, <2>2 DEF TypeOK
  <2> QED BY <1>0, <2>2, <2>3 DEF TakenInv, DvbUse, ExtUnlinked, Taken, Linked, Live
<1> QED BY <1>1, <1>2, <1>3, <1>4, <1>5, <1>6, <1>7, <1>8, <1>9 DEF MergeStep

LEMMA TakenStep ==
  ASSUME IInv, TakenInv, [Next]_vars
  PROVE  TakenInv'
<1> USE Constants, FlagSets
<1>0. TypeOK /\ DvbUse /\ ExtUnlinked /\ Taken
  BY DEF IInv, TakenInv
<1>1. CASE CleanupEvents
  <2>1. \A v \in Dvb : \/ flg'[v] = flg[v] /\ use'[v] = use[v]
                       \/ flg'[v] = None /\ use'[v] = v
    BY <1>1 DEF CleanupEvents
  <2>2. \A x \in Ext : flg'[x] = flg[x] \/ flg'[x] = None
    BY <1>1 DEF CleanupEvents
  <2>3. pc' = "cleanup" /\ an' = an BY <1>1 DEF CleanupEvents
  <2> QED BY <1>0, <2>1, <2>2, <2>3 DEF TakenInv, DvbUse, ExtUnlinked, Taken, Linked, Live
<1>2. CASE CleanupUseevents
  BY <1>0, <1>2 DEF CleanupUseevents, rows, TakenInv, DvbUse, ExtUnlinked, Taken, Linked, Live
<1>3. CASE Interrupt
  BY <1>0, <1>3 DEF Interrupt, rows, TakenInv, DvbUse, ExtUnlinked, Taken, Linked, Live
<1>4. CASE Tick
  BY <1>0, <1>4 DEF Tick, rows, TakenInv, DvbUse, ExtUnlinked, Taken, Linked, Live
<1>5. CASE UNCHANGED vars
  BY <1>0, <1>5 DEF vars, rows, TakenInv, DvbUse, ExtUnlinked, Taken, Linked, Live
<1> QED BY <1>1, <1>2, <1>3, <1>4, <1>5, TakenWriter, TakenMerge DEF Next, Writers

(* Whatever the handlers write while a merge runs, and wherever a merge is  *)
(* cut off: of a DVB event and its target, both as the copy found them, the *)
(* next complete merge lists only one.                                      *)
THEOREM SettledAreOnce == Spec => []SettledOnce
<1>1. IInv /\ TakenInv => SettledOnce
  <2> SUFFICES ASSUME IInv, TakenInv, pc = "lastrun",
                      NEW v \in Dvb, uflg[v] = "L", uuse[v] # v, Settled(v), Settled(uuse[v])
               PROVE  uflg[uuse[v]] \notin Visible
    BY DEF SettledOnce, Merged
  <2> USE Constants, FlagSets
  <2>1. TypeOK /\ MirrorInv /\ HiddenInv /\ DvbUse /\ ExtUnlinked /\ Taken
    BY DEF IInv, TakenInv
  <2>2. \A e \in Events : Settled(e) =>
          /\ flg[e] \in Hidden => uflg[e] = None
          /\ flg[e] \in Needed => uflg[e] = flg[e] /\ uuse[e] = use[e]
    BY <2>1 DEF MirrorInv, HiddenInv, Unsaved, Copying, Mirrored, Pending, Settled
  <2>3. flg[v] \in Flags BY <2>1 DEF TypeOK, Settled, Live
  <2>4. flg[v] = "L" /\ uuse[v] = use[v] BY <2>2, <2>3 DEF Flags
  <2>5. use[v] \in Ext /\ flg[use[v]] \notin Unmerged /\ flg[use[v]] # "L"
    BY <2>1, <2>4 DEF DvbUse, Taken, ExtUnlinked, Linked
  <2>6. flg[use[v]] \in Flags BY <2>1, <2>4, <2>5 DEF TypeOK, Settled, Live
  <2> QED BY <2>2, <2>4, <2>5, <2>6 DEF Flags
<1>2. Init => IInv /\ TakenInv BY InvInit, TakenInit
<1>3. IInv /\ TakenInv /\ [Next]_vars => (IInv /\ TakenInv)' BY InvStep, TakenStep
<1> QED BY <1>1, <1>2, <1>3, PTL DEF Spec

-----------------------------------------------------------------------------
(* External ids that go away, in merges nobody disturbs.  masterid, by      *)
(* which useid names a row, is numbered by the database, so a row stored    *)
(* anew has an id no other row goes by.  The model takes ids of dropped     *)
(* rows again; these theorems are about the behaviours in which it does so  *)
(* only when no link and no visible entry is left of them.                  *)
NewIdsUnused ==
  \A e \in Events : ~Live(e) /\ Live(e)' =>
    \A d \in Events : /\ d # e => use[d] # e
                      /\ uflg[d] \in Visible => d # e /\ uuse[d] # e

(* What an event flagged as a link goes by is a target. *)
LinkTargetInv ==
  \A v \in Dvb : flg[v] = "L" /\ Linked(v) /\ Live(use[v]) => flg[use[v]] \in Target

Lists(e, x) == uflg[e] \in Visible /\ uuse[e] = x

(* An id that is listed although its row was dropped is that of an event that is over. *)
DroppedInv == \A e \in Events : \A x \in Ext : Lists(e, x) /\ ~Live(x) => Ended(x)

(* A DVB event listed by the id x is linked to x, unless the running merge *)
(* has undone the link; what becomes of x then is signalled.               *)
StillLinked(v, x) == use[v] = x /\ flg[x] \in Target

Unlinking(v, x) ==
  /\ flg[v] # "I"
  /\ flg[x] \in Target \cup {"R", "D"}
  /\ use[v] \in {x, v} \/ Live(use[v])

ListedInv ==
  \A v \in Dvb : \A x \in Ext : Lists(v, x) /\ Live(v) /\ Live(x) =>
    IF pc \in Between \cup {"hidden", "lastrun"} THEN StillLinked(v, x) ELSE Unlinking(v, x)

(* An external event is listed by its own id. *)
OwnIdInv == \A x \in Ext : uflg[x] \in Visible => uuse[x] = x

SignalInv == LinkTargetInv /\ DroppedInv /\ OwnIdInv /\ ListedInv

LEMMA SignalInit == Init => SignalInv
BY Constants, FlagSets
   DEF Init, SignalInv, LinkTargetInv, DroppedInv, OwnIdInv, ListedInv, Lists

(* What writing between merges leaves as it is. *)
LEMMA WriterKeeps ==
  ASSUME LinksInv, TakenInv, Undisturbed, Writers
  PROVE  /\ pc = "idle" /\ UNCHANGED <<pc, uflg, uuse, now>>
         /\ \A v \in Dvb : use'[v] = use[v] /\ (flg'[v] = "L" /\ Linked(v) => flg[v] = "L")
         /\ \A e \in Events : Live(e) => Live(e)'
         /\ \A x \in Ext : /\ flg[x] \in Target => flg'[x] = flg[x]
                           /\ ~Live(x)' => start'[x] = start[x]
<1> USE Constants, FlagSets
<1>0. TypeOK /\ DvbFlags /\ DelInv /\ DvbUse
  BY DEF LinksInv, RowInv, TakenInv
<1>1. UNCHANGED <<pc, uflg, uuse>> BY <1>0, WritersStamp
<1>2. ASSUME NEW x \in Ext, NEW s \in Starts[x], ProviderInsert(x, s) \/ ProviderUpdate(x, s)
      PROVE  /\ pc = "idle" /\ UNCHANGED now
             /\ \A v \in Dvb : use'[v] = use[v] /\ flg'[v] = flg[v]
             /\ \A e \in Events : Live(e) => Live(e)'
             /\ \A d \in Ext : /\ flg[d] \in Target => flg'[d] = flg[d]
                               /\ ~Live(d)' => start'[d] = start[d]
  BY <1>0, <1>2 DEF ProviderInsert, ProviderUpdate, NewFlag, TypeOK, Live
<1>3. ASSUME NEW xs \in SUBSET Ext, MarkOldEvents(xs)
      PROVE  /\ pc = "idle" /\ UNCHANGED now
             /\ \A v \in Dvb : use'[v] = use[v] /\ flg'[v] = flg[v]
             /\ \A e \in Events : Live(e) => Live(e)'
             /\ \A d \in Ext : /\ flg[d] \in Target => flg'[d] = flg[d]
                               /\ ~Live(d)' => start'[d] = start[d]
  BY <1>0, <1>3 DEF MarkOldEvents, Deleted, TypeOK, Live
<1>4. ASSUME NEW v \in Dvb, (\E s \in Starts[v] : DvbStore(v, s)) \/ DvbDelete(v)
      PROVE  /\ pc = "idle" /\ UNCHANGED now
             /\ \A w \in Dvb : use'[w] = use[w] /\ (flg'[w] = "L" /\ Linked(w) => flg[w] = "L")
             /\ \A e \in Events : Live(e) => Live(e)'
             /\ \A d \in Ext : /\ flg[d] \in Target => flg'[d] = flg[d]
                               /\ ~Live(d)' => start'[d] = start[d]
  <2>1. pc = "idle" /\ UNCHANGED <<now, use>>
    BY <1>4 DEF DvbStore, DvbDelete, HandlerRuns, Undisturbed
  <2>2. \A e \in Events : e # v => flg'[e] = flg[e] /\ start'[e] = start[e]
    BY <1>0, <1>4 DEF DvbStore, DvbDelete, TypeOK
  <2>3. flg'[v] # None /\ (flg'[v] = "L" /\ Linked(v) => flg[v] = "L")
    <3>1. ASSUME NEW s \in Starts[v], DvbStore(v, s)
          PROVE  flg'[v] # None /\ (flg'[v] = "L" /\ Linked(v) => flg[v] = "L")
      <4>1. flg' = [flg EXCEPT ![v] = IF ~Live(v) \/ v \in del
                                      THEN GetUpdFlg(v, s, use[v] = v /\ v \notin fresh') ELSE @]
        BY <3>1 DEF DvbStore
      <4>2. v \in del => use[v] = v BY <3>1, Zenon DEF DvbStore, Undisturbed
      <4>3. ~Live(v) => use[v] = v BY <1>0 DEF DvbUse, Linked
      <4> QED BY <1>0, <4>1, <4>2, <4>3 DEF GetUpdFlg, TypeOK, Live, Linked
    <3>2. CASE DvbDelete(v)
      BY <1>0, <3>2 DEF DvbDelete, Deleted, TypeOK, Live
    <3> QED BY <1>4, <3>1, <3>2
  <2> QED BY <2>1, <2>2, <2>3 DEF Live
<1> QED BY <1>1, <1>2, <1>3, <1>4 DEF Writers

LEMMA SignalWriter ==
  ASSUME LinksInv, TakenInv, SignalInv, Undisturbed, Writers, NewIdsUnused
  PROVE  SignalInv'
<1> USE Constants, FlagSets
<1>0. DvbUseInv /\ LinkTargetInv /\ DroppedInv /\ OwnIdInv /\ ListedInv
  BY DEF LinksInv, RowInv, SignalInv
<1>1. /\ pc = "idle" /\ UNCHANGED <<pc, uflg, uuse, now>>
      /\ \A v \in Dvb : use'[v] = use[v] /\ (flg'[v] = "L" /\ Linked(v) => flg[v] = "L")
      /\ \A e \in Events : Live(e) => Live(e)'
      /\ \A x \in Ext : /\ flg[x] \in Target => flg'[x] = flg[x]
                        /\ ~Live(x)' => start'[x] = start[x]
  BY WriterKeeps
<1>2. \A v \in Dvb : flg[v] = "L" /\ Linked(v) => use[v] \in Ext /\ use[v] # v
  BY <1>0 DEF DvbUseInv, Linked
<1>3. \A v \in Dvb : flg[v] = "L" /\ Linked(v) /\ Live(use[v])' => Live(use[v])
  BY <1>1, <1>2 DEF NewIdsUnused, Live
<1>4. LinkTargetInv'
  BY <1>0, <1>1, <1>2, <1>3 DEF LinkTargetInv, Linked, Live
<1>5. DroppedInv'
  BY <1>0, <1>1 DEF DroppedInv, Lists, Ended
<1>6. ASSUME NEW v \in Dvb, NEW x \in Ext, Lists(v, x), Live(v)', Live(x)'
      PROVE  StillLinked(v, x)'
  <2>1. Live(v) /\ Live(x)
    BY <1>6 DEF NewIdsUnused, Lists
  <2>2. StillLinked(v, x)
    BY <1>0, <1>1, <1>6, <2>1 DEF ListedInv
  <2> QED BY <1>1, <2>2 DEF StillLinked
<1>7. ListedInv'
  BY <1>1, <1>6 DEF ListedInv, Lists
<1>8. OwnIdInv'
  BY <1>0, <1>1 DEF OwnIdInv
<1> QED BY <1>4, <1>5, <1>7, <1>8 DEF SignalInv

LEMMA SignalCleanup ==
  ASSUME LinksInv, SignalInv, CleanupEvents \/ CleanupUseevents
  PROVE  SignalInv'
<1> USE Constants, FlagSets
<1>0. TypeOK /\ DvbUseInv /\ LinkTargetInv /\ DroppedInv /\ OwnIdInv /\ ListedInv
  BY DEF LinksInv, RowInv, SignalInv
<1>1. /\ pc \in Between /\ pc' \in Between /\ UNCHANGED now
      /\ \A e \in Events :
           \/ flg'[e] = flg[e] /\ use'[e] = use[e] /\ start'[e] = start[e]
           \/ flg'[e] = None /\ start'[e] = 0 /\ start[e] + Dur + Keep < now
      /\ \A e \in Events : uflg'[e] \in Visible => uflg'[e] = uflg[e] /\ uuse'[e] = uuse[e]
  BY <1>0 DEF CleanupEvents, CleanupUseevents, OldEvents, TypeOK, rows, uevars
<1>2. LinkTargetInv'
  <2>1. \A v \in Dvb : Linked(v) => use[v] \in Ext BY <1>0 DEF DvbUseInv, Linked
  <2> QED BY <1>0, <1>1, <2>1 DEF LinkTargetInv, Linked, Live
<1>3. DroppedInv'
  <2> SUFFICES ASSUME NEW e \in Events, NEW x \in Ext, Lists(e, x)', ~Live(x)'
               PROVE  Ended(x)'
    BY DEF DroppedInv
  <2>1. Lists(e, x) BY <1>1 DEF Lists
  <2>2. start[x] \in Nat /\ now \in Nat /\ Dur \in Nat /\ Keep \in Nat
    BY <1>0, TimesAssumption DEF TypeOK
  <2> QED BY <1>0, <1>1, <2>1, <2>2 DEF DroppedInv, Live, Ended
<1>4. ListedInv'
  BY <1>0, <1>1 DEF ListedInv, Lists, Live, StillLinked
<1>5. OwnIdInv'
  BY <1>0, <1>1 DEF OwnIdInv
<1> QED BY <1>2, <1>3, <1>4, <1>5 DEF SignalInv

LEMMA SignalStartMerge ==
  ASSUME LinksInv, SignalInv, StartMerge
  PROVE  SignalInv'
<1> USE Constants, FlagSets
<1>0. DvbUseInv /\ LinkTargetInv /\ DroppedInv /\ OwnIdInv /\ ListedInv
  BY DEF LinksInv, RowInv, SignalInv
<1>1. /\ pc = "idle" /\ pc' = "links" /\ UNCHANGED <<flg, start, uflg, uuse, now>>
      /\ \A v \in Dvb : use'[v] = use[v] \/ use'[v] = v
  BY DEF StartMerge, uevars
<1>2. LinkTargetInv'
  BY <1>0, <1>1 DEF LinkTargetInv, Linked, Live
<1>3. DroppedInv'
  BY <1>0, <1>1 DEF DroppedInv, Lists, Live, Ended
<1>4. ASSUME NEW v \in Dvb, NEW x \in Ext, Lists(v, x), Live(v), Live(x)
      PROVE  Unlinking(v, x)'
  <2>1. use[v] = x /\ flg[x] \in Target
    BY <1>0, <1>1, <1>4 DEF ListedInv, StillLinked
  <2>2. flg[v] \in {"L", "D"}
    BY <1>0, <1>1, <2>1 DEF DvbUseInv, Linked
  <2> QED BY <1>1, <2>1, <2>2 DEF Unlinking
<1>5. ListedInv'
  BY <1>1, <1>4 DEF ListedInv, Lists, Live
<1>6. OwnIdInv'
  BY <1>0, <1>1 DEF OwnIdInv
<1> QED BY <1>2, <1>3, <1>5, <1>6 DEF SignalInv

(* The statements up to the copy: rows stay, a link that stays keeps its    *)
(* target, and what is a target or signalled remains one of the two.        *)
LEMMA LinkingStatements ==
  ASSUME LinksInv, SignalInv,
         \/ CleanLinks \/ CleanTargets \/ Analyse \/ UpdateMergesp
         \/ LinkDvb \/ LinkExt \/ UpdateOthers \/ ReinitDvb
  PROVE  /\ pc \notin Between \cup {"hidden", "lastrun"} /\ pc' \notin Between \cup {"hidden", "lastrun"}
         /\ UNCHANGED <<start, now, uflg, uuse>>
         /\ \A e \in Events : Live(e)' <=> Live(e)
         /\ \A v \in Dvb : flg'[v] = "I" => flg[v] = "I"
         /\ \A v \in Dvb : use'[v] = use[v] \/ Live(use'[v])
         /\ \A x \in Ext : flg[x] \in Target \cup {"R", "D"} => flg'[x] \in Target \cup {"R", "D"}
         /\ \A v \in Dvb : flg'[v] = "L" /\ Linked(v)' =>
              /\ use'[v] = use[v] /\ (flg[v] = "L" \/ flg[use[v]] \in Target)
              /\ flg[use[v]] \in Target => flg'[use[v]] \in Target
<1> USE Constants, FlagSets
<1>0. TypeOK /\ DvbFlags /\ DvbUseInv /\ FreshInv /\ PairInv
  BY DEF LinksInv, RowInv, MergeInv
<1>1. CASE CleanLinks
  <2>1. PICK unlike :
          /\ flg' = [e \in Events |-> IF e \notin BrokenLinks(unlike) THEN flg[e]
                                     ELSE IF e \in del THEN "D" ELSE "A"]
          /\ use' = [e \in Events |-> IF e \in BrokenLinks(unlike) THEN e ELSE use[e]]
    BY <1>1 DEF CleanLinks
  <2>2. \A x \in Ext : flg'[x] = flg[x]
    BY <2>1 DEF BrokenLinks
  <2>3. \A v \in Dvb : \/ flg'[v] = flg[v] /\ use'[v] = use[v]
                       \/ flg[v] = "L" /\ flg'[v] \in {"A", "D"} /\ use'[v] = v
    BY <2>1 DEF BrokenLinks
  <2>4. \A v \in Dvb : use[v] # v => use[v] \in Ext
    BY <1>0 DEF DvbUseInv
  <2>5. UNCHANGED <<start, now, uflg, uuse>> /\ pc = "links" /\ pc' = "targets"
    BY <1>1 DEF CleanLinks, uevars
  <2> QED BY <2>2, <2>3, <2>4, <2>5 DEF Live, Events, Linked
<1>2. CASE CleanTargets
  <2>1. \A v \in Dvb : flg'[v] = flg[v] /\ use'[v] = use[v]
    BY <1>0, <1>2 DEF CleanTargets, BrokenTargets, DvbFlags
  <2>2. \A x \in Ext : \/ flg'[x] = flg[x] /\ x \notin BrokenTargets
                       \/ flg[x] \in Target /\ flg'[x] \in {"D", "R"} /\ x \in BrokenTargets
    BY <1>2, FlagValues DEF CleanTargets, BrokenTargets
  <2>3. \A v \in Dvb : use[v] # v => use[v] \in Ext
    BY <1>0 DEF DvbUseInv
  <2>4. \A v \in Dvb : flg[v] = "L" /\ use[v] # v => use[v] \notin BrokenTargets
    BY DEF BrokenTargets
  <2>5. UNCHANGED <<start, now, uflg, uuse>> /\ pc = "targets" /\ pc' = "snapshot"
    BY <1>2 DEF CleanTargets, uevars
  <2> QED BY <2>1, <2>2, <2>3, <2>4, <2>5 DEF Live, Events, Linked
<1>3. CASE Analyse \/ UpdateMergesp
  BY <1>3 DEF Analyse, UpdateMergesp, rows, uevars, Live, Linked
<1>4. CASE LinkDvb
  <2>1. /\ pc = "dvb" /\ pc' = "ext" /\ UNCHANGED <<flg, start, now, uflg, uuse>>
        /\ \A v \in Dvb : use'[v] = IF Live(v) /\ an[v] # v THEN an[v] ELSE use[v]
    BY <1>4 DEF LinkDvb, uevars
  <2>2. \A v \in Dvb : an[v] # v => flg[v] \in {"A", "I"} /\ flg[an[v]] \in Unmerged
    BY <1>0, <2>1 DEF PairInv, Pair
  <2> QED BY <2>1, <2>2 DEF Live, Linked
<1>5. CASE LinkExt
  <2>1. /\ pc = "ext" /\ pc' = "others" /\ UNCHANGED <<start, now, uflg, uuse>>
        /\ \A v \in Dvb : flg'[v] = flg[v] /\ use'[v] = use[v]
        /\ \A x \in Ext : flg'[x] = flg[x] \/ (flg[x] \in Unmerged /\ flg'[x] \in Target)
    BY <1>5 DEF LinkExt, uevars
  <2>2. \A v \in Dvb : use[v] # v => use[v] \in Ext
    BY <1>0 DEF DvbUseInv
  <2> QED BY <2>1, <2>2 DEF Live, Events, Linked
<1>6. CASE UpdateOthers
  <2>1. /\ pc = "others" /\ pc' = "reinit" /\ UNCHANGED <<use, start, now, uflg, uuse>>
        /\ \A v \in Dvb : \/ flg'[v] = flg[v]
                          \/ /\ flg[v] \in {"A", "I"}
                             /\ flg'[v] = IF Linked(v) THEN "L" ELSE "A"
        /\ \A x \in Ext : flg'[x] = flg[x] \/ (flg[x] \in {"A", "S"} /\ flg'[x] \in {"I", "R"})
    BY <1>0, <1>6 DEF UpdateOthers, OwnUse, FreshInv, MergedDvb, ReplacedExt, Linked, uevars
  <2>2. \A v \in Dvb : flg'[v] = "L" => flg[v] = "L" \/ flg[use[v]] \in Target
    BY <1>0, <2>1 DEF PairInv
  <2>3. \A v \in Dvb : use[v] # v => use[v] \in Ext
    BY <1>0 DEF DvbUseInv
  <2> QED BY <2>1, <2>2, <2>3 DEF Live, Events, Linked
<1>7. CASE ReinitDvb
  <2>1. {v \in Dvb : flg[v] = "R" /\ BelowMergePoint(v)} = {}
    BY <1>0 DEF DvbFlags
  <2>2. /\ pc = "reinit" /\ pc' = "useevents" /\ UNCHANGED <<start, now, uflg, uuse>>
        /\ \A e \in Events : flg'[e] = flg[e] /\ use'[e] = use[e]
    BY <1>7, <2>1 DEF ReinitDvb, uevars
  <2>3. \A v \in Dvb : use[v] \in Events
    BY <1>0 DEF TypeOK
  <2> QED BY <2>2, <2>3 DEF Live, Linked
<1> QED BY <1>1, <1>2, <1>3, <1>4, <1>5, <1>6, <1>7

LEMMA SignalLinking ==
  ASSUME LinksInv, SignalInv,
         \/ CleanLinks \/ CleanTargets \/ Analyse \/ UpdateMergesp
         \/ LinkDvb \/ LinkExt \/ UpdateOthers \/ ReinitDvb
  PROVE  SignalInv'
<1> USE Constants, FlagSets
<1>0. /\ TypeOK /\ TypeOK' /\ DvbUseInv /\ DvbUseInv'
      /\ LinkTargetInv /\ DroppedInv /\ OwnIdInv /\ ListedInv
  BY CleanLinksStep, CleanTargetsStep, AnalysePairs, UpdateMergespStep, LinkDvbStep, LinkExtStep,
     UpdateOthersStep, ReinitDvbStep, TypeStep
     DEF LinksInv, RowInv, SignalInv, Next, MergeStep
<1>1. /\ pc \notin Between \cup {"hidden", "lastrun"} /\ pc' \notin Between \cup {"hidden", "lastrun"}
      /\ UNCHANGED <<start, now, uflg, uuse>>
      /\ \A e \in Events : Live(e)' <=> Live(e)
      /\ \A v \in Dvb : flg'[v] = "I" => flg[v] = "I"
      /\ \A v \in Dvb : use'[v] = use[v] \/ Live(use'[v])
      /\ \A x \in Ext : flg[x] \in Target \cup {"R", "D"} => flg'[x] \in Target \cup {"R", "D"}
      /\ \A v \in Dvb : flg'[v] = "L" /\ Linked(v)' =>
           /\ use'[v] = use[v] /\ (flg[v] = "L" \/ flg[use[v]] \in Target)
           /\ flg[use[v]] \in Target => flg'[use[v]] \in Target
  BY LinkingStatements
<1>2. LinkTargetInv'
  <2> SUFFICES ASSUME NEW v \in Dvb, flg'[v] = "L", Linked(v)', Live(use[v])'
               PROVE  flg'[use'[v]] \in Target
    BY DEF LinkTargetInv
  <2>1. use'[v] = use[v] /\ use[v] \in Ext BY <1>0, <1>1 DEF DvbUseInv, Linked
  <2>2. Live(use[v]) BY <1>1, <2>1 DEF Live
  <2> QED BY <1>0, <1>1, <2>1, <2>2 DEF LinkTargetInv, Linked
<1>3. DroppedInv'
  BY <1>0, <1>1 DEF DroppedInv, Lists, Ended
<1>4. ASSUME NEW v \in Dvb, NEW x \in Ext, Lists(v, x), Live(v), Live(x)
      PROVE  Unlinking(v, x)'
  <2>1. Unlinking(v, x) BY <1>0, <1>1, <1>4 DEF ListedInv
  <2>2. use[v] \in Events /\ use'[v] \in Events BY <1>0 DEF TypeOK
  <2>3. use'[v] \in {x, v} \/ Live(use[v])'
    BY <1>1, <2>1, <2>2 DEF Unlinking, Live
  <2> QED BY <1>1, <2>1, <2>3 DEF Unlinking
<1>5. ListedInv'
  BY <1>1, <1>4 DEF ListedInv, Lists
<1>6. OwnIdInv'
  BY <1>0, <1>1 DEF OwnIdInv
<1> QED BY <1>2, <1>3, <1>5, <1>6 DEF SignalInv

(* After the copy, rows whose link leads to a row are listed as they are. *)
LEMMA MirroredCopy ==
  ASSUME LinksInv, IInv, IInv', UpdateUseevents, NEW e \in Events,
         flg[e] \in Needed, Live(use[e])
  PROVE  uflg'[e] = flg[e] /\ uuse'[e] = use[e]
<1>1. UNCHANGED <<flg, use>> /\ pc' = "hidden" /\ late' = {}
  BY DEF UpdateUseevents, rows
<1>2. Mirrored(e)' \/ Pending(e)'
  BY <1>1 DEF IInv, MirrorInv, Unsaved, Copying, Live
<1> QED BY <1>1, <1>2 DEF Mirrored, Pending

LEMMA SignalPublish ==
  ASSUME LinksInv, IInv, IInv', SignalInv, UpdateUseevents \/ RemoveHidden \/ UpdateLastrun
  PROVE  SignalInv'
<1> USE Constants, FlagSets
<1>0. /\ TypeOK /\ DvbFlags /\ DvbUseInv /\ ExtUseInv
      /\ LinkTargetInv /\ DroppedInv /\ OwnIdInv /\ ListedInv
  BY DEF LinksInv, RowInv, SignalInv
<1>1. UNCHANGED <<flg, use, start, now>> /\ pc' \in {"hidden", "lastrun", "idle"}
  BY DEF UpdateUseevents, RemoveHidden, UpdateLastrun, rows
<1>2. LinkTargetInv'
  BY <1>0, <1>1 DEF LinkTargetInv, Linked, Live
<1>3. CASE UpdateUseevents
  <2>1. pc = "useevents" BY <1>3 DEF UpdateUseevents
  <2>2. \A e \in Events : \/ uflg'[e] = uflg[e] /\ uuse'[e] = uuse[e]
                          \/ uflg'[e] = flg[e] /\ uuse'[e] = use[e] /\ e \in Copyable
    BY <1>3 DEF UpdateUseevents, Copied
  <2>3. DroppedInv'
    BY <1>0, <1>1, <2>2 DEF DroppedInv, Lists, Live, Ended, Copyable
  <2>4. ASSUME NEW v \in Dvb, NEW x \in Ext, Lists(v, x)', Live(v), Live(x)
        PROVE  StillLinked(v, x)
    <3>1. flg[v] = "L" /\ use[v] = x
      <4>1. CASE uflg'[v] = flg[v] /\ uuse'[v] = use[v] /\ v \in Copyable
        BY <1>0, <2>1, <2>4, <4>1 DEF Lists, DvbUseInv, Linked, DvbFlags
      <4>2. CASE uflg'[v] = uflg[v] /\ uuse'[v] = uuse[v]
        <5>1. Unlinking(v, x)
          BY <1>0, <2>1, <2>4, <4>2 DEF ListedInv, Lists
        <5>2. flg[v] \in Needed BY <1>0, <2>4, <5>1 DEF DvbFlags, Unlinking, Live
        <5>3. Live(use[v]) BY <2>4, <5>1 DEF Unlinking
        <5>4. uflg'[v] = flg[v] /\ uuse'[v] = use[v]
          BY <1>3, <5>2, <5>3, MirroredCopy
        <5> QED BY <1>0, <2>1, <2>4, <5>4 DEF Lists, DvbUseInv, Linked
      <4> QED BY <2>2, <4>1, <4>2
    <3> QED BY <1>0, <2>4, <3>1 DEF LinkTargetInv, Linked, StillLinked
  <2>5. ListedInv'
    BY <1>1, <2>4 DEF ListedInv, Live, StillLinked
  <2>6. OwnIdInv'
    BY <1>0, <2>2 DEF OwnIdInv, ExtUseInv
  <2> QED BY <1>2, <2>3, <2>5, <2>6 DEF SignalInv
<1>4. CASE RemoveHidden \/ UpdateLastrun
  <2>1. /\ pc \in {"hidden", "lastrun"}
        /\ \A e \in Events : uflg'[e] \in Visible => uflg'[e] = uflg[e] /\ uuse'[e] = uuse[e]
    BY <1>4 DEF RemoveHidden, UpdateLastrun, uevars
  <2>2. DroppedInv'
    BY <1>0, <1>1, <2>1 DEF DroppedInv, Lists, Live, Ended
  <2>3. ListedInv'
    BY <1>0, <1>1, <2>1 DEF ListedInv, Lists, Live, StillLinked
  <2>4. OwnIdInv'
    BY <1>0, <2>1 DEF OwnIdInv
  <2> QED BY <1>2, <2>2, <2>3, <2>4 DEF SignalInv
<1> QED BY <1>3, <1>4

LEMMA SignalStep ==
  ASSUME LinksInv, IInv, TakenInv, SignalInv, [Next]_vars, Undisturbed, [NewIdsUnused]_vars
  PROVE  SignalInv'
<1>0. TypeOK /\ LinkTargetInv /\ DroppedInv /\ OwnIdInv /\ ListedInv /\ IInv'
  BY InvStep DEF LinksInv, SignalInv
<1>1. CASE UNCHANGED vars
  BY <1>0, <1>1 DEF vars, rows, uevars, SignalInv, LinkTargetInv, DroppedInv, OwnIdInv, ListedInv, Lists,
                    Linked, Live, Ended, StillLinked, Unlinking
<1>2. CASE Tick
  <2>1. UNCHANGED <<flg, use, start, uflg, uuse, pc>> /\ now' = now + 1
    BY <1>2 DEF Tick, rows, uevars
  <2>2. \A x \in Ext : Ended(x) => Ended(x)'
    BY <1>0, <2>1, Constants, TimesAssumption DEF Ended, TypeOK
  <2> QED BY <1>0, <2>1, <2>2 DEF SignalInv, LinkTargetInv, DroppedInv, OwnIdInv, ListedInv, Lists, Linked,
                                  Live, StillLinked, Unlinking
<1>3. ~Interrupt
  BY <1>0, Constants DEF Interrupt, Undisturbed, TypeOK
<1>4. CASE Writers /\ NewIdsUnused
  BY <1>4, SignalWriter
<1> QED
  BY <1>0, <1>1, <1>2, <1>3, <1>4, SignalCleanup, SignalStartMerge, SignalLinking, SignalPublish
     DEF Next, MergeStep, Writers

LEMMA SignalAlways ==
  ASSUME Undisturbed
  PROVE  Spec /\ [][NewIdsUnused]_vars => [](LinksInv /\ IInv /\ TakenInv /\ SignalInv)
<1>1. Init => LinksInv /\ IInv /\ TakenInv /\ SignalInv
  BY LinksInit, InvInit, TakenInit, SignalInit
<1>2. LinksInv /\ IInv /\ TakenInv /\ SignalInv /\ [Next]_vars /\ [NewIdsUnused]_vars
        => (LinksInv /\ IInv /\ TakenInv /\ SignalInv)'
  BY LinksStep, InvStep, TakenStep, SignalStep
<1> QED BY <1>1, <1>2, PTL DEF Spec

(* No copy takes the id of an external event the VDRs have been shown out   *)
(* of useevents before its end without a row that tells them to delete it,  *)
(* as long as ids of dropped rows are not taken again while they are used.  *)
THEOREM ExtIdsAreSignalled ==
  ASSUME Undisturbed
  PROVE  Spec /\ [][NewIdsUnused]_vars => ExtIdSignalled
<1> DEFINE Inv == LinksInv /\ IInv /\ TakenInv /\ SignalInv
           NoneLost == pc = "useevents" =>
              \A x \in Ext \cap (ShownIds \ ShownIds') : x \in SignalledIds' \/ Ended(x)
<1>1. Inv /\ [Next]_vars => [NoneLost]_vars
  <2> SUFFICES ASSUME LinksInv, IInv, TakenInv, SignalInv, Next, pc = "useevents",
                      NEW x \in Ext, x \in ShownIds, x \notin ShownIds', ~Ended(x)
               PROVE  x \in SignalledIds'
    OBVIOUS
  <2> USE Constants, FlagSets
  <2>0. /\ TypeOK /\ DvbFlags /\ DvbUseInv /\ ExtUseInv /\ TargetInv /\ ExtUnlinked
        /\ DroppedInv /\ OwnIdInv /\ ListedInv
    BY DEF LinksInv, RowInv, MergeInv, TakenInv, SignalInv
  <2>1. PICK e \in Events : Lists(e, x)
    BY DEF ShownIds, Lists
  <2>2. UpdateUseevents
    BY <2>0 DEF Next, MergeStep, UpdateMergesp, LinkDvb, LinkExt, UpdateOthers, ReinitDvb, RemoveHidden,
                UpdateLastrun, ProviderInsert, ProviderUpdate, MarkOldEvents, CleanupEvents, CleanupUseevents,
                DvbStore, DvbDelete, HandlerRuns, StartMerge, CleanLinks, CleanTargets, Analyse,
                Interrupt, Tick, Undisturbed, TypeOK
  <2>3. Live(x) BY <2>0, <2>1 DEF DroppedInv
  <2>4. \A d \in Events : flg[d] \in Needed /\ use[d] = x => uflg'[d] = flg[d] /\ uuse'[d] = x
    BY <2>2, <2>3, InvStep, MirroredCopy
  <2>5. \A d \in Events : use[d] = x => flg[d] \notin Visible
    BY <2>4 DEF ShownIds
  <2>6. \A d \in Events : flg[d] \in Signal /\ use[d] = x => x \in SignalledIds'
    BY <2>4 DEF SignalledIds
  <2>7. CASE flg[x] \in Target
    <3>1. PICK v \in Dvb : use[v] = x /\ Shows(v)
      BY <2>0, <2>7 DEF TargetInv
    <3>2. flg[v] \in {"L", "D"}
      BY <2>0, <3>1 DEF DvbUseInv, Linked
    <3> QED BY <2>5, <2>6, <3>1, <3>2
  <2>8. CASE flg[x] \in {"A", "D", "R"}
    BY <2>0, <2>5, <2>6, <2>8 DEF ExtUseInv
  <2>9. CASE flg[x] \in {"I", "S"}
    <3>1. e \in Copyable
      BY <2>1, <2>2 DEF UpdateUseevents, Copied, Lists, ShownIds
    <3>2. e \in Dvb
      BY <2>0, <2>1, <2>9, <3>1 DEF OwnIdInv, Lists, Copyable, Events
    <3>3. flg[x] \in Target \cup {"R", "D"}
      BY <2>0, <2>1, <2>3, <3>1, <3>2 DEF ListedInv, Unlinking, Copyable, Live
    <3> QED BY <2>9, <3>3
  <2>10. flg[x] \in Flags /\ flg[x] # "L"
    BY <2>0, <2>3 DEF TypeOK, ExtUnlinked, Live
  <2> QED BY <2>7, <2>8, <2>9, <2>10 DEF Flags
<1> QED BY <1>1, SignalAlways, PTL DEF Spec, ExtIdSignalled
=============================================================================
