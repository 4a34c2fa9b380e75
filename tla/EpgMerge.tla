------------------------------ MODULE EpgMerge ------------------------------
(***************************************************************************)
(* The EPG merge of one channel.  The table `events` holds the programmes  *)
(* the DVB stream broadcasts (source 'vdr', stored by the epg2vdr plugin   *)
(* of each VDR) and those of an external provider (stored by the plugins   *)
(* of epgd).  The stored procedure mergeepg pairs them and publishes the   *)
(* result as the table `useevents`, the only one the VDRs and epghttpd     *)
(* read.  Each row carries an update flag:                                 *)
(*                                                                         *)
(*   A active, L link (a DVB event shown with the data of an external one) *)
(*   C changed, D deleted, R removed: delete signals for the VDRs          *)
(*   I inactive, T target of a link, S spare: never seen by a VDR          *)
(*                                                                         *)
(* The full update calls mergeepg without a transaction: each statement    *)
(* commits by itself and is a step, and a lost connection leaves those     *)
(* done so far.  The merge after DVB changes opens a transaction, which    *)
(* the `truncate` behind the clean-up commits: what the VDRs and a lost    *)
(* connection see of it are steps with nothing in between, or none.        *)
(***************************************************************************)
EXTENDS Naturals, FiniteSets

CONSTANTS
  Dvb,            \* ids (masterid) the DVB events of the channel can have
  Ext,            \* ids the external events of the channel can have
  Spare,          \* the external events of the merge=2 (fall-back) provider
  Starts,         \* the start times an event can be scheduled at
  Dur,            \* the duration of an event
  MatchTol,       \* 1200 s:  a pair starts at most this far apart
  FarTol,         \* 3600 s:  a link is kept beyond it only for like titles
  BreakTol,       \* 21600 s: a link is never kept beyond it
  Fuzz,           \* start < mergesp + duration/10  is  start < mergesp + Fuzz
  Window,         \* 259200 s: events starting later are not merged yet
  Keep,           \* 6 h: ended events stay this long
  MaxNow,         \* bound: last time
  MaxCrashes,     \* bound: number of merges that are interrupted
  Reinstates,     \* DVB events may come back before their link is cleaned up
  HandlersPause   \* the VDRs' DVB handlers pause while epgd merges

Events == Dvb \cup Ext

ASSUME EventsAssumption ==
  /\ Dvb \cap Ext = {}
  /\ Spare \subseteq Ext
  /\ Starts \in [Events -> SUBSET Nat]

ASSUME TimesAssumption ==
  /\ {Dur, MatchTol, FarTol, BreakTol, Window, Keep, MaxNow, MaxCrashes} \subseteq Nat
  /\ Fuzz \in Nat \ {0}
  /\ MatchTol <= FarTol /\ FarTol <= BreakTol

ASSUME HandlersAssumption == {HandlersPause, Reinstates} \subseteq BOOLEAN

Visible   == {"A", "L"}                    \* getVisible, without the channels
Deletable == {"A", "L", "R", "I"}          \* getDeletable     that never merge
Signal    == {"C", "D", "R"}               \* isRemove
Needed    == Visible \cup Signal           \* getNeeded
Hidden    == {"T", "S", "I"}
Flags     == Needed \cup Hidden
None      == "-"                           \* no row

VARIABLES
  flg,      \* events.updflg of every id, None where there is no row
  use,      \* events.useid: the id under which the event is shown
  fresh,    \* the DVB rows whose useid is still 0; their `use` is their own id
  del,      \* the rows with delflg = 'Y'
  start,    \* events.starttime
  mergesp,  \* channelmap.mergesp: up to here DVB events are what is shown
  uflg,     \* useevents.cnt_updflg, None where there is no row
  uuse,     \* useevents.cnt_useid
  ustart,   \* useevents.cnt_starttime
  dirty,    \* the rows with updsp >= parameter mergeStart of the last merge
  late,     \* those of them written since this merge noted its own start
  behind,   \* history: the rows that differ, or whose useid row differs, from
            \* what they were when they were last copied to useevents
  an,       \* analyse: the external event a DVB event matches, itself if none
  ansp,     \* the latest start of the DVB events in analyse, 0 if none
  now,
  pc,       \* the next statement of the running merge or "cleanup", else "idle"
  crashes

rows   == <<flg, use, fresh, del, start>>
uevars == <<uflg, uuse, ustart>>
vars   == <<rows, mergesp, uevars, dirty, late, behind, an, ansp, now, pc, crashes>>

Statements == {"links", "targets", "snapshot", "mergesp", "dvb", "ext", "others", "reinit",
               "useevents", "hidden", "lastrun"}

TypeOK ==
  /\ flg \in [Events -> Flags \cup {None}]
  /\ use \in [Events -> Events]
  /\ fresh \in SUBSET Dvb
  /\ del \in SUBSET Events
  /\ start \in [Events -> Nat]
  /\ mergesp \in Nat
  /\ uflg \in [Events -> Needed \cup {None}]
  /\ uuse \in [Events -> Events]
  /\ ustart \in [Events -> Nat]
  /\ dirty \in SUBSET Events
  /\ late \in SUBSET Events
  /\ behind \in SUBSET Events
  /\ an \in [Dvb -> Events]
  /\ ansp \in Nat
  /\ now \in Nat
  /\ pc \in Statements \cup {"cleanup", "idle"}
  /\ crashes \in Nat

Self == [e \in Events |-> e]

Init ==
  /\ flg = [e \in Events |-> None]
  /\ use = Self
  /\ fresh = {}
  /\ del = {}
  /\ start = [e \in Events |-> 0]
  /\ mergesp = 0
  /\ uflg = [e \in Events |-> None]
  /\ uuse = Self
  /\ ustart = [e \in Events |-> 0]
  /\ dirty = {}
  /\ late = {}
  /\ behind = {}
  /\ an = [v \in Dvb |-> v]
  /\ ansp = 0
  /\ now = 0
  /\ pc = "idle"
  /\ crashes = 0

-----------------------------------------------------------------------------
Live(e)   == flg[e] # None
Ended(e)  == start[e] + Dur < now
Apart(e, d, tol) == start[e] > start[d] + tol \/ start[d] > start[e] + tol

(* A write stamps the row's updsp; once the merge has noted its start, the  *)
(* stamp counts for the next merge too.                                    *)
Touch(es) ==
  /\ dirty' = dirty \cup es
  /\ late' = IF pc \in {"hidden", "lastrun"} THEN late \cup es ELSE late
  /\ behind' = behind \cup {e \in Events : e \in es \/ use'[e] \in es}

(* `starttime < mergesp + duration/10`, the range the flags are set for. *)
BelowMergePoint(e) == start[e] < mergesp + Fuzz

-----------------------------------------------------------------------------
(* The external provider's plugin, run by epgd and never while it merges.  *)

NewFlag(x, s) ==
  IF s <= mergesp THEN "I" ELSE IF x \in Spare THEN "S" ELSE "A"

(* A file of the provider holds an event the table does not have yet. *)
ProviderInsert(x, s) ==
  /\ pc = "idle"
  /\ ~Live(x)
  /\ flg' = [flg EXCEPT ![x] = NewFlag(x, s)]
  /\ use' = [use EXCEPT ![x] = x]
  /\ del' = del \ {x}
  /\ start' = [start EXCEPT ![x] = s]
  /\ Touch({x})
  /\ UNCHANGED <<fresh, mergesp, uevars, an, ansp, now, pc, crashes>>

(* It holds an event the table has: one that was deleted comes back. *)
ProviderUpdate(x, s) ==
  /\ pc = "idle"
  /\ Live(x)
  /\ flg' = [flg EXCEPT ![x] = IF @ = "D" THEN NewFlag(x, s) ELSE @]
  /\ del' = del \ {x}
  /\ start' = [start EXCEPT ![x] = s]
  /\ UNCHANGED <<use, fresh, mergesp, uevars, an, ansp, now, pc, crashes>>
  /\ Touch({x})

Deleted(e) == IF flg[e] \in Deletable THEN "D" ELSE flg[e]

(* stmtMarkOldEvents: the events xs are in no file of the provider any more *)
MarkOldEvents(xs) ==
  /\ pc = "idle"
  /\ xs # {} /\ \A x \in xs : Live(x)
  /\ flg' = [e \in Events |-> IF e \in xs THEN Deleted(e) ELSE flg[e]]
  /\ del' = del \cup xs
  /\ UNCHANGED <<use, fresh, start, mergesp, uevars, an, ansp, now, pc, crashes>>
  /\ Touch(xs)

OldEvents    == {e \in Events : Live(e) /\ start[e] + Dur + Keep < now}
OldUseevents == {e \in Events : uflg[e] # None /\ ustart[e] + Dur + Keep < now}

(* Rows that ended long ago, if there are any, are dropped, each table by a *)
(* statement of its own: first events ...                                  *)
CleanupEvents ==
  /\ pc = "idle"
  /\ OldEvents \cup OldUseevents # {}
  /\ flg' = [e \in Events |-> IF e \in OldEvents THEN None ELSE flg[e]]
  /\ use' = [e \in Events |-> IF e \in OldEvents THEN e ELSE use[e]]
  /\ fresh' = fresh \ OldEvents
  /\ del' = del \ OldEvents
  /\ start' = [e \in Events |-> IF e \in OldEvents THEN 0 ELSE start[e]]
  /\ dirty' = dirty \ OldEvents
  /\ late' = late \ OldEvents
  /\ behind' = behind \ OldEvents
  /\ pc' = "cleanup"
  /\ UNCHANGED <<mergesp, uevars, an, ansp, now, crashes>>

(* ... then useevents. *)
CleanupUseevents ==
  /\ pc = "cleanup"
  /\ uflg' = [e \in Events |-> IF e \in OldUseevents THEN None ELSE uflg[e]]
  /\ uuse' = [e \in Events |-> IF e \in OldUseevents THEN e ELSE uuse[e]]
  /\ ustart' = [e \in Events |-> IF e \in OldUseevents THEN 0 ELSE ustart[e]]
  /\ pc' = "idle"
  /\ UNCHANGED <<rows, mergesp, dirty, late, behind, an, ansp, now, crashes>>

-----------------------------------------------------------------------------
(* The DVB handler of a VDR's epg2vdr plugin: external code.  It stores    *)
(* the broadcast schedule in `events` and asks the function getupdflg of   *)
(* this repository for the flag of a row that is new or came back.         *)

HandlerRuns == pc = "idle" \/ ~HandlersPause

(* masterid = useid *)
OwnUse(v) == use[v] = v /\ v \notin fresh

GetUpdFlg(v, s, own) ==
  IF s > mergesp THEN "I" ELSE IF own THEN "A" ELSE "L"

(* Whether a row is stored with useid 0 is up to the plugin. *)
DvbStore(v, s) ==
  /\ HandlerRuns
  /\ s + Dur >= now
  /\ ~Live(v) \/ v \in del \/ start[v] # s
  /\ v \in del /\ use[v] # v => Reinstates
  /\ IF Live(v) THEN fresh' = fresh ELSE fresh' \in {fresh, fresh \cup {v}}
  /\ flg' = [flg EXCEPT ![v] = IF ~Live(v) \/ v \in del
                                THEN GetUpdFlg(v, s, use[v] = v /\ v \notin fresh') ELSE @]
  /\ del' = del \ {v}
  /\ start' = [start EXCEPT ![v] = s]
  /\ UNCHANGED <<use, mergesp, uevars, an, ansp, now, pc, crashes>>
  /\ Touch({v})

DvbDelete(v) ==
  /\ HandlerRuns
  /\ Live(v) /\ v \notin del
  /\ flg' = [flg EXCEPT ![v] = Deleted(v)]
  /\ del' = del \cup {v}
  /\ UNCHANGED <<use, fresh, start, mergesp, uevars, an, ansp, now, pc, crashes>>
  /\ Touch({v})

-----------------------------------------------------------------------------
(* mergeepg.  Titles are not modelled: `unlike` are the links whose titles *)
(* differ too much, and any pair may or may not match.                     *)

(* "fix useid = 0" and "cleanup deleted Links" *)
DeletedLinks == {v \in Dvb : flg[v] \in {"D", "R"} /\ use[v] # v /\ ~Ended(v)}

StartMerge ==
  /\ pc = "idle"
  /\ use' = [e \in Events |-> IF e \in DeletedLinks THEN e ELSE use[e]]
  /\ fresh' = {}
  /\ Touch(DeletedLinks)
  /\ pc' = "links"
  /\ UNCHANGED <<flg, del, start, mergesp, uevars, an, ansp, now, crashes>>

IsTarget(x, v) == x # v /\ flg[x] \in {"T", "C"} /\ x \notin del

(* "cleanup broken Links" *)
BrokenLinksHoweverFar(unlike) ==                                \* mutant
  {v \in Dvb : flg[v] = "L" /\ ~Ended(v) /\ ~IsTarget(use[v], v)}

BrokenLinksInnerJoin(unlike) ==                                 \* mutant
  {v \in Dvb :
     /\ flg[v] = "L" /\ ~Ended(v) /\ IsTarget(use[v], v)
     /\ Apart(use[v], v, BreakTol) \/ (Apart(use[v], v, FarTol) /\ v \in unlike)}

BrokenLinks(unlike) ==
  {v \in Dvb :
     /\ flg[v] = "L" /\ ~Ended(v)
     /\ \/ ~IsTarget(use[v], v)
        \/ Apart(use[v], v, BreakTol)
        \/ Apart(use[v], v, FarTol) /\ v \in unlike}

CleanLinks ==
  /\ pc = "links"
  /\ \E unlike \in SUBSET {v \in Dvb : flg[v] = "L"} :
       LET broken == BrokenLinks(unlike)
       IN /\ flg' = [e \in Events |-> IF e \notin broken THEN flg[e]
                                      ELSE IF e \in del THEN "D" ELSE "A"]
          /\ use' = [e \in Events |-> IF e \in broken THEN e ELSE use[e]]
          /\ fresh' = fresh \ broken
          /\ Touch(broken)
  /\ pc' = "targets"
  /\ UNCHANGED <<del, start, mergesp, uevars, an, ansp, now, crashes>>

(* "cleanup broken Targets" *)
BrokenTargetsUnchanged ==                                       \* mutant
  {x \in Events : flg[x] = "T" /\ ~Ended(x)
                    /\ \A v \in Dvb : flg[v] = "L" /\ use[v] = x => v = x}

BrokenTargets ==
  {x \in Events : flg[x] \in {"C", "T"} /\ ~Ended(x)
                    /\ \A v \in Dvb : flg[v] = "L" /\ use[v] = x => v = x}

RemovedUnsignalled(x) == IF x \in del THEN "D" ELSE "I"         \* mutant

Removed(x) == IF x \in del THEN "D" ELSE "R"

CleanTargets ==
  /\ pc = "targets"
  /\ flg' = [e \in Events |-> IF e \in BrokenTargets THEN Removed(e) ELSE flg[e]]
  /\ use' = [e \in Events |-> IF e \in BrokenTargets THEN e ELSE use[e]]
  /\ fresh' = fresh \ BrokenTargets
  /\ Touch(BrokenTargets)
  /\ pc' = "snapshot"
  /\ UNCHANGED <<del, start, mergesp, uevars, an, ansp, now, crashes>>

(* "prepare snapshot": what takes part in this merge *)
Snapshot ==
  {e \in Events : flg[e] \in {"I", "A", "R", "S"} /\ ~Ended(e) /\ start[e] <= now + Window}

(* "do the magic": the rows of analyse, at most one per DVB event *)
Analyses ==
  {a \in [Dvb -> Events] :
     \A v \in Dvb : a[v] # v =>
       /\ v \in Snapshot
       /\ a[v] \in Ext \cap Snapshot
       /\ ~Apart(a[v], v, MatchTol)}

(* Of both statements only the first reads events. *)
Analyse ==
  /\ pc = "snapshot"
  /\ an' \in Analyses
  /\ \E m \in {0} \cup {start[v] : v \in Dvb} :
       /\ \A v \in Dvb : an'[v] # v => start[v] <= m
       /\ m # 0 => \E v \in Dvb : an'[v] # v /\ start[v] = m
       /\ ansp' = m
  /\ pc' = "mergesp"
  /\ UNCHANGED <<rows, mergesp, uevars, dirty, late, behind, now, crashes>>

(* "update mergesp".  Nobody reads ansp after this, nor analyse after the   *)
(* next statement: they are reset at once.                                 *)
UpdateMergesp ==
  /\ pc = "mergesp"
  /\ mergesp' = IF ansp > mergesp THEN ansp ELSE mergesp
  /\ ansp' = 0
  /\ pc' = "dvb"
  /\ UNCHANGED <<rows, uevars, dirty, late, behind, an, now, crashes>>

(* "update useid on vdr events": updsp is not set *)
LinkDvb ==
  /\ pc = "dvb"
  /\ use' = [e \in Events |-> IF e \in Dvb /\ Live(e) /\ an[e] # e THEN an[e] ELSE use[e]]
  /\ fresh' = {v \in fresh : an[v] = v}
  /\ behind' = behind \cup {v \in Dvb : use'[v] # use[v]}
  /\ an' = [v \in Dvb |-> v]
  /\ pc' = "ext"
  /\ UNCHANGED <<flg, del, start, mergesp, uevars, dirty, late, ansp, now, crashes>>

Linkers(x) == {v \in Dvb : Live(v) /\ use[v] = x}

(* "update useid on ext events": one of several linking events is taken *)
LinkExt ==
  /\ pc = "ext"
  /\ LET targets == {x \in Ext : flg[x] \in {"I", "A", "R", "S"} /\ Linkers(x) # {}}
         changed == {x \in targets : flg[x] \in {"I", "R"}}
     IN /\ flg' = [e \in Events |-> IF e \in changed THEN "C"
                                    ELSE IF e \in targets THEN "T" ELSE flg[e]]
        /\ \E by \in [Ext -> Events] :
             /\ \A x \in Ext : IF x \in changed THEN by[x] \in Linkers(x) ELSE by[x] = use[x]
             /\ use' = [e \in Events |-> IF e \in Ext THEN by[e] ELSE use[e]]
        /\ Touch(changed)
  /\ pc' = "others"
  /\ UNCHANGED <<fresh, del, start, mergesp, uevars, an, ansp, now, crashes>>

(* "update all other relevant updflg and updsp" *)
MergedDvbActive == {v \in Dvb : flg[v] = "A" /\ BelowMergePoint(v)}   \* mutant

MergedDvb   == {v \in Dvb : flg[v] \in {"I", "A"} /\ BelowMergePoint(v)}
ReplacedExt == {x \in Ext : flg[x] \in {"A", "S"} /\ BelowMergePoint(x)}
RestampedLinks == {v \in MergedDvb : ~OwnUse(v)} \cup ReplacedExt    \* mutant

Restamped   == {v \in MergedDvb : ~OwnUse(v) \/ flg[v] = "I"} \cup ReplacedExt

UpdateOthers ==
  /\ pc = "others"
  /\ flg' = [e \in Events |->
               IF e \in MergedDvb THEN (IF OwnUse(e) THEN "A" ELSE "L")
               ELSE IF e \in ReplacedExt THEN (IF flg[e] = "S" THEN "I" ELSE "R")
               ELSE flg[e]]
  /\ pc' = "reinit"
  /\ UNCHANGED <<use, fresh, del, start, mergesp, uevars, an, ansp, now, crashes>>
  /\ Touch(Restamped)

(* "reinitialize prior removed dvb events" *)
ReinitDvb ==
  /\ pc = "reinit"
  /\ LET removed == {v \in Dvb : flg[v] = "R" /\ BelowMergePoint(v)}
     IN /\ flg' = [e \in Events |-> IF e \in removed THEN "A" ELSE flg[e]]
        /\ use' = [e \in Events |-> IF e \in removed THEN e ELSE use[e]]
        /\ fresh' = fresh \ removed
        /\ Touch(removed)
  /\ pc' = "useevents"
  /\ UNCHANGED <<del, start, mergesp, uevars, an, ansp, now, crashes>>

(* The rows the insert into useevents may select, cnt joined with sub, and  *)
(* those it selects for the stamps of the two rows.                        *)
CopyableAnyFlag == {e \in Events : Live(e) /\ Live(use[e])}      \* mutant

Copyable == {e \in Events : flg[e] \in Needed /\ Live(use[e])}

CopiedOwnStamp == {e \in Copyable : e \in dirty}                \* mutant

Copied == {e \in Copyable : e \in dirty \/ use[e] \in dirty}

(* "update useevents", with the start of this run noted before it.  More    *)
(* rows are copied for the stamp of their row of episodes, which is joined, *)
(* and because five seconds are subtracted from the start of the last run. *)
UpdateUseevents ==
  /\ pc = "useevents"
  /\ \E more \in SUBSET Copyable :
       LET copied == Copied \cup more
       IN /\ uflg' = [e \in Events |-> IF e \in copied THEN flg[e] ELSE uflg[e]]
          /\ uuse' = [e \in Events |-> IF e \in copied THEN use[e] ELSE uuse[e]]
          /\ ustart' = [e \in Events |-> IF e \in copied THEN start[e] ELSE ustart[e]]
          /\ behind' = behind \ copied
  /\ late' = {}
  /\ pc' = "hidden"
  /\ UNCHANGED <<rows, mergesp, dirty, an, ansp, now, crashes>>

(* "remove hidden events" *)
HiddenRowsButTargets == {e \in Events : flg[e] \in {"S", "I"}}   \* mutant

HiddenRows == {e \in Events : flg[e] \in Hidden}

RemoveHidden ==
  /\ pc = "hidden"
  /\ uflg' = [e \in Events |-> IF e \in HiddenRows THEN None ELSE uflg[e]]
  /\ uuse' = [e \in Events |-> IF e \in HiddenRows THEN e ELSE uuse[e]]
  /\ ustart' = [e \in Events |-> IF e \in HiddenRows THEN 0 ELSE ustart[e]]
  /\ pc' = "lastrun"
  /\ UNCHANGED <<rows, mergesp, dirty, late, behind, an, ansp, now, crashes>>

(* "update lastrun": from here on updsp is compared with this run's start *)
UpdateLastrun ==
  /\ pc = "lastrun"
  /\ dirty' = late
  /\ late' = {}
  /\ pc' = "idle"
  /\ UNCHANGED <<rows, mergesp, uevars, behind, an, ansp, now, crashes>>

MergeStep ==
  \/ CleanLinks \/ CleanTargets \/ Analyse
  \/ UpdateMergesp \/ LinkDvb \/ LinkExt \/ UpdateOthers \/ ReinitDvb
  \/ UpdateUseevents \/ RemoveHidden \/ UpdateLastrun

(* The database connection is lost between two statements. *)
Interrupt ==
  /\ pc # "idle"
  /\ crashes < MaxCrashes
  /\ crashes' = crashes + 1
  /\ late' = {}
  /\ an' = [v \in Dvb |-> v]
  /\ ansp' = 0
  /\ pc' = "idle"
  /\ UNCHANGED <<rows, mergesp, uevars, dirty, behind, now>>

Tick ==
  /\ pc = "idle"
  /\ now < MaxNow
  /\ now' = now + 1
  /\ UNCHANGED <<rows, mergesp, uevars, dirty, late, behind, an, ansp, pc, crashes>>

Next ==
  \/ \E x \in Ext : \E s \in Starts[x] : ProviderInsert(x, s)
  \/ \E x \in Ext : \E s \in Starts[x] : ProviderUpdate(x, s)
  \/ \E xs \in SUBSET Ext : MarkOldEvents(xs)
  \/ CleanupEvents
  \/ CleanupUseevents
  \/ \E v \in Dvb : \E s \in Starts[v] : DvbStore(v, s)
  \/ \E v \in Dvb : DvbDelete(v)
  \/ StartMerge
  \/ MergeStep
  \/ Interrupt
  \/ Tick

Spec == Init /\ [][Next]_vars

FairSpec == Spec /\ SF_vars(StartMerge) /\ WF_vars(MergeStep) /\ WF_vars(CleanupUseevents)

-----------------------------------------------------------------------------
(* The invariants speak of the moment a merge has done its work: all that  *)
(* is left is to note when it started.                                     *)
Merged == pc = "lastrun"

Placeable(v) == Live(v) /\ v \notin del /\ BelowMergePoint(v)

(* A DVB event up to the merge point is what the user sees, whatever the   *)
(* external events do: it is an EPG entry of its own or with the data of   *)
(* the external event it is linked to.  Only one that ended may be missing *)
(* in useevents, if the event it is linked to was dropped before.          *)
DvbPlaced ==
  Merged => \A v \in Dvb : Placeable(v) =>
    /\ flg[v] \in Visible
    /\ uflg[v] \in Visible \/ (Ended(v) /\ ~Live(use[v]))

(* Copying only the rows touched since the last merge loses no change: the *)
(* rows of useevents are those a copy of everything would give, except for *)
(* what was written while this merge was copying.                          *)
Mirrored(e) == uflg[e] = flg[e] /\ uuse[e] = use[e] /\ ustart[e] = start[e] /\ e \notin behind

Published ==
  Merged => \A e \in Events : e \notin late /\ use[e] \notin late =>
              /\ flg[e] \in Hidden => uflg[e] = None
              /\ flg[e] \in Needed /\ Live(use[e]) => Mirrored(e)

(* An event shown with other data is linked to an external event that is   *)
(* marked as a target and still close to it; an event without a link goes  *)
(* by its own id.                                                          *)
LinksSound ==
  Merged => \A v \in Dvb :
     /\ flg[v] = "L" /\ ~Ended(v) =>
          use[v] \in Ext /\ flg[use[v]] \in {"T", "C"} /\ ~Apart(use[v], v, BreakTol)
     /\ flg[v] = "A" => use[v] = v

(* An external event is hidden as a target only while a DVB event shows it. *)
TargetsLinked ==
  Merged => \A x \in Ext : flg[x] \in {"T", "C"} /\ ~Ended(x)
                            => \E v \in Dvb : use[v] = x /\ (flg[v] = "L" \/ Ended(v))

Scheduled(e) == Live(e) /\ ~Ended(e)

(* A programme is not listed twice, by the DVB event and by its target. *)
ProgrammeOnce ==
  Merged => \A v \in Dvb : uflg[v] = "L" /\ Scheduled(v) => uflg[uuse[v]] \notin Visible

(* If handlers do not pause and merges are cut off, this holds of entries  *)
(* the copy could take: neither they nor the events they go by were        *)
(* written while it was made, and both are there.                          *)
Settled(e) == Live(e) /\ Live(use[e]) /\ {e, use[e]} \cap late = {}

SettledOnce ==
  Merged => \A v \in Dvb :
    uflg[v] = "L" /\ uuse[v] # v /\ Settled(v) /\ Settled(uuse[v])
      => uflg[uuse[v]] \notin Visible

(* The id a visible entry goes by names an event: a timer set on it can be *)
(* found again in `events`.                                                *)
IdKnown ==
  Merged => \A e \in Events : uflg[e] \in Visible /\ Scheduled(e) => Live(uuse[e])

ShownIds    == {uuse[e] : e \in {d \in Events : uflg[d] \in Visible}}
SignalledIds == {uuse[e] : e \in {d \in Events : uflg[d] \in Signal}}

(* A copy takes no id of an external event the VDRs have been shown out of *)
(* useevents before its end without a row that tells them to delete it.    *)
ExtIdSignalled ==
  [][pc = "useevents" =>
        \A x \in Ext \cap (ShownIds \ ShownIds') : x \in SignalledIds' \/ Ended(x)]_vars

(* A DVB event within the merge range gets listed, unless it is deleted,   *)
(* moved out of the range or over first.                                   *)
EventuallyPlaced ==
  \A v \in Dvb : Placeable(v) ~> uflg[v] \in Visible \/ ~Placeable(v) \/ Ended(v)
=============================================================================
