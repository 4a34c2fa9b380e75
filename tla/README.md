# Verification of vdr-epg-daemon

TLA+ models of epgd, the EPG daemon for VDR, of its web server epghttpd and of
the page it serves, with TLC runs on small instances
and TLAPS proofs for all instances. Every definition is translated from the
code; the file `PROJECT.json` maps each one to its lines.

## The system

`epgd` collects TV programme data from providers (plugins, e.g. *epgdata*),
merges it with what the DVB stream broadcasts and with series data, and keeps
the result in a MySQL database. `epghttpd` serves that database to browsers,
and each VDR runs the plugin *epg2vdr*, which stores the DVB events, reads the
merged EPG and executes timer requests. The processes share nothing but the
database and a few notifications, so nearly all interaction is by rows and the
flags in them.

    DVB stream -> epg2vdr (VDR 1..n) --\            /--> useevents --> epg2vdr, epghttpd
                                        events --(mergeepg)
    provider   -> epgd plugin ---------/
    browser    -> epghttpd --> searchtimers, timers (requests) --> epg2vdr
    (page in                   searchtimers --(epgd)--> timers, timersdone
     JavaScript)

### Components

State, operations, and what makes each one correct. The
`components` of `PROJECT.json` say what is modelled.

| Component | State | Operations | Correct if |
|---|---|---|---|
| EPG merge (`configs/mergeepg.sql`, `getupdflg.sql`, views) | `events.updflg/useid/delflg/updsp`, `useevents`, `channelmap.mergesp`, parameter `mergeStart`, helper tables `snapshot`, `analyse` | a dozen statements, each of which commits alone in the full update | what the VDRs read equals what the flags say, DVB events win up to the merge point, links and targets are paired, no id is lost |
| epgd main loop (`update.c`) | next update/merge/check times, triggers, busy state in `vdrs` | merge, full update, search timers, conflict check, maintenance | every triggered piece of work is done, VDRs are told to pause, errors are retried without a storm |
| epgdata plugin (`PLUGINS/epgdata`) | `fileref` (file, tag, day), `events` of its source | load the index, process a day's file, mark events in no file as deleted | every changed file is stored once, nothing current is dropped |
| DVB handlers (external, epg2vdr) | `events` of source vdr, `vdrs.state` | store, delete; pause while epgd is busy | model input |
| Timers and search timers (`lib/searchtimer.c`, `webstore.c`) | `timers` (state, action), `timersdone`, `searchtimers` | create, modify, adjust, reject, delete requests; memory of recorded programmes | no programme is scheduled twice, no request is lost, failed ones are retried |
| Timer conflict check (`lib/searchtimer.c`, `update.c`) | `timers.tccmailcnt`, time of last mail | check every 15 minutes, mail | every overbooking is seen, each timer is mailed once |
| Channel map (`channelmap.c`) | `channelmap.updflg`, `events`, `fileref` of the channels | reload of `channelmap.conf`, add, rename, remove | a broken file changes nothing, a renamed channel keeps its events |
| epghttpd (`httpd.c`, `webdo.c`, `webstore.c`, `webauth.c`) | sessions in memory, with the time of their last use; triggers | login, logout, requests of the web interface | a request runs in the session it names or is refused, and is stored as requested |
| Series episodes (`series.c`, `episode.c`, `svdrpclient.c`) | table `episodes`, last download | full or incremental download, match | a lost connection leaves old or new data |
| Images (`update.c`) | `images`, `imagerefs`, `fileref` | download, clean up | referenced pictures stay |
| Scraper (`tvdbmanager.c`, `moviedbmanager.c`, `scraper/`) | `series*`, `movies*`, scrap state of events | scrap an event, update a series | each event is scrapped once |
| Title comparison (`levenshtein.c`, `epglv/`, `getlvrmin.sql`, `getcrosslvr.sql`) | none | edit distance, best ratio of two titles | the textbook distance |
| Database layer (`lib/db.c`) | row buffers, prepared statements | find, fetch, insert, update of whole rows | - |
| Threads and tools (`lib/`) | - | wrappers, conversions | - |
| Web frontend (`http/src/js`) | user and session, stored key, dialogs, requests under way; per page what is loaded | login, requests and their repetition, scrolling, forms | a request is carried out once or the user is told, the page shows what belongs to the user, the columns show every programme once |
| Vendored browser code and build tools (`http/3rdParty`, `http/tools`) | - | - | third-party code |

### Hard behaviour

* `mergeepg` has no transaction around it: the full update opens none, and the one
  the merge of DVB events opens is committed when the procedure truncates its
  helper tables. Each statement stands alone, and a lost connection leaves a part
  of the merge done.
* DVB handlers are asked to pause by a row (`vdrs.state`) and two seconds of
  sleep; nothing stops a slow one.
* `useevents` is a delta copy, selected by time stamps of two joined rows.
* Flags live through long histories: an external event may be linked, deleted
  by the provider, revived, cut off by time, while the DVB event moves.
* Row buffers are shared: a `cDbTable` has one row for all statements bound to
  it, and `update()` writes all columns of it.
* Timer requests (`timers.action`) are overwritten by whoever comes last: the
  user's web request, epgd's own checks, the VDR's answer.
* The browser's requests are independent: each has a connection of its own, so
  they and their answers overtake each other, and answers meet a page the user
  has moved on. Sessions live in the memory of epghttpd only and expire.

`PROJECT.json` lists each as a hazard with its line and the properties for it, or why
no property covers it: in several of them the code does go wrong, no text of it
promises otherwise, and the property next to it names them as its exceptions.

## Modules

### EpgMerge - the merge of one channel

| Model | Code |
|---|---|
| `flg, use, del, start` | `events.updflg, useid, delflg, starttime` of each id (masterid) |
| `fresh` | the DVB events with `useid = 0` |
| `mergesp` | `channelmap.mergesp` |
| `uflg, uuse, ustart` | `useevents.cnt_updflg, cnt_useid, cnt_starttime` |
| `dirty`, `late` | rows with `updsp >= mergeStart` of the last, of the running merge |
| `an`, `ansp` | table `analyse`, the latest DVB start in it |
| `pc` | the statement of `mergeepg`, or of `cleanupEvents`, that comes next |
| `ProviderInsert/Update`, `MarkOldEvents` | `Epgdata::processFile`, `stmtMarkOldEvents` |
| `CleanupEvents`, `CleanupUseevents` | the two statements of `cEpgd::cleanupEvents` |
| `DvbStore`, `DvbDelete` | epg2vdr, with the flag `getupdflg` returns |
| `StartMerge` | `useid = 0` is set to the own id, links of deleted events are dropped |
| `CleanLinks`, `CleanTargets` | "cleanup broken Links", "cleanup broken Targets" |
| `Analyse` | snapshot and analysis |
| `UpdateMergesp` ... `UpdateLastrun` | one statement of `mergeepg` each |
| `Interrupt` | the connection is lost between two statements |

Abstractions. One channel: nothing in the procedure relates events of two
channels. Titles are left out: any pair within the time tolerance may or may
not match, any link may or may not be too unlike. `eventid` and `masterid`
are one id, and the id of a dropped row may be used again. The two statements
`mergeepg` begins with are one step, and so are the snapshot and the analysis of
it, of which only the first reads `events`. The steps up to the analysis are those
of the full update; in the merge of DVB events they are one transaction. The
stamps `updsp` become membership in `dirty`; that the code copies more, for the
stamp of a row of `episodes` joined to the event and for the five seconds it
subtracts from the last run, is the set `more` of `UpdateUseevents`. Statements
that update several joined tables read old values. Channels with merge 0 and the flag `P`, which never take part, and
`reverseepg`, which nothing in the repository calls, are left out.

Runs (`MCEpgMerge`):

| Run | Instance | Shows |
|---|---|---|
| `merge_pair` | 2 DVB events, a main and a fall-back external event, two possible starts, 5 times | `DvbPlaced`, `LinksSound`, `TargetsLinked`, `IdKnown`, `ProgrammeOnce`, `ExtIdSignalled`, type |
| `merge_disturbed` | as `merge_pair`, 3 times, handlers do not pause, links may come back, one merge is cut off | `Published`, `SettledOnce` hold all the same |
| `merge_live` | as `merge_pair`, 3 times, one merge is cut off, fairness | `EventuallyPlaced` |

Two DVB events for one external event and two external events for one DVB event
are the smallest instances in which links compete and change; the times allow
an event to be before, within and behind the merge point, to move across it, to
break the tolerance and to end and be cleaned up. The number of merges and of
writes between them is not bounded: the state space is finite because the
stamps are sets.

What does not hold is as instructive. Two DVB events may link to the same
external event and are then shown under one id. If a merge is cut off or a
handler writes during it, `LinksSound`, `TargetsLinked`, `DvbPlaced`, `IdKnown`,
`ProgrammeOnce` and `ExtIdSignalled` can fail at the end of that or the next
merge and are repaired by a later one (`EventuallyPlaced` holds with a crash);
`Published` and `SettledOnce` never fail: of a linked event and its target a
complete merge lists both only if it changed one of them itself and has not
copied it yet. An event stored with `useid = 0` below the merge point is flagged as a
link without being one until the next merge; so `SettledOnce` speaks of entries
that go by another id than their own. A DVB event that is over need not be listed any more
(`DvbPlaced`, `EventuallyPlaced`): when the row it was linked to is dropped, the
copy loses it. A target that was still active becomes `T`
(`mergeepg.sql:195`); the comment at `lib/epgservice.h:223` reads as if it became
`C`. A DVB event that is marked deleted and comes
back between two merges keeps its old link, even beyond the merge point; so
`merge_pair` keeps `Reinstates = FALSE`. `ExtIdSignalled` is about the copy only: an
external event that is marked deleted and comes back before the merge point
between two merges is flagged inactive, and `RemoveHidden` takes its row out of
`useevents` with no signal at all.

Fairness. `SF(StartMerge)`: the loop of epgd looks every 30 seconds for changed
DVB events and merges when there are enough of them, and each full update ends
with a merge; both recur for ever, though other work of the loop, as the clean-up,
comes between. `WF(MergeStep)`, `WF(CleanupUseevents)`: MySQL goes on with a procedure
it has started, and epgd with its clean-up. No fairness is asked of providers, handlers or the
clock.

### TimerConflicts - the timer conflict check

| Model | Code |
|---|---|
| `row` | the timers in state P or R that are active: VDR, day, start, end, transponder |
| `cnt` | `timers.tccmailcnt` |
| `todo`, `seen` | the buffered result of `selectAllTimer` |
| `found` | the body of the mail |
| `quiet` | `lastMailAt` is less than an hour ago |
| `StartCheck`, `CheckTimer`, `EndCheck` | call by the loop, a turn of the loop in `checkTimerConflicts`, `sendTccMail` |
| `Schedule`, `Remove` | the VDRs, at any time |

The inner query of `getUsedTransponderAt` uses the same row buffer as the outer
loop, so `CountMail` writes to the row the inner query read last, any of them as
the query has no order. Inactive timers are left out: both queries skip them.

Runs (`MCTimerConflicts`): `conflicts` has three timers, two transponders and
one tuner, a day of three slots and a timer over midnight, two checks and one
change of a timer while a check runs (`MaxChecks`, `MaxMoves`). Two timers are
needed for a conflict, a third so that the count can go to an uninvolved timer.
`NoConflictMissed` compares what the check computes with what is recorded at
each moment; `ConflictsCounted` says the misplaced count still marks each
conflict. `conflicts_mail_once` finds that a timer is mailed twice (finding).
No liveness: the hourly limit drops mails whose timers are already counted.

### Timers - requests, answers and the memory of recordings

| Model | Code |
|---|---|
| `timer` | table `timers`: event, `evtstarttime`, `file`, autotimer, state, action, `wrncount`, `retrys`, `doneid` |
| `done` | table `timersdone`: what is compared of the programme, state |
| `timerId`, `doneId` | the autoinc ids given |
| `epg` | `useevents`: the version listed of each event, its start and its calculated recording name |
| `pc`, `forced` | where `cEpgd::updateSearchTimers` stands |
| `todo`, `snap` | the buffered result of `selectAllTimer` in `checkTimers` |
| `job` | the new timer epghttpd has remembered and not yet stored |
| `cand`, `cur` | the hits still to look at, the creation under way |
| `onVdr` | the timers the VDR really has |
| `disturbed` | history: programmes whose entry the user dropped, or whose creation was cut off before `timersdone` knew |
| `StartRun`, `CheckTimer`, `CheckName`, `EndChecks` | `checkTimers`, one timer at a time, its time and its name by two writes |
| `SearchEvent`, `CreateTimer`, `Remember`, `Link`, `EndRun` | `updateSearchTimers` and the three writes of `createTimer` |
| `CleanupTimerActions`, `CloseTimer` | `cleanupEvents`, the statement "cleanuped" of the loop |
| `UserCreates`, `UserModifies`, `UserDeletes`, `UserDropsJob`, `UserDropsDone` | `storeTimerJob`, `deleteTimerJobs`, `deleteDoneTimers` |
| `UserRemembers`, `CreateRemembered`, `LoseJob` | `storeTimerJob` with `manualTimer2Done`: the entry of `timersdone`, then the timer in `modifyCreateTimer`, unless epghttpd stops in between |
| `Vdr...` | epg2vdr, external |

Abstractions. One search timer and one VDR; the search timer is active and stays
so; which events it matches is the constant `Events`, and what its repeat fields
compare is `Programme`. The EPG changes between runs, as `mergeepg` and the
search timers are called by one loop. Statements that read and write the same
row next to each other are one step; the list of `checkTimers`, read as a whole
at its start, is not, and its rows may be stale when they are written; nor are the
two writes a check makes of a timer that was moved and renamed, or a user's new
timer and its entry in `timersdone`, which is there first. epghttpd handles one
request of the user after the other. An entry whose timer was lost with epghttpd
stays requested: it keeps search timers from the programme for ever, which
`EventuallyScheduled` counts as remembered. The VDR acts on a request
and answers it in one step; it fails to modify what it does not have. Moving a
timer to another VDR, timers any VDR may take, timers without an event and
storing of search timers are left out.

Runs (`MCTimers`), bounds by `MaxTimers`, `MaxDones` (rows ever inserted), `MaxUser`
(requests of the user) and `MaxCrashes` (of epgd and epghttpd):

| Run | Instance | Shows |
|---|---|---|
| `timers_live` | two events of one programme, 2 timers, 2 entries, a request of the user, a crash, fairness | `OnceScheduled`, `EventuallyScheduled`, type |
| `timers_moves` | one event that moves and is renamed, a request of the user, a crash, fairness | `MovesFollowed` |
| `timers_retry` | one event, one timer, fairness | a failed timer is not tried again (finding) |
| `timers_delete` | one event that moves, one request of the user | a delete request is overwritten (finding) |

Two broadcasts and two timers of a programme are what it takes to schedule it
twice. The system may stop in all
of them, because ids, requests and crashes are used up, so deadlock is not
checked. `EventuallyScheduled` allows for the ids to be used up, a bound of the
model.

`OnceScheduled` has two exceptions, both in `disturbed`: the user drops the entry of
a programme whose timer still exists, or epgd dies after the timer is committed
and before `timersdone` is written. In both a second timer is possible.

Fairness. `SF(StartRun(TRUE))`: after each merge, and merges recur, the loop calls
`updateSearchTimers` with force; strong, because other work of the loop comes
between. `WF(EpgdStep)`: a run goes on. `WF(VdrAnswers(t))`: a VDR that is switched on
answers its requests; the properties say nothing of one that never is. Nothing
is asked of the user, the EPG, or recordings to start or end.

### WebSession - the browser's login and its requests

| Model | Code |
|---|---|
| `login`, `url` | `epgd.login` (user, session) and `epgd.login.url`, the session put into every request |
| `key` | the stored key: `sessionStorage` or the cookie |
| `form`, `opening` | the login dialog and the callback it was made with; the page selected, rendered 400 ms later |
| `shown` | the user whose profile, channels and VDRs `login_changed` loaded |
| `req`, `mail` | a request as the user sees it; its message and its answer under way |
| `call`, `byes` | login and logout calls with the closure of `doLogin`; logouts nobody waits for |
| `sess`, `stale`, `active` | the sessions of epghttpd, those unused for an hour, the users who may log in |
| `ran`, `overtaken`, `doubled`, `dropped` | history |
| `Click`, `Answered`, `MailLost` | `epgd.ajax`, its done and its fail |
| `DoLogin`, `LoggedIn`, `CallLost` | `doLogin`, its answer (`trigger_changed`, callback), no answer |
| `SelectLogin`, `RenderLogin`, `SubmitForm` | the menu, `pages.login.render`, the dialog |
| `ServeRequest`, `ServeCall`, `ServeBye` | `cEpgHttpd::dispatcher`, `setSession`, `doLogin` |
| `Restart`, `HourPasses`, `Deactivate` | epghttpd restarts, an hour without a request, the administrator |

Abstractions. `needLogin` is 1 and stays so. What a request asks for is left out,
but not how often it was carried out; rights are left out, so no request is
refused with 403. The page's own requests after a login (profile, channels, VDRs)
are not among the user's; what they load is `shown`. A login call is named by a number, which is also the session
it creates; a user's key is the user. One tab; the page is loaded once. An hour
passes only while nothing is under way.

Run `web_session` (`MCWebSession`): two users, two requests, `MaxCalls = 3` login
and logout calls, `MaxFaults = 1` restart or hour, `MaxLost = 1` lost message. Two
requests are needed for two logins in the background, three calls for a login
that meets both another one and a logout. It may stop (the bounds are used up, the
user does nothing), so deadlock is not checked. With `MaxCalls = 4` the
invariants hold as well, and then a request is in fact run twice: the one
the login dialog was made for, the exception of `AtMostOnce`.

Fairness. `WF(Deliver)`: the network and epghttpd go on, a timeout of the browser
expires. Nothing is asked of the user.

The exceptions in the properties are what the code does, each of them was a
counterexample first:

* A refusal that comes late, of a request made before a login, logs out the
  session that is fresh; a request refused for the second time is reported as
  forbidden, also if it was refused for the session of an earlier login.
* A request made while a login was under way names no session, so the callback
  finds none to replace and the repetition is refused again.
* A request is repeated in the session of whoever logged in meanwhile.
* `login_changed` compares the user with the one at the time of the call: when
  two answers overtake each other, the page keeps the data of another user
  (`overtaken`). An answer to a login that comes after a logout undoes it.
* A login call that is lost takes its request with it (`dropped`); two calls at
  once leave a session nobody knows (`doubled`).
* A logout from an expired session is refused, and the page stays as it is. A
  user who is deactivated keeps the sessions he has.

### Magazine - the columns of programmes, and ColumnPromise

| Model | Code |
|---|---|
| `start`, `end` | `epgd.pages.magazine.startTime`, `endTime` |
| `main`, `view` | the first column in view, `viewCnt` |
| `later` | timeouts of `update` under way |
| `col`, `load` | `startTime`, `endTime` of a column; its requests and what became of them |
| `box`, `margin`, `eTime` | the boxes of a column, the margin above, the time they reach down to |
| `Resize`, `SetMain`, `SetTime` | `resize`, `setMain`, `setTime`, each with the `update` it calls |
| `LaterUpdate` | the timeout of `update` for the columns beside those in view |
| `Asked`, `Covered` | `loadData` and `updateTime` |
| `InRange`, `Consecutive` | `selectEventsStartInRange` of epghttpd; the programmes of a channel follow each other (`EpgAssumption`), so those it selects do, too |
| `Answer`, `Fail` | the callback of `loadData`, a request that fails |

`ColumnPromise` is what a column promises: the time it covers only grows, every
moment of it is asked for when the column first covers it and never again, and
arrives once or is given up. `Magazine` implements it (`Promised`, by a
refinement mapping from requests to the moments they cover).

Abstractions. Boxes have a start and a height, no text. Times before 0 are left
out, and so are windows too narrow for a single column (less than 318 pixels), in
which nothing is in view or loaded. Setting the line of the present time and the width of the columns is layout.

Runs (`MCMagazine`): two channels, one with programmes all day, some of them
shorter than the least height of a box; one with a programme that starts where a
request does and none at the end. An hour is 4, half a day 8, the least height
2 - in the code 3600, 43200 and 600 s -, so that the page covers a few
programmes and grows in both directions by several requests. Windows hold up to
`MaxView = 3` columns, as many as there are and more; `MaxLater = 2` timeouts and
`MaxLost = 1`. The page is at rest when all answers are in and the user does
nothing at the bounds, so deadlock is not checked.

| Run | Shows |
|---|---|
| `magazine` | `VisibleCovered`, `InOrder`, `NothingMissing`, `BackInStepDown`, `Promised`, type |
| `magazine_delta` | boxes stay out of step above (finding) |

What the conditions of the properties stand for: a programme that starts exactly
where a request begins is in two answers, and the second is then not shown at
all (`OnTheHour`); an empty first answer leaves no programme to append to, and
the next callback fails (`HasGap`); a failed request leaves a hole that is never
filled; answers of requests upwards that overtake each other are put in the wrong
order (`overtaken`). With fewer channels than columns in view the first column
is negative and `update` fails (`main = 0`).

## Proofs

`EpgMerge_proofs` - for all events, schedules, tolerances and numbers of
interruptions, with or without handlers that pause:

* `TypeCorrect`: `Spec => []TypeOK`, one step per action.
* `PublishedCorrect`: `Spec => []Published`. The property speaks of the end of a
  merge and is not inductive. The invariant `IInv` says for every moment which
  rows of `useevents` may lag: those stamped since the mark the next copy uses
  (`Unsaved`), and those linked by the running merge which `UpdateOthers` has yet
  to stamp (`Pending`), because `LinkDvb` sets `useid` without a stamp. That every
  row linked this way does get stamped needs `AnalyseInv` (an analysed event
  nobody wrote since is inactive or active and lies within the merge range about
  to be set) and `DvbFlags` (a DVB event never carries a flag of the external
  side). `HiddenInv` and `LateInv` cover the last two statements, `CleanupInv` the moment
  between the two of the clean-up.

`EpgMergeLinks_proofs` - for all events, schedules and tolerances, the first six
under the hypothesis `Undisturbed`: the handlers pause, no merge is cut off, no
deleted DVB event comes back with its old link. It is a condition on constants,
the instance of `merge_pair` satisfies it, and without it they fail (see
above).

* `LinksAreSound` (`LinksSound`), `TargetsAreLinked` (`TargetsLinked`),
  `DvbArePlaced` (`DvbPlaced`), `IdsAreKnown` (`IdKnown`), `ProgrammesAreOnce`
  (`ProgrammeOnce`). None is inductive: a link is found by one statement, its
  target hidden by the next and the flag of the DVB event set by a third.
  `LinksInv` is `RowInv`, what the rows are like at any time (a DVB event flagged as
  a link has one, and one that has a link is flagged so, is deleted or waits for
  `UpdateOthers`, and one stored without a `useid` is corrected by the next merge, unless
  it is over by then; only an external event flagged as changed goes by another id, and
  is not visible then unless the running merge will copy it), and `MergeInv`,
  what the running merge owes them at each of its statements: the pairs it has
  found (`PairInv`), the links its clean-up has kept (`LinkInv`), an event that
  shows each target (`TargetInv`), a flag for every DVB event up to the merge point
  (`PlacedInv`). The properties of what is listed follow with `PublishedCorrect`.
* `ExtIdsAreSignalled` (`ExtIdSignalled`), under `Undisturbed` and for behaviours in
  which a row stored anew takes an id no link and no visible entry goes by
  (`NewIdsUnused`). In the database that is so: `masterid` is numbered by it and
  `useid` refers to it; the model, whose ids are few, takes those of dropped rows
  again, and without the hypothesis TLC finds `ExtIdSignalled` violated (an id
  dropped after its end is stored again for a later start while a DVB event is
  still listed by it). `SignalInv`: a DVB event listed by an external id is linked
  to it, unless the running merge has undone that and the external event is
  signalled or has another link (`ListedInv`); what an event flagged as a link goes by
  is a target, even if it is over (`LinkTargetInv`).
* `SettledAreOnce`: `Spec => []SettledOnce`, with no hypothesis. `TakenInv`: once a
  merge has made its targets, what a DVB event is linked to is not flagged as an
  event of its own.

`TimerConflicts_proofs` - for all timers, VDRs, tuners and days:

* `ConflictsNoticed`: `Spec => []NoConflictMissed`. Of the timers recording at an
  overbooked moment take one that started first (`LeastNatural`: the library's
  well-foundedness of finite sets under inclusion gives a least element, see
  `Recursion`); the others start while it records, so counting starts finds them all.

`Timers_proofs` - for all events, versions, bounds, requests of the user and
crashes:

* `Types`: `Spec => []TypeOK`, and `ScheduledOnce`: `Spec => []OnceScheduled`, from one
  inductive invariant. Its heart is `Memory`: as long as a timer of the search
  timer is at the VDR or asked of it, `timersdone` holds an entry of its
  programme that forbids another, and no other timer is linked to it. Only the
  outcome of a timer changes its entry, after which it is not scheduled any
  more. `LinksInv` says two timers are never linked to one entry, and none to that of a
  user's timer on its way (`job`); `SnapInv` that the
  stale rows of `checkTimers`, kept until both writes are made (`SnapFades`), never are requests to create and still agree with
  the table on event, search timer and entry, so writing them back breaks
  neither; `CurInv` and `IdsInv` describe the creation under way and fresh ids;
  `NoneYet` carries the answer of `isAlreadyDone` to the write of the timer. The
  step lemmas go by what a step does to a row (`RowStep`), to an entry (`DoneStep`)
  and to the links (`LinksMove`) instead of by action.

`WebSession_proofs` - for all users, requests and bounds:

* `TypeCorrect`: `Spec => []TypeOK`, from the same invariant as
* `RunOnce`: `Spec => []AtMostOnce`. The invariant `IInv` says where a request can be:
  in one message, or with one login call that will repeat it, never both
  (`Once`); and once it was carried out only its answer is left. Requests of the
  dialog are excluded, as it keeps its callback (`FormInv`: until it is made it has
  none).
* `SamePage`: `Spec => []PageOfUser`. An answer that does not find another user
  than its call compares with the right one; `AnsInv` says nobody is answered the
  user that stands for a page just loaded.

`WebSessionFaults_proofs` - for all users, requests and bounds:

* `NothingLeft`: `Spec => []NoOrphan`. `SidInv` says where the id of a session can be:
  the one in use, named by the URL; one that a call under way will bring; one
  of a call that is over. The invariant on top of it follows the one call at a
  time the property speaks of: before the answer replaces the session in use,
  that session has been given up.
* `FaultUnnoticed`: `Spec => []RestartUnnoticed`. The exceptions of the property
  cannot be undone, so it suffices to follow the case in which none applies: one
  request, one fault, every call in the background. There a refusal uses up the
  fault, so the login in the background succeeds and the repeated request finds
  its session.

`Magazine_proofs` - for all channels, programmes, windows and times:

* `KeepsPromise`: `Spec => Promised`, the refinement. The invariant `IInv` says the
  requests of a column lie within the span it covers and side by side, so that
  an answer or a failure takes away moments no other request has. `AskOne` and
  `TakeOne` treat one column, `AskStep` and `TakeStep` the page.
* `InViewCovered`: `Spec => []VisibleCovered`. `Reaches`: a column that is updated
  covers the page; `Stays`: it goes on doing so when others are updated.
* `TypeCorrect`: `Spec => []TypeOK`, `ShownInOrder`: `Spec => []InOrder`, `ShownAll`:
  `Spec => []NothingMissing` and `DownInStep`: `Spec => []BackInStepDown`, from one
  more invariant, `BoxInv`. Of every column it says: each request lies above or
  below all before it (`Outward`), and together they cover what the column does
  (`Whole`); every box that is no gap shows a programme of a moment that was
  answered (`Placed`). As long as no answer overtook another, those answered are
  the first requests (`Arrived`), so what is there lies to one side of what
  comes, and putting it at the end or the beginning keeps the order (`Ordered`).
  In a column without the conditions of the properties all programmes answered
  so far are there (`Filled`), and if it only grew downwards every box is as high
  as its programme needs where the boxes above end, which is what `eTime` holds
  (`Stepping`). One lemma per case of the callback (`ColumnGap`, `ColumnTrips`,
  `ColumnAppends`, `ColumnPrepends`) and of the other steps (`ColumnAsks`,
  `ColumnFails`) treats one column; `BoxStep` is about the page.

`Recursion` - what the library states with operators as parameters, for sets and
functions instead, which these provers can instantiate: least and greatest
numbers of a set, induction along an interval for a set of numbers, and the
existence of a function given by its first value and a step. With these the
recursive functions `Reach` and `Bottom` of `Magazine` can be reasoned about.

`TimerConflicts_proofs` also has `TypeCorrect` and

* `EveryConflictCounted`: `Spec => []ConflictsCounted`. The timer `ConflictsNoticed`
  finds was looked at in the check (`DoneMarked`: every timer the check has done
  whose conflict it saw left a mark with one of those that start while it
  records - though not always on its own row).

The assumptions are the named `ASSUME`s of the modules: finite or natural
constants, disjoint sides, tolerances in order, programmes that follow each
other. Every safety property of a passing run is a theorem, under the hypotheses
given above. Everything that needs fairness stays with TLC (`EventuallyPlaced`,
`EventuallyScheduled`, `MovesFollowed`, `EveryClickAnswered`): liveness and `ENABLED`
are beyond the prover.

## Findings

* `conflicts_mail_once`: the mail count is written to the wrong timer.
* `timers_retry`: the retry of a failed timer is never reached.
* `timers_delete`: a check overwrites the user's delete request.
* `magazine_delta`: the height is never corrected where programmes are loaded above.

## Not modelled

Pure input and output (pictures, scraper, JSON and HTML output, curl, zip, wake on
LAN, configuration files) changes no state whose history
matters. The tests and tools in `epgtest.cc`, `eptest.c`, `lib/test.c`, `lib/demo.c`,
`parsertest.c`, `tools/` are not part of the programs.

Of the page in the browser the forms (timers, search timers, recordings, users),
the lists, the dialogs with their cache of details and the profile with its
hourly save are left out: they show and send what they are given. So are the
change of `needLogin`, the refusal 403 and the handler of `channels_load`. Most of the
JavaScript in the repository, 24,000 of 28,000 lines, is copied from other
projects (jQuery UI, the LESS compiler) and is not modelled; the map therefore
covers a small share of the JavaScript, whatever is modelled of the page.

## Plan

In this order, the parts with the most state shared between processes first.

1. `Timers`, the rest: moving a timer to another VDR, timers for any VDR, storing
   and deleting of search timers (there the test `nameChanged` near `webstore.c:575`
   looks inverted against `HISTORY.h:848`); the abstract specification of a request
   (asked, answered, done) which it refines; that a stale row of `checkTimers`
   resets a timer that has started to record meanwhile.
2. `ChannelMap`: reload, rename, removal, a file with an error.
3. `EpgdLoop`: triggers, times, failed steps, the handshake with the VDRs,
   composed with an abstract merge.
4. `EpgdataFiles`: index, tags, files, marking of old events.
5. `Episodes`, `Scraper`: downloads with lost connections. The cached details and
   the forms of the page, composed with `Timers`.
6. `TitleDistance`: levenshtein and getlvrmin against the textbook definition.
7. An abstract published schedule, refined by `EpgMerge`.
8. Proofs: the invariants of the new modules.
