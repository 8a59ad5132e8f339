------------------------------- MODULE Catalog -------------------------------
(***************************************************************************)
(* The pages a user watches and what is extracted from them:               *)
(* TargetUrlsService with its UrlInspectorService (src/target-urls) and    *)
(* DatapointsService (src/datapoints), for one user, beside the runs that  *)
(* read these rows and mark a target ACTIVE (src/job-executions).          *)
(*                                                                         *)
(* A request's arrival and its first query are one step, and a request     *)
(* that this query turns away is left out.  The database is external: it   *)
(* refuses a second row with the same url and user, a datapoint without a  *)
(* target and an update of a missing row, and it deletes in cascade.       *)
(***************************************************************************)
EXTENDS Naturals, FiniteSets

CONSTANTS
    Urls,        \* urls the DTO lets pass
    Absolute,    \* those with a scheme, which URL and fetch accept
    Targets,     \* ids of target_urls rows
    Points,      \* ids of datapoints rows, each with one job
    Slots,       \* requests and runs in flight
    None,        \* null, or an absent property of a DTO
    Unborn, Gone,  \* no row yet, no row any more
    MaxCalls,    \* bound: requests and runs served
    MaxFaults    \* bound: calls that reject, or whose answer is lost

Statuses == {"ACTIVE", "INACTIVE"}
Target   == [url : Urls, status : Statuses]
Point    == [target : Targets]

ASSUME CatalogAssumption ==
    /\ Absolute \subseteq Urls
    /\ Unborn # Gone
    /\ {Unborn, Gone} \cap (Target \cup Point) = {}
    /\ None \notin Urls \cup Statuses \cup Targets \cup Points
    /\ MaxCalls \in Nat /\ MaxFaults \in Nat

VARIABLES
    target,      \* the target_urls rows
    point,       \* the datapoints rows
    pc, op,      \* the await each slot is at, and what it does
    url, status, \* the url and the status it was given or has found out
    id,          \* the row it works for
    reached,     \* urls that have answered a request of ours
    had,         \* the urls each target has had
    assigned,    \* targets whose status a user has set
    answers,     \* what findOrCreate has answered, while the row keeps its url
    beaten,      \* slots whose url another slot has stored since they began
    calls, faults

slotVars == <<pc, op, url, status, id>>
ghosts   == <<reached, had, assigned, answers, beaten>>
vars     == <<target, point, slotVars, ghosts, calls, faults>>

Ops == {"create", "findOrCreate", "update", "remove",
        "addPoint", "changePoint", "removePoint", "run"}

Live(t)      == target[t] \notin {Unborn, Gone}
LivePoint(p) == point[p] \notin {Unborn, Gone}
Holders(u)   == {t \in Targets : Live(t) /\ target[t].url = u}
InFlight(s)  == pc[s] # "idle"

TypeOK ==
    /\ target \in [Targets -> Target \cup {Unborn, Gone}]
    /\ point \in [Points -> Point \cup {Unborn, Gone}]
    /\ pc \in [Slots -> {"idle", "inspect", "insert", "write", "delete",
                         "scrape", "mark"}]
    /\ op \in [Slots -> Ops \cup {None}]
    /\ url \in [Slots -> Urls \cup {None}]
    /\ status \in [Slots -> Statuses \cup {None}]
    /\ id \in [Slots -> Targets \cup Points \cup {None}]
    /\ reached \subseteq Absolute
    /\ had \in [Targets -> SUBSET Urls]
    /\ assigned \subseteq Targets
    /\ answers \subseteq [url : Urls, target : Targets]
    /\ beaten \subseteq Slots
    /\ calls \in 0..MaxCalls /\ faults \in 0..MaxFaults

Init ==
    /\ target = [t \in Targets |-> Unborn]
    /\ point = [p \in Points |-> Unborn]
    /\ pc = [s \in Slots |-> "idle"]
    /\ op = [s \in Slots |-> None]
    /\ url = [s \in Slots |-> None]
    /\ status = [s \in Slots |-> None]
    /\ id = [s \in Slots |-> None]
    /\ had = [t \in Targets |-> {}]
    /\ reached = {} /\ assigned = {} /\ answers = {} /\ beaten = {}
    /\ calls = 0 /\ faults = 0
-----------------------------------------------------------------------------
\* Requests and runs begin.

\* Bound: no insert begins for which no id would be left.
Spare(ops, left) == Cardinality({s \in Slots : InFlight(s) /\ op[s] \in ops}) < Cardinality(left)
SpareTarget == Spare({"create", "findOrCreate"}, {t \in Targets : target[t] = Unborn})
SparePoint  == Spare({"addPoint"}, {p \in Points : point[p] = Unborn})

Begin(s, o, next, i, u, st) ==
    /\ ~InFlight(s)
    /\ calls < MaxCalls
    /\ calls' = calls + 1
    /\ pc' = [pc EXCEPT ![s] = next]
    /\ op' = [op EXCEPT ![s] = o]
    /\ id' = [id EXCEPT ![s] = i]
    /\ url' = [url EXCEPT ![s] = u]
    /\ status' = [status EXCEPT ![s] = st]
    /\ beaten' = beaten \ {s}
    /\ UNCHANGED <<target, point, reached, had, assigned, answers, faults>>

BeginCreate(s, u) ==
    SpareTarget /\ Begin(s, "create", "inspect", None, u, None)

\* findOrCreate finds the row and is done, or finds none.
Find(u, t) ==
    /\ calls < MaxCalls
    /\ t \in Holders(u)
    /\ calls' = calls + 1
    /\ answers' = answers \cup {[url |-> u, target |-> t]}
    /\ UNCHANGED <<target, point, slotVars, reached, had, assigned, beaten, faults>>

\* It finds none and goes on.  Mutant: it does not look.
BeginFindOrCreateBlindly(s, u) ==
    SpareTarget /\ Begin(s, "findOrCreate", "inspect", None, u, None)

BeginFindOrCreate(s, u) ==
    /\ Holders(u) = {} /\ SpareTarget
    /\ Begin(s, "findOrCreate", "inspect", None, u, None)

BeginUpdate(s, t, u, st) == Live(t) /\ Begin(s, "update", "write", t, u, st)
BeginRemove(s, t) == Live(t) /\ Begin(s, "remove", "delete", t, None, None)

BeginAddPoint(s, t) ==
    /\ Live(t) /\ SparePoint
    /\ Begin(s, "addPoint", "insert", t, None, None)
BeginChangePoint(s, p) ==
    LivePoint(p) /\ Begin(s, "changePoint", "write", p, None, None)
BeginRemovePoint(s, p) ==
    LivePoint(p) /\ Begin(s, "removePoint", "delete", p, None, None)

\* A run of the datapoint's job: fetchJobTarget reads the url it will scrape.
BeginRun(s, p) ==
    /\ LivePoint(p)
    /\ Begin(s, "run", "scrape", p, target[point[p].target].url, None)

Arrive(s) ==
    \/ \E u \in Urls : BeginCreate(s, u) \/ BeginFindOrCreate(s, u)
    \/ \E t \in Targets :
          \/ BeginRemove(s, t)
          \/ \E u \in Urls \cup {None}, st \in Statuses \cup {None} :
                BeginUpdate(s, t, u, st)
          \/ BeginAddPoint(s, t)
    \/ \E p \in Points :
          BeginChangePoint(s, p) \/ BeginRemovePoint(s, p) \/ BeginRun(s, p)

-----------------------------------------------------------------------------
\* Their awaits.

Done(s) == pc' = [pc EXCEPT ![s] = "idle"] /\ UNCHANGED <<calls, faults>>

\* Mutants: an answer with an error status counts as well; a third status.
FoundAnswering(u, ok) == IF u \in Absolute THEN "ACTIVE" ELSE "INACTIVE"
FoundUnknown(u, ok)   == IF ok THEN "ACTIVE" ELSE "UNKNOWN"

\* An error status, a timeout and a url that fetch cannot parse mean INACTIVE.
Found(u, ok) == IF ok THEN "ACTIVE" ELSE "INACTIVE"

\* UrlInspectorService.inspect ends within five seconds and never throws.
Inspect(s, ok) ==
    /\ pc[s] = "inspect"
    /\ ok => url[s] \in Absolute
    /\ pc' = [pc EXCEPT ![s] = "insert"]
    /\ status' = [status EXCEPT ![s] = Found(url[s], ok)]
    /\ reached' = IF ok THEN reached \cup {url[s]} ELSE reached
    /\ UNCHANGED <<target, point, op, url, id, had, assigned, answers,
                   beaten, calls, faults>>

\* The slots for which a row with url u comes between their look and their
\* insert.
Overtaken(s, u) == {q \in Slots \ {s} : InFlight(q) /\ url[q] = u}

\* Mutant: there is no unique index on url and user.
InsertAnyway(s, t) ==
    /\ pc[s] = "insert" /\ op[s] \in {"create", "findOrCreate"}
    /\ target[t] = Unborn
    /\ target' = [target EXCEPT ![t] = [url |-> url[s], status |-> status[s]]]
    /\ had' = [had EXCEPT ![t] = {url[s]}]
    /\ beaten' = beaten \cup Overtaken(s, url[s])
    /\ answers' = IF op[s] = "findOrCreate"
                  THEN answers \cup {[url |-> url[s], target |-> t]} ELSE answers
    /\ Done(s)
    /\ UNCHANGED <<point, op, url, status, id, reached, assigned>>

Insert(s, t) ==
    /\ pc[s] = "insert" /\ op[s] \in {"create", "findOrCreate"}
    /\ Holders(url[s]) = {}
    /\ target[t] = Unborn
    /\ target' = [target EXCEPT ![t] = [url |-> url[s], status |-> status[s]]]
    /\ had' = [had EXCEPT ![t] = {url[s]}]
    /\ beaten' = beaten \cup Overtaken(s, url[s])
    /\ \/ /\ answers' = IF op[s] = "findOrCreate"
                        THEN answers \cup {[url |-> url[s], target |-> t]} ELSE answers
          /\ Done(s)
       \/ /\ faults < MaxFaults /\ faults' = faults + 1
          /\ pc' = [pc EXCEPT ![s] = "idle"]
          /\ UNCHANGED <<answers, calls>>
    /\ UNCHANGED <<point, op, url, status, id, reached, assigned>>

\* What is left of the answers when row t loses its url.
Forgotten(t) == {a \in answers : a.target # t}

\* The columns the DTO names.  The page is not inspected again: neither name
\* nor status follows the url.
Update(s) ==
    /\ pc[s] = "write" /\ op[s] = "update" /\ Live(id[s])
    /\ url[s] # None => Holders(url[s]) \subseteq {id[s]}
    /\ LET old == target[id[s]]
           u   == IF url[s] = None THEN old.url ELSE url[s]
       IN  /\ target' = [target EXCEPT ![id[s]] =
                 [url |-> u,
                  status |-> IF status[s] = None THEN old.status ELSE status[s]]]
           /\ answers' = IF u = old.url THEN answers ELSE Forgotten(id[s])
           /\ had' = [had EXCEPT ![id[s]] = @ \cup {u}]
           /\ beaten' = beaten \cup Overtaken(s, u)
    /\ assigned' = IF status[s] = None THEN assigned ELSE assigned \cup {id[s]}
    /\ Done(s)
    /\ UNCHANGED <<point, op, url, status, id, reached>>

\* The database deletes the datapoints with it.
Remove(s) ==
    /\ pc[s] = "delete" /\ op[s] = "remove" /\ Live(id[s])
    /\ target' = [target EXCEPT ![id[s]] = Gone]
    /\ point' = [p \in Points |->
                   IF LivePoint(p) /\ point[p].target = id[s] THEN Gone ELSE point[p]]
    /\ answers' = Forgotten(id[s])
    /\ Done(s)
    /\ UNCHANGED <<op, url, status, id, reached, had, assigned, beaten>>

AddPoint(s, p) ==
    /\ pc[s] = "insert" /\ op[s] = "addPoint" /\ Live(id[s])
    /\ point[p] = Unborn
    /\ point' = [point EXCEPT ![p] = [target |-> id[s]]]
    /\ Done(s)
    /\ UNCHANGED <<target, op, url, status, id, ghosts>>

\* It writes what is extracted, of which nothing is kept here: name and path if
\* it names them, and the optional columns, which become null if it does not.
ChangePoint(s) ==
    /\ pc[s] = "write" /\ op[s] = "changePoint" /\ LivePoint(id[s])
    /\ Done(s)
    /\ UNCHANGED <<target, point, op, url, status, id, ghosts>>

RemovePoint(s) ==
    /\ pc[s] = "delete" /\ op[s] = "removePoint" /\ LivePoint(id[s])
    /\ point' = [point EXCEPT ![id[s]] = Gone]
    /\ Done(s)
    /\ UNCHANGED <<target, op, url, status, id, ghosts>>

\* The scrape of the url the run has read; only a success goes on.
Scrape(s) ==
    /\ pc[s] = "scrape" /\ url[s] \in Absolute
    /\ pc' = [pc EXCEPT ![s] = "mark"]
    /\ reached' = reached \cup {url[s]}
    /\ UNCHANGED <<target, point, op, url, status, id, had, assigned, answers,
                   beaten, calls, faults>>

ScrapeFails(s) ==
    /\ pc[s] = "scrape"
    /\ Done(s)
    /\ UNCHANGED <<target, point, op, url, status, id, ghosts>>

\* markTargetActive goes by the job, whatever the target's url is by then; a
\* job that is gone has no target.
MarkTargetActive(s) ==
    /\ pc[s] = "mark"
    /\ target' = IF LivePoint(id[s])
                 THEN [target EXCEPT ![point[id[s]].target].status = "ACTIVE"]
                 ELSE target
    /\ Done(s)
    /\ UNCHANGED <<point, op, url, status, id, ghosts>>

-----------------------------------------------------------------------------
\* The database refuses.

UrlTaken(s) ==
    \/ pc[s] = "insert" /\ op[s] \in {"create", "findOrCreate"} /\ Holders(url[s]) # {}
    \/ /\ pc[s] = "write" /\ op[s] = "update"
       /\ url[s] # None /\ ~(Holders(url[s]) \subseteq {id[s]})

RowMissing(s) ==
    \/ op[s] \in {"update", "remove", "addPoint"} /\ ~Live(id[s])
    \/ op[s] \in {"changePoint", "removePoint"} /\ ~LivePoint(id[s])

Refused(s) ==
    /\ InFlight(s)
    /\ UrlTaken(s) \/ RowMissing(s)
    /\ Done(s)
    /\ UNCHANGED <<target, point, op, url, status, id, ghosts>>

CallFails(s) ==
    /\ pc[s] \notin {"idle", "inspect"}
    /\ faults < MaxFaults /\ faults' = faults + 1
    /\ pc' = [pc EXCEPT ![s] = "idle"]
    /\ UNCHANGED <<target, point, op, url, status, id, ghosts, calls>>

Proceed(s) ==
    \/ \E ok \in BOOLEAN : Inspect(s, ok)
    \/ \E t \in Targets : Insert(s, t)
    \/ Update(s) \/ Remove(s)
    \/ \E p \in Points : AddPoint(s, p)
    \/ ChangePoint(s) \/ RemovePoint(s)
    \/ Scrape(s) \/ ScrapeFails(s) \/ MarkTargetActive(s)
    \/ Refused(s) \/ CallFails(s)

Quiescent == (\A s \in Slots : ~InFlight(s)) /\ UNCHANGED vars

Next ==
    \/ \E s \in Slots : Arrive(s) \/ Proceed(s)
    \/ \E u \in Urls, t \in Targets : Find(u, t)
    \/ Quiescent

Spec == Init /\ [][Next]_vars
-----------------------------------------------------------------------------
\* Properties.

\* A target whose status no user has set is ACTIVE only if a page it stands
\* for, or stood for before its url was changed, has answered: an inspection
\* before the row was stored, or the scrape of a run that had read the url and
\* marks the target however late (inspect, fetchJobTarget, markTargetActive).
ActiveWasReached == \A t \in Targets \ assigned :
    Live(t) /\ target[t].status = "ACTIVE" => had[t] \cap reached # {}

\* findOrCreate answers one row for a url, the one that holds it, however its
\* calls overlap with each other, with creations and with changes of urls, and
\* for as long as that row is there and keeps its url.
AnswersAgree == \A a, b \in answers :
    /\ Live(a.target) /\ target[a.target].url = a.url
    /\ a.url = b.url => a.target = b.target

\* findOrCreate is refused, instead of answering with the row there is, only
\* when another request has stored the url while the page was inspected.
RefusedOnlyIfBeaten == [][\A s \in Slots :
    pc[s] = "insert" /\ op[s] = "findOrCreate" /\ pc'[s] = "idle" /\ faults' = faults
    /\ target' = target => s \in beaten]_vars
=============================================================================
