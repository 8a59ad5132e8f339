---------------------------- MODULE Catalog_proofs ----------------------------
(***************************************************************************)
(* Proofs about Catalog, for any number of urls, rows, slots and calls.    *)
(*                                                                         *)
(* None of the properties is inductive: what a slot does at its second     *)
(* await rests on what it has read or found out at its first.  The         *)
(* invariant says what still holds of that by then, in spite of what other *)
(* slots have done in between (Evidence, Free), and which rows exclude     *)
(* each other (Unique).                                                    *)
(***************************************************************************)
EXTENDS Catalog, TLAPS

Creates == {"create", "findOrCreate"}

\* Where a slot is decides which operation it is and what it carries.
SlotOK(s) ==
    /\ pc[s] = "inspect" => op[s] \in Creates
    /\ pc[s] = "insert" => op[s] \in Creates \cup {"addPoint"}
    /\ pc[s] = "write" => op[s] \in {"update", "changePoint"}
    /\ pc[s] = "delete" => op[s] \in {"remove", "removePoint"}
    /\ pc[s] \in {"scrape", "mark"} => op[s] = "run"
    /\ InFlight(s) =>
          /\ op[s] \in Creates \cup {"run"} => url[s] \in Urls
          /\ op[s] \in {"update", "remove", "addPoint"} => id[s] \in Targets
          /\ op[s] \in {"changePoint", "removePoint", "run"} => id[s] \in Points
    /\ pc[s] = "insert" /\ op[s] \in Creates => status[s] \in Statuses

\* What makes the ACTIVE a slot is about to write true.
Evidence(s) ==
    /\ pc[s] = "insert" /\ op[s] \in Creates /\ status[s] = "ACTIVE" => url[s] \in reached
    /\ pc[s] \in {"scrape", "mark"} =>
          /\ point[id[s]] # Unborn
          /\ LivePoint(id[s]) => url[s] \in had[point[id[s]].target]
    /\ pc[s] = "mark" => url[s] \in reached

\* What findOrCreate has found stays so, unless the slot has been beaten.
Free(s) == pc[s] \in {"inspect", "insert"} /\ op[s] = "findOrCreate" /\ s \notin beaten
               => Holders(url[s]) = {}

Unique == \A t, u \in Targets :
    Live(t) /\ Live(u) /\ target[t].url = target[u].url => t = u

\* A datapoint never outlives its target.
PointsHaveTargets == \A p \in Points : LivePoint(p) => Live(point[p].target)

HadOK     == \A t \in Targets : Live(t) => target[t].url \in had[t]
AnswersOK == \A a \in answers : Live(a.target) /\ target[a.target].url = a.url

Inv ==
    /\ TypeOK
    /\ \A s \in Slots : SlotOK(s)
    /\ \A s \in Slots : Evidence(s)
    /\ \A s \in Slots : Free(s)
    /\ Unique
    /\ PointsHaveTargets
    /\ HadOK
    /\ AnswersOK
    /\ ActiveWasReached

USE CatalogAssumption

LEMMA InitInv == Init => Inv
<1> SUFFICES ASSUME Init PROVE Inv
  OBVIOUS
<1> QED
  BY DEF Init, Inv, TypeOK, SlotOK, Evidence, Free, Unique, PointsHaveTargets, HadOK,
         AnswersOK, ActiveWasReached, InFlight, Live, LivePoint, Holders, Statuses, Ops

\* A slot's beginning touches its own locals and the count of calls only.
LEMMA BeginInv ==
    ASSUME Inv, NEW s \in Slots, NEW o \in Ops, NEW next, NEW i, NEW u \in Urls \cup {None},
           NEW st \in Statuses \cup {None}, Begin(s, o, next, i, u, st),
           i \in Targets \cup Points \cup {None},
           \/ next = "inspect" /\ o \in Creates /\ u \in Urls /\ (o = "findOrCreate" => Holders(u) = {})
           \/ next = "insert" /\ o = "addPoint" /\ i \in Targets
           \/ next = "write" /\ o = "update" /\ i \in Targets
           \/ next = "write" /\ o = "changePoint" /\ i \in Points
           \/ next = "delete" /\ o = "remove" /\ i \in Targets
           \/ next = "delete" /\ o = "removePoint" /\ i \in Points
           \/ next = "scrape" /\ o = "run" /\ i \in Points /\ u \in Urls /\ LivePoint(i)
              /\ u \in had[point[i].target]
    PROVE  Inv'
<1>1. TypeOK'
  BY DEF Inv, TypeOK, Begin, InFlight
<1>2. \A q \in Slots : SlotOK(q)'
  BY DEF Inv, TypeOK, Begin, SlotOK, InFlight, Creates
<1>3. \A q \in Slots : Evidence(q)'
  BY DEF Inv, TypeOK, Begin, Evidence, InFlight, Creates, LivePoint
<1>4. \A q \in Slots : Free(q)'
  BY DEF Inv, TypeOK, Begin, Free, InFlight, Creates, Holders, Live
<1>5. (Unique /\ PointsHaveTargets /\ HadOK /\ AnswersOK /\ ActiveWasReached)'
  BY DEF Inv, Begin, Unique, PointsHaveTargets, HadOK, AnswersOK, ActiveWasReached,
         Live, LivePoint
<1> QED BY <1>1, <1>2, <1>3, <1>4, <1>5 DEF Inv

LEMMA ArriveInv == ASSUME Inv, NEW s \in Slots, Arrive(s) PROVE Inv'
<1>1. ASSUME NEW u \in Urls, BeginCreate(s, u) PROVE Inv'
  BY <1>1, BeginInv DEF BeginCreate, Ops, Creates
<1>2. ASSUME NEW u \in Urls, BeginFindOrCreate(s, u) PROVE Inv'
  BY <1>2, BeginInv DEF BeginFindOrCreate, Ops, Creates
<1>3. ASSUME NEW t \in Targets, BeginRemove(s, t) PROVE Inv'
  BY <1>3, BeginInv DEF BeginRemove, Ops
<1>4. ASSUME NEW t \in Targets, NEW u \in Urls \cup {None}, NEW st \in Statuses \cup {None},
             BeginUpdate(s, t, u, st)
      PROVE  Inv'
  BY <1>4, BeginInv DEF BeginUpdate, Ops
<1>5. ASSUME NEW t \in Targets, BeginAddPoint(s, t) PROVE Inv'
  BY <1>5, BeginInv DEF BeginAddPoint, Ops
<1>6. ASSUME NEW p \in Points, BeginChangePoint(s, p) PROVE Inv'
  BY <1>6, BeginInv DEF BeginChangePoint, Ops
<1>7. ASSUME NEW p \in Points, BeginRemovePoint(s, p) PROVE Inv'
  BY <1>7, BeginInv DEF BeginRemovePoint, Ops
<1>8. ASSUME NEW p \in Points, BeginRun(s, p) PROVE Inv'
  <2>1. point[p] \in Point /\ point[p].target \in Targets /\ Live(point[p].target)
    BY <1>8 DEF BeginRun, Inv, TypeOK, LivePoint, PointsHaveTargets, Point
  <2>2. target[point[p].target] \in Target
    BY <2>1 DEF Inv, TypeOK, Live
  <2> DEFINE u == target[point[p].target].url
  <2>3. u \in Urls /\ u \in had[point[p].target]
    BY <2>1, <2>2 DEF Target, Inv, HadOK
  <2>4. LivePoint(p) /\ Begin(s, "run", "scrape", p, u, None)
    BY <1>8 DEF BeginRun
  <2> HIDE DEF u
  <2> QED BY <2>3, <2>4, BeginInv DEF Ops
<1> QED BY <1>1, <1>2, <1>3, <1>4, <1>5, <1>6, <1>7, <1>8 DEF Arrive

-----------------------------------------------------------------------------
\* A slot that is done owes nothing.
LEMMA EndsSlotOK ==
    ASSUME Inv, NEW s \in Slots, pc' = [pc EXCEPT ![s] = "idle"],
           UNCHANGED <<op, url, status, id>>
    PROVE  (\A q \in Slots : SlotOK(q))'
BY DEF Inv, TypeOK, SlotOK, InFlight

\* A slot that ends without having written anything.
LEMMA EndsInv ==
    ASSUME Inv, NEW s \in Slots, pc' = [pc EXCEPT ![s] = "idle"], faults' \in 0..MaxFaults,
           UNCHANGED <<target, point, op, url, status, id, ghosts, calls>>
    PROVE  Inv'
<1>1. TypeOK'
  BY DEF Inv, TypeOK, ghosts
<1>2. (\A q \in Slots : SlotOK(q))'
  BY EndsSlotOK
<1>3. (\A q \in Slots : Evidence(q) /\ Free(q))'
  BY DEF Inv, TypeOK, Evidence, Free, Holders, Live, LivePoint, ghosts
<1>4. (Unique /\ PointsHaveTargets /\ HadOK /\ AnswersOK /\ ActiveWasReached)'
  BY DEF Inv, Unique, PointsHaveTargets, HadOK, AnswersOK, ActiveWasReached,
         Live, LivePoint, ghosts
<1> QED BY <1>1, <1>2, <1>3, <1>4 DEF Inv

LEMMA InspectInv == ASSUME Inv, NEW s \in Slots, NEW ok \in BOOLEAN, Inspect(s, ok) PROVE Inv'
<1>1. TypeOK'
  BY DEF Inv, TypeOK, Inspect, Found, SlotOK, InFlight, Creates, Target, Point, Statuses, Ops, Live, LivePoint
<1>2. (\A q \in Slots : SlotOK(q))'
  BY DEF Inv, TypeOK, Inspect, Found, Statuses, SlotOK, InFlight, Creates
<1>3. (\A q \in Slots : Evidence(q))'
  BY DEF Inv, TypeOK, Inspect, Found, SlotOK, Evidence, InFlight, Creates, LivePoint, Point
<1>4. (\A q \in Slots : Free(q))'
  BY DEF Inv, TypeOK, Inspect, Free, Live, Holders
<1>5. (Unique /\ PointsHaveTargets /\ HadOK /\ AnswersOK)'
  BY DEF Inv, Inspect, Unique, PointsHaveTargets, HadOK, AnswersOK,
         Live, LivePoint
<1>6. ActiveWasReached'
  BY DEF Inv, Inspect, ActiveWasReached, Live
<1> QED BY <1>1, <1>2, <1>3, <1>4, <1>5, <1>6 DEF Inv


LEMMA InsertInv == ASSUME Inv, NEW s \in Slots, NEW t \in Targets, Insert(s, t) PROVE Inv'
<1>1. TypeOK'
  <2>1. url[s] \in Urls /\ status[s] \in Statuses
    BY DEF Inv, Insert, SlotOK, InFlight, Creates
  <2>2. [url |-> url[s], status |-> status[s]] \in Target
    BY <2>1 DEF Target
  <2>3. target' \in [Targets -> Target \cup {Unborn, Gone}]
    BY <2>2 DEF Inv, TypeOK, Insert
  <2>4. answers' \subseteq [url : Urls, target : Targets]
    BY <2>1 DEF Inv, TypeOK, Insert
  <2>5. had' \in [Targets -> SUBSET Urls]
    BY <2>1 DEF Inv, TypeOK, Insert
  <2>6. beaten' \subseteq Slots
    BY DEF Inv, TypeOK, Insert, Overtaken
  <2>7. faults' \in 0..MaxFaults /\ calls' \in 0..MaxCalls
    BY DEF Inv, TypeOK, Insert, Done
  <2> QED BY <2>3, <2>4, <2>5, <2>6, <2>7 DEF Inv, TypeOK, Insert, Done
<1>2. (\A q \in Slots : SlotOK(q))'
  BY EndsSlotOK DEF Insert, Done
<1>3. (\A q \in Slots : Evidence(q))'
  BY DEF Inv, TypeOK, Insert, Done, SlotOK, Evidence, InFlight, Live, LivePoint, Point,
         PointsHaveTargets
<1>4. (\A q \in Slots : Free(q))'
  BY DEF Inv, TypeOK, Insert, Done, SlotOK, Free, InFlight, Creates, Live, Holders,
         Overtaken, Target
<1>5. Unique'
  BY DEF Inv, TypeOK, Insert, SlotOK, InFlight, Unique, Live, Holders, Target
<1>6. PointsHaveTargets'
  BY DEF Inv, TypeOK, Insert, PointsHaveTargets, Live, LivePoint, Point, Target
<1>7. HadOK'
  BY DEF Inv, TypeOK, Insert, HadOK, Live, Target
<1>8. AnswersOK'
  <2>1. url[s] \in Urls
    BY DEF Inv, Insert, SlotOK, InFlight, Creates
  <2>2. target'[t] = [url |-> url[s], status |-> status[s]] /\ Live(t)'
    BY <2>1 DEF Inv, TypeOK, Insert, Live, SlotOK, Target, Creates
  <2>3. ASSUME NEW a \in answers PROVE Live(a.target)' /\ target'[a.target].url = a.url
    BY <2>3 DEF Inv, TypeOK, Insert, AnswersOK, Live
  <2> QED BY <2>2, <2>3 DEF Insert, AnswersOK
<1>9. ActiveWasReached'
  BY DEF Inv, TypeOK, Insert, SlotOK, InFlight, Evidence, Creates, ActiveWasReached, Live,
         HadOK, Target
<1> QED BY <1>1, <1>2, <1>3, <1>4, <1>5, <1>6, <1>7, <1>8, <1>9 DEF Inv


LEMMA UpdateInv == ASSUME Inv, NEW s \in Slots, Update(s) PROVE Inv'
<1>1. TypeOK'
  <2> DEFINE old == target[id[s]]
             new == [url |-> IF url[s] = None THEN old.url ELSE url[s],
                     status |-> IF status[s] = None THEN old.status ELSE status[s]]
  <2>1. id[s] \in Targets /\ old \in Target
    BY DEF Inv, TypeOK, Update, SlotOK, InFlight, Live
  <2>2. new \in Target
    BY <2>1 DEF Inv, TypeOK, Target
  <2>3. target' \in [Targets -> Target \cup {Unborn, Gone}]
    BY <2>1, <2>2 DEF Inv, TypeOK, Update
  <2>4. answers' \subseteq [url : Urls, target : Targets]
    BY DEF Inv, TypeOK, Update, Forgotten
  <2>5. had' \in [Targets -> SUBSET Urls]
    BY <2>1, <2>2 DEF Inv, TypeOK, Update, Target
  <2>6. beaten' \subseteq Slots /\ assigned' \subseteq Targets
    BY <2>1 DEF Inv, TypeOK, Update, Overtaken
  <2> QED BY <2>3, <2>4, <2>5, <2>6 DEF Inv, TypeOK, Update, Done
<1>2. (\A q \in Slots : SlotOK(q))'
  BY EndsSlotOK DEF Update, Done
<1>3. (\A q \in Slots : Evidence(q))'
  BY DEF Inv, TypeOK, Update, Done, SlotOK, Evidence, InFlight, Live, LivePoint, Point,
         PointsHaveTargets
<1>4. (\A q \in Slots : Free(q))'
  BY DEF Inv, TypeOK, Update, Done, SlotOK, Free, InFlight, Creates, Live, Holders,
         Overtaken, Target
<1>5. Unique'
  BY DEF Inv, TypeOK, Update, SlotOK, InFlight, Unique, Live, Holders, Target
<1>6. PointsHaveTargets'
  BY DEF Inv, TypeOK, Update, PointsHaveTargets, Live, LivePoint, Point, Target
<1>7. HadOK'
  BY DEF Inv, TypeOK, Update, HadOK, Live, Target
<1>8. AnswersOK'
  BY DEF Inv, TypeOK, Update, AnswersOK, Live, Target, Forgotten
<1>9. ActiveWasReached'
  BY DEF Inv, TypeOK, Update, SlotOK, InFlight, Evidence, Creates, ActiveWasReached, Live,
         HadOK, Target
<1> QED BY <1>1, <1>2, <1>3, <1>4, <1>5, <1>6, <1>7, <1>8, <1>9 DEF Inv


LEMMA RemoveInv == ASSUME Inv, NEW s \in Slots, Remove(s) PROVE Inv'
<1>1. TypeOK'
  <2>1. target' \in [Targets -> Target \cup {Unborn, Gone}]
    BY DEF Inv, TypeOK, Remove
  <2>2. point' \in [Points -> Point \cup {Unborn, Gone}]
    BY DEF Inv, TypeOK, Remove
  <2>3. answers' \subseteq [url : Urls, target : Targets]
    BY DEF Inv, TypeOK, Remove, Forgotten
  <2> QED BY <2>1, <2>2, <2>3 DEF Inv, TypeOK, Remove, Done
<1>2. (\A q \in Slots : SlotOK(q))'
  BY EndsSlotOK DEF Remove, Done
<1>3. (\A q \in Slots : Evidence(q))'
  BY DEF Inv, TypeOK, Remove, Done, SlotOK, Evidence, InFlight, Live, LivePoint, Point,
         PointsHaveTargets
<1>4. (\A q \in Slots : Free(q))'
  BY DEF Inv, TypeOK, Remove, Done, SlotOK, Free, InFlight, Creates, Live, Holders,
         Overtaken, Target
<1>5. Unique'
  BY DEF Inv, TypeOK, Remove, SlotOK, InFlight, Unique, Live, Holders, Target
<1>6. PointsHaveTargets'
  BY DEF Inv, TypeOK, Remove, PointsHaveTargets, Live, LivePoint, Point, Target
<1>7. HadOK'
  BY DEF Inv, TypeOK, Remove, HadOK, Live, Target
<1>8. AnswersOK'
  BY DEF Inv, TypeOK, Remove, AnswersOK, Live, Target, Forgotten
<1>9. ActiveWasReached'
  BY DEF Inv, TypeOK, Remove, SlotOK, InFlight, Evidence, Creates, ActiveWasReached, Live,
         HadOK, Target
<1> QED BY <1>1, <1>2, <1>3, <1>4, <1>5, <1>6, <1>7, <1>8, <1>9 DEF Inv


LEMMA AddPointInv == ASSUME Inv, NEW s \in Slots, NEW p \in Points, AddPoint(s, p) PROVE Inv'
<1>1. TypeOK'
  BY DEF Inv, TypeOK, AddPoint, Done, ghosts, SlotOK, InFlight, Creates, Point, Live, LivePoint
<1>2. (\A q \in Slots : SlotOK(q))'
  BY EndsSlotOK DEF AddPoint, Done
<1>3. (\A q \in Slots : Evidence(q))'
  BY DEF Inv, TypeOK, AddPoint, Done, ghosts, SlotOK, Evidence, InFlight, LivePoint, Point
<1>4. (\A q \in Slots : Free(q))'
  BY DEF Inv, TypeOK, AddPoint, Done, ghosts, Free, Live, Holders
<1>5. (Unique /\ HadOK /\ AnswersOK /\ ActiveWasReached)'
  BY DEF Inv, AddPoint, ghosts, Unique, HadOK, AnswersOK, ActiveWasReached, Live
<1>6. PointsHaveTargets'
  BY DEF Inv, TypeOK, AddPoint, SlotOK, InFlight, PointsHaveTargets, Live, LivePoint, Point
<1> QED BY <1>1, <1>2, <1>3, <1>4, <1>5, <1>6 DEF Inv

LEMMA RemovePointInv == ASSUME Inv, NEW s \in Slots, RemovePoint(s) PROVE Inv'
<1>1. TypeOK'
  BY DEF Inv, TypeOK, RemovePoint, Done, ghosts, SlotOK, InFlight, Creates, Point, Live, LivePoint
<1>2. (\A q \in Slots : SlotOK(q))'
  BY EndsSlotOK DEF RemovePoint, Done
<1>3. (\A q \in Slots : Evidence(q))'
  BY DEF Inv, TypeOK, RemovePoint, Done, ghosts, SlotOK, Evidence, InFlight, LivePoint, Point
<1>4. (\A q \in Slots : Free(q))'
  BY DEF Inv, TypeOK, RemovePoint, Done, ghosts, Free, Live, Holders
<1>5. (Unique /\ HadOK /\ AnswersOK /\ ActiveWasReached)'
  BY DEF Inv, RemovePoint, ghosts, Unique, HadOK, AnswersOK, ActiveWasReached, Live
<1>6. PointsHaveTargets'
  BY DEF Inv, TypeOK, RemovePoint, SlotOK, InFlight, PointsHaveTargets, Live, LivePoint, Point
<1> QED BY <1>1, <1>2, <1>3, <1>4, <1>5, <1>6 DEF Inv

LEMMA ScrapeInv == ASSUME Inv, NEW s \in Slots, Scrape(s) PROVE Inv'
<1>1. TypeOK'
  BY DEF Inv, TypeOK, Scrape, SlotOK, InFlight, Creates, Target, Point, Statuses, Ops, Live, LivePoint
<1>2. (\A q \in Slots : SlotOK(q))'
  BY DEF Inv, TypeOK, Scrape, SlotOK, InFlight, Creates
<1>3. (\A q \in Slots : Evidence(q))'
  BY DEF Inv, TypeOK, Scrape, SlotOK, Evidence, InFlight, Creates, LivePoint, Point
<1>4. (\A q \in Slots : Free(q))'
  BY DEF Inv, TypeOK, Scrape, Free, Live, Holders
<1>5. (Unique /\ PointsHaveTargets /\ HadOK /\ AnswersOK)'
  BY DEF Inv, Scrape, Unique, PointsHaveTargets, HadOK, AnswersOK,
         Live, LivePoint
<1>6. ActiveWasReached'
  BY DEF Inv, Scrape, ActiveWasReached, Live
<1> QED BY <1>1, <1>2, <1>3, <1>4, <1>5, <1>6 DEF Inv

\* The row keeps its url and its liveness; the run's own evidence covers it.
LEMMA MarkTargetActiveInv == ASSUME Inv, NEW s \in Slots, MarkTargetActive(s) PROVE Inv'
<1> DEFINE p == id[s]
           m == point[p].target
<1>1. p \in Points
  BY DEF Inv, MarkTargetActive, SlotOK, InFlight
<1>2. CASE ~LivePoint(p)
  BY <1>2, EndsInv DEF MarkTargetActive, Done, Inv, TypeOK
<1>3. CASE LivePoint(p)
  <2>1. m \in Targets /\ Live(m) /\ target[m] \in Target
    BY <1>1, <1>3 DEF Inv, TypeOK, LivePoint, Point, PointsHaveTargets, Live
  <2>2. target[m].url \in Urls
    BY <2>1 DEF Target
  <2> DEFINE new == [target[m] EXCEPT !.status = "ACTIVE"]
  <2>3. new = [url |-> target[m].url, status |-> "ACTIVE"]
    BY <2>1 DEF Target
  <2>4. new \in Target
    BY <2>2, <2>3 DEF Target, Statuses
  <2>5. target' = [target EXCEPT ![m] = new]
    BY <1>3 DEF MarkTargetActive
  <2>6. \A t \in Targets : Live(t)' <=> Live(t)
    BY <2>1, <2>4, <2>5 DEF Live, Inv, TypeOK
  <2>7. \A t \in Targets : target'[t].url = target[t].url
    BY <2>1, <2>3, <2>5 DEF Inv, TypeOK
  <2>8. UNCHANGED <<point, op, url, status, id, ghosts, calls, faults>>
        /\ pc' = [pc EXCEPT ![s] = "idle"]
    BY DEF MarkTargetActive, Done
  <2>9. TypeOK'
    BY <2>1, <2>4, <2>5, <2>8 DEF Inv, TypeOK, ghosts
  <2>10. (\A q \in Slots : SlotOK(q))'
    BY <2>8, EndsSlotOK
  <2>11. (\A q \in Slots : Evidence(q))'
    BY <2>8 DEF Inv, TypeOK, Evidence, LivePoint, ghosts
  <2>12. \A u \in Urls \cup {None} : Holders(u)' = Holders(u)
    BY <2>6, <2>7 DEF Holders
  <2>13. (\A q \in Slots : Free(q))'
    BY <2>8, <2>12 DEF Inv, TypeOK, Free, ghosts
  <2>14. (Unique /\ HadOK)'
    BY <2>6, <2>7, <2>8 DEF Inv, Unique, HadOK, ghosts
  <2>15. PointsHaveTargets'
    BY <2>6, <2>8 DEF Inv, TypeOK, PointsHaveTargets, LivePoint, Point
  <2>16. AnswersOK'
    BY <2>6, <2>7, <2>8 DEF Inv, TypeOK, AnswersOK, ghosts
  <2>17. had[m] \cap reached # {}
    BY <1>1, <1>3 DEF Inv, Evidence, MarkTargetActive
  <2>18. ActiveWasReached'
    BY <2>1, <2>5, <2>6, <2>8, <2>17 DEF Inv, TypeOK, ActiveWasReached, ghosts
  <2> QED BY <2>9, <2>10, <2>11, <2>13, <2>14, <2>15, <2>16, <2>18 DEF Inv
<1> QED BY <1>2, <1>3

LEMMA ProceedInv == ASSUME Inv, NEW s \in Slots, Proceed(s) PROVE Inv'
<1>1. CASE ScrapeFails(s) \/ ChangePoint(s)
  BY <1>1, EndsInv DEF ScrapeFails, ChangePoint, Done, Inv, TypeOK
<1>2. CASE Refused(s)
  BY <1>2, EndsInv DEF Refused, Done, Inv, TypeOK
<1>3. CASE CallFails(s)
  <2>1. faults' \in 0..MaxFaults
    BY <1>3 DEF CallFails, Inv, TypeOK
  <2> QED BY <1>3, <2>1, EndsInv DEF CallFails
<1> QED
  BY <1>1, <1>2, <1>3, InspectInv, InsertInv, UpdateInv, RemoveInv, AddPointInv,
     RemovePointInv, ScrapeInv, MarkTargetActiveInv DEF Proceed

LEMMA FindInv == ASSUME Inv, NEW u \in Urls, NEW t \in Targets, Find(u, t) PROVE Inv'
<1>1. TypeOK'
  BY DEF Inv, TypeOK, Find, slotVars
<1>2. (\A q \in Slots : SlotOK(q) /\ Evidence(q) /\ Free(q))'
  BY DEF Inv, Find, slotVars, SlotOK, Evidence, Free, InFlight, LivePoint, Holders, Live
<1>3. AnswersOK'
  BY DEF Inv, Find, AnswersOK, Holders, Live
<1>4. (Unique /\ PointsHaveTargets /\ HadOK /\ ActiveWasReached)'
  BY DEF Inv, Find, Unique, PointsHaveTargets, HadOK, ActiveWasReached,
         Live, LivePoint
<1> QED BY <1>1, <1>2, <1>3, <1>4 DEF Inv

LEMMA NextInv == Inv /\ [Next]_vars => Inv'
<1> SUFFICES ASSUME Inv, [Next]_vars PROVE Inv'
  OBVIOUS
<1>1. CASE UNCHANGED vars
  BY <1>1 DEF Inv, TypeOK, SlotOK, Evidence, Free, Unique, PointsHaveTargets, HadOK,
        AnswersOK, ActiveWasReached, InFlight, Live, LivePoint, Holders,
        vars, slotVars, ghosts
<1> QED
  BY <1>1, ArriveInv, ProceedInv, FindInv DEF Next, Quiescent

THEOREM SpecInv == Spec => []Inv
<1> QED BY InitInv, NextInv, PTL DEF Spec
-----------------------------------------------------------------------------
\* Every row, every slot and every answer keeps its type, and no status other
\* than the two of the schema is ever stored.
THEOREM TypeCorrect == Spec => []TypeOK
<1>1. Inv => TypeOK
  BY DEF Inv
<1> QED BY <1>1, SpecInv, PTL

\* A target is ACTIVE, unless a user has set it so, only if a page it stands for
\* or has stood for has answered: the late mark of a run rests on the url the
\* run had read when it began, which the row then held.
THEOREM ActiveTargetsWereReached == Spec => []ActiveWasReached
<1>1. Inv => ActiveWasReached
  BY DEF Inv
<1> QED BY <1>1, SpecInv, PTL

\* findOrCreate answers one row for a url, whatever other requests do between
\* its look and its insert.
THEOREM OneAnswerPerUrl == Spec => []AnswersAgree
<1>1. Inv => AnswersAgree
  <2> SUFFICES ASSUME Inv PROVE AnswersAgree
    OBVIOUS
  <2>1. \A a \in answers : a.target \in Targets /\ Live(a.target) /\ target[a.target].url = a.url
    BY DEF Inv, TypeOK, AnswersOK
  <2> QED BY <2>1 DEF Inv, Unique, AnswersAgree
<1> QED BY <1>1, SpecInv, PTL

\* findOrCreate is refused, no call having failed, only when another request
\* has stored the url since it looked.
THEOREM FindOrCreateRefusals == Spec => RefusedOnlyIfBeaten
<1> DEFINE A == \A s \in Slots :
      pc[s] = "insert" /\ op[s] = "findOrCreate" /\ pc'[s] = "idle" /\ faults' = faults
      /\ target' = target => s \in beaten
<1>1. Inv /\ [Next]_vars => [A]_vars
  <2> SUFFICES ASSUME Inv, Next, NEW s \in Slots, pc[s] = "insert", op[s] = "findOrCreate",
                      pc'[s] = "idle", faults' = faults, target' = target
               PROVE  s \in beaten
    BY DEF vars
  <2>1. ASSUME NEW q \in Slots, Arrive(q) PROVE FALSE
    <3>1. PICK o, next, i, u, st : Begin(q, o, next, i, u, st)
                                         /\ next # "idle"
      BY <2>1 DEF Arrive, BeginCreate, BeginFindOrCreate, BeginUpdate, BeginRemove,
                  BeginAddPoint, BeginChangePoint, BeginRemovePoint, BeginRun
    <3> QED BY <3>1 DEF Begin, InFlight, Inv, TypeOK
  <2>2. ASSUME NEW q \in Slots, Proceed(q), q # s PROVE FALSE
    BY <2>2 DEF Proceed, Inspect, Insert, Update, Remove, AddPoint, ChangePoint, RemovePoint,
               Scrape, ScrapeFails, MarkTargetActive, Refused, CallFails, Done, Inv, TypeOK
  <2>3. ASSUME NEW t \in Targets, Insert(s, t) PROVE FALSE
    <3>1. url[s] \in Urls /\ status[s] \in Statuses
      BY DEF Inv, SlotOK, InFlight, Creates
    <3>2. target'[t] \in Target /\ target[t] = Unborn
      BY <2>3, <3>1 DEF Insert, Inv, TypeOK, Target
    <3> QED BY <3>2
  <2>4. ASSUME CallFails(s) PROVE FALSE
    BY <2>4 DEF CallFails, Inv, TypeOK
  <2>5. ASSUME Refused(s) PROVE s \in beaten
    BY <2>5 DEF Refused, UrlTaken, RowMissing, Inv, Free
  <2>6. ASSUME Proceed(s) PROVE s \in beaten
    BY <2>3, <2>4, <2>5, <2>6 DEF Proceed, Inspect, Update, Remove, AddPoint, ChangePoint,
       RemovePoint, Scrape, ScrapeFails, MarkTargetActive, Inv, TypeOK
  <2>7. ASSUME NEW u \in Urls, NEW t \in Targets, Find(u, t) PROVE FALSE
    BY <2>7 DEF Find, slotVars
  <2>8. ASSUME Quiescent PROVE FALSE
    BY <2>8 DEF Quiescent, vars, slotVars, InFlight
  <2> QED BY <2>1, <2>2, <2>6, <2>7, <2>8 DEF Next
<1>2. Spec => [][A]_vars
  BY <1>1, SpecInv, PTL DEF Spec
<1> QED BY <1>2 DEF RefusedOnlyIfBeaten
=============================================================================
