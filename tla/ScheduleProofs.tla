---------------------------- MODULE ScheduleProofs ----------------------------
(***************************************************************************)
(* What holds of the virtual applications of a search, whatever answers    *)
(* come, fail or are aborted, and of the exploration of their schedules:   *)
(* without faults nothing is shown that is stale, aborted or answered      *)
(* twice; and what an exploration reports is what there is, breadth first. *)
(* The runtime's fields are followed one by one, since its methods update  *)
(* them so; the exploration's invariant relates what was seen to what can  *)
(* be reached in as many steps as the traces that wait are long.           *)
(***************************************************************************)
EXTENDS ComponentsProofs

-----------------------------------------------------------------------------
\* The runtime of a virtual application, typed: its tables refer to one another.
Queries(c) == {c.corpus[i] : i \in DOMAIN c.corpus}
Statuses == {"pending", "aborted", "failed", "completed"}
RequestsOf(c) == [query : Queries(c), generation : Nat \ {0}, attempt : Nat \ {0}, status : Statuses]
Timers == [owner : Nat \ {0}, due : Nat, status : {"pending", "fired"}]
Commits == [request : Nat \ {0}, generation : Nat, attempt : Nat, callback : Nat]
Typed(c, n, g, q, t, y, b, m) ==
    /\ n \in Nat /\ g \in Nat /\ q \in Seq(RequestsOf(c)) /\ t \in Seq(Timers)
    /\ y \in Seq(Nat) /\ b \in Seq(Nat) /\ m \in Seq(Commits)
    /\ Len(b) = Len(q) /\ Len(y) = g
    /\ \A i \in DOMAIN q : q[i].generation <= g
    /\ \A j \in DOMAIN t : t[j].owner \in DOMAIN q

Record(n, g, x, q, t, y, b, m) ==
    [now |-> n, generation |-> g, result |-> x, requests |-> q, timers |-> t, retries |-> y,
     callbacks |-> b, commits |-> m]
IsRuntime(c, rt) ==
    /\ rt = Record(rt.now, rt.generation, rt.result, rt.requests, rt.timers, rt.retries, rt.callbacks, rt.commits)
    /\ Typed(c, rt.now, rt.generation, rt.requests, rt.timers, rt.retries, rt.callbacks, rt.commits)

\* What each method leaves.
Asked(query, g, k) == [query |-> query, generation |-> g, attempt |-> k, status |-> "pending"]

\* A request more, ...
LEMMA IssueIs ==
    ASSUME NEW n, NEW g, NEW x, NEW q, NEW t, NEW y, NEW b, NEW m, NEW query, NEW h, NEW k
    PROVE  Issue(Record(n, g, x, q, t, y, b, m), query, h, k) =
             Record(n, IF h = 0 THEN g + 1 ELSE g, x,
                    Append(q, Asked(query, IF h = 0 THEN g + 1 ELSE h, k)), t,
                    IF h = 0 THEN Append(y, 0) ELSE y, Append(b, 0), m)
  <1> DEFINE p == Asked(query, IF h = 0 THEN g + 1 ELSE h, k)
             r == Record(n, g, x, q, t, y, b, m)
  <1>1. r.generation = g /\ r.requests = q /\ r.retries = y /\ r.callbacks = b
    BY DEF Record
  <1>2. CASE h = 0
    <2>1. Issue(r, query, h, k) =
            [r EXCEPT !.generation = g + 1, !.requests = Append(q, p),
                      !.retries = Append(y, 0), !.callbacks = Append(b, 0)]
      <3> HIDE DEF r
      <3> QED BY <1>1, <1>2 DEF Issue, Asked
    <2> HIDE DEF p
    <2> QED BY <1>2, <2>1 DEF Record, p
  <1>3. CASE h # 0
    <2>1. Issue(r, query, h, k) =
            [r EXCEPT !.generation = g, !.requests = Append(q, p), !.retries = y, !.callbacks = Append(b, 0)]
      <3> HIDE DEF r
      <3> QED BY <1>1, <1>3 DEF Issue, Asked
    <2> QED BY <1>3, <2>1 DEF Record
  <1> QED BY <1>2, <1>3

Marked(rt, i, status) == [rt EXCEPT !.requests[i].status = status]
Put(q, i, status) == [q EXCEPT ![i].status = status]

\* ... a request marked, ...
LEMMA StatusIs ==
    ASSUME NEW n, NEW g, NEW x, NEW q, NEW t, NEW y, NEW b, NEW m, NEW i, NEW status
    PROVE  Marked(Record(n, g, x, q, t, y, b, m), i, status) = Record(n, g, x, Put(q, i, status), t, y, b, m)
  <1> DEFINE p == [q EXCEPT ![i].status = status]
             r == Record(n, g, x, q, t, y, b, m)
  <1>1. r.requests = q
    BY DEF Record
  <1>2. [r EXCEPT !.requests[i].status = status] = [r EXCEPT !.requests = p]
    <2> HIDE DEF r
    <2> QED BY <1>1
  <1> HIDE DEF p
  <1>3. [r EXCEPT !.requests = p] = Record(n, g, x, p, t, y, b, m)
    BY DEF Record
  <1> QED BY <1>2, <1>3 DEF p, Put, Marked

Retried(c, q, n, i) ==
    LET timer == [owner |-> i, due |-> n + 1, status |-> "pending"]
    IN IF q[i].attempt > c.retryBudget THEN <<>>
       ELSE IF "duplicateRetryTimers" \in c.faults THEN <<timer, timer>> ELSE <<timer>>

\* ... and a timer set for it: one, or two by a fault.
LEMMA FailIs ==
    ASSUME NEW c, NEW n, NEW g, NEW x, NEW q, NEW t \in Seq(Timers), NEW y, NEW b, NEW m, NEW i,
           q[i].attempt \in Nat, c.retryBudget \in Nat
    PROVE  Fail(c, Record(n, g, x, q, t, y, b, m), i) =
             Record(n, g, x, Put(q, i, "failed"), t \o Retried(c, q, n, i), y, b, m)
  <1> DEFINE p == Put(q, i, "failed")
             r == Record(n, g, x, q, t, y, b, m)
             f == Record(n, g, x, p, t, y, b, m)
             timer == [owner |-> i, due |-> n + 1, status |-> "pending"]
             w == IF "duplicateRetryTimers" \in c.faults THEN <<timer, timer>> ELSE <<timer>>
  <1>1. Marked(r, i, "failed") = f
    BY StatusIs
  <1>2. r.requests = q /\ f.now = n /\ f.timers = t
    BY DEF Record
  <1>3. CASE q[i].attempt <= c.retryBudget
    <2>1. Fail(c, r, i) = ScheduleRetry(c, f, i)
      <3> HIDE DEF r, f
      <3> QED BY <1>1, <1>2, <1>3 DEF Fail, Marked
    <2>2. ScheduleRetry(c, f, i) = [f EXCEPT !.timers = t \o w]
      <3> HIDE DEF f
      <3> QED BY <1>2 DEF ScheduleRetry
    <2>3. Retried(c, q, n, i) = w
      BY <1>3 DEF Retried
    <2> DEFINE v == t \o w
    <2>5. Fail(c, r, i) = [f EXCEPT !.timers = v] /\ v = t \o Retried(c, q, n, i)
      BY <2>1, <2>2, <2>3
    <2> HIDE DEF w, p, v
    <2>4. [f EXCEPT !.timers = v] = Record(n, g, x, p, v, y, b, m)
      BY DEF Record
    <2> QED BY <2>5, <2>4 DEF p
  <1>4. CASE ~(q[i].attempt <= c.retryBudget)
    <2>1. Fail(c, r, i) = f
      <3> HIDE DEF r, f
      <3> QED BY <1>1, <1>2, <1>4 DEF Fail, Marked
    <2>2. Retried(c, q, n, i) = <<>>
      BY <1>4 DEF Retried
    <2>3. t \o <<>> = t
      OBVIOUS
    <2> QED BY <2>1, <2>2, <2>3
  <1> QED BY <1>3, <1>4

Called(b, i) == [b EXCEPT ![i] = @ + 1]
Fired(t, j) == [t EXCEPT ![j].status = "fired"]

\* A timer that fires asks again.
LEMMA FireIs ==
    ASSUME NEW n, NEW g, NEW x, NEW q, NEW t, NEW y, NEW b, NEW m, NEW j,
           NEW i, i = t[j].owner, NEW h, h = q[i].generation, h # 0
    PROVE  Fire(Record(n, g, x, q, t, y, b, m), j) =
             Record(n, g, x, Append(q, Asked(q[i].query, h, q[i].attempt + 1)), Fired(t, j), Called(y, h),
                    Append(b, 0), m)
  <1> DEFINE r == Record(n, g, x, q, t, y, b, m)
             u == Fired(t, j)
             z == Called(y, h)
             f == Record(n, g, x, q, u, z, b, m)
  <1>1. r.requests = q /\ r.timers = t /\ r.retries = y
    BY DEF Record
  <1>2. [r EXCEPT !.timers[j].status = "fired", !.retries[h] = @ + 1] = [r EXCEPT !.timers = u, !.retries = z]
    <2> HIDE DEF r
    <2> QED BY <1>1 DEF Fired, Called
  <1>3. [r EXCEPT !.timers = u, !.retries = z] = f
    <2> HIDE DEF u, z
    <2> DEFINE v == Record(n, g, x, q, u, y, b, m)
    <2>1. [r EXCEPT !.timers = u] = v
      BY DEF Record
    <2>2. [v EXCEPT !.retries = z] = f
      BY DEF Record
    <2>3. [r EXCEPT !.timers = u, !.retries = z] = [[r EXCEPT !.timers = u] EXCEPT !.retries = z]
      <3> HIDE DEF r
      <3> QED OBVIOUS
    <2> QED BY <2>1, <2>2, <2>3
  <1>4. Fire(r, j) = Issue(f, q[i].query, h, q[i].attempt + 1)
    <2> HIDE DEF r, f, u, z
    <2>1. Fire(r, j) = Issue([r EXCEPT !.timers[j].status = "fired", !.retries[q[i].generation] = @ + 1],
                             q[i].query, q[i].generation, q[i].attempt + 1)
      BY <1>1 DEF Fire
    <2> QED BY <1>2, <1>3, <2>1
  <1> HIDE DEF u, z
  <1>5. Issue(f, q[i].query, h, q[i].attempt + 1) =
          Record(n, g, x, Append(q, Asked(q[i].query, h, q[i].attempt + 1)), u, z, Append(b, 0), m)
    BY IssueIs
  <1> QED BY <1>4, <1>5 DEF u, z

\* Of the answers that come, those that are shown.
Committed(c, g, answer) ==
    LET stale == answer.generation < g
        aborted == answer.status = "aborted"
    IN \/ ~stale /\ ~aborted
       \/ stale /\ "commitStaleResponses" \in c.faults
       \/ aborted /\ "commitAbortedResponses" \in c.faults
Shown(c, g, x, q, i) == IF Committed(c, g, q[i]) THEN <<q[i].query, q[i].attempt>> ELSE x
Logged(c, g, q, m, i, k) ==
    IF ~Committed(c, g, q[i]) THEN m
    ELSE Append(m, [request |-> i, generation |-> q[i].generation, attempt |-> q[i].attempt, callback |-> k])

\* An answer is counted and, it may be, shown.
LEMMA CallbackIs ==
    ASSUME NEW c, NEW n, NEW g, NEW x, NEW q, NEW t, NEW y, NEW b, NEW m, NEW i, NEW d, d = Called(b, i)
    PROVE  Callback(c, Record(n, g, x, q, t, y, b, m), i) =
             Record(n, g, Shown(c, g, x, q, i), q, t, y, d, Logged(c, g, q, m, i, d[i]))
  <1> DEFINE r == Record(n, g, x, q, t, y, b, m)
             f == Record(n, g, x, q, t, y, d, m)
             p == q[i]
             e == [request |-> i, generation |-> p.generation, attempt |-> p.attempt, callback |-> d[i]]
  <1>1. r.requests = q /\ r.generation = g /\ r.callbacks = b /\ f.callbacks = d /\ f.commits = m
    BY DEF Record
  <1>2. [r EXCEPT !.callbacks[i] = @ + 1] = f
    <2>1. [r EXCEPT !.callbacks[i] = @ + 1] = [r EXCEPT !.callbacks = d]
      <3> HIDE DEF r
      <3> QED BY <1>1 DEF Called
    <2>2. [r EXCEPT !.callbacks = d] = f
      BY DEF Record
    <2> QED BY <2>1, <2>2
  <1>3. ShouldCommit(c, r, p) <=> Committed(c, g, p)
    <2> HIDE DEF r, p
    <2> QED BY <1>1 DEF ShouldCommit, Committed
  <1>4. CASE ~Committed(c, g, p)
    <2>1. Callback(c, r, i) = f
      <3> HIDE DEF r, f
      <3> QED BY <1>1, <1>2, <1>3, <1>4 DEF Callback
    <2> QED BY <1>4, <2>1 DEF Shown, Logged
  <1>5. CASE Committed(c, g, p)
    <2>1. Callback(c, r, i) = [f EXCEPT !.result = <<p.query, p.attempt>>, !.commits = Append(m, e)]
      <3> HIDE DEF r, f
      <3> QED BY <1>1, <1>2, <1>3, <1>5 DEF Callback
    <2> DEFINE o == <<p.query, p.attempt>>
               w == Append(m, e)
               v == Record(n, g, o, q, t, y, d, m)
    <2>3. Shown(c, g, x, q, i) = o /\ Logged(c, g, q, m, i, d[i]) = w
      BY <1>5 DEF Shown, Logged
    <2>4. Callback(c, r, i) = [f EXCEPT !.result = o, !.commits = w]
      BY <2>1
    <2> HIDE DEF o, w
    <2>5. [f EXCEPT !.result = o] = v
      BY DEF Record
    <2>6. [v EXCEPT !.commits = w] = Record(n, g, o, q, t, y, d, w)
      BY DEF Record
    <2>7. [f EXCEPT !.result = o, !.commits = w] = [[f EXCEPT !.result = o] EXCEPT !.commits = w]
      <3> HIDE DEF f
      <3> QED OBVIOUS
    <2> QED BY <2>3, <2>4, <2>5, <2>6, <2>7
  <1> QED BY <1>4, <1>5

\* Delivered, an answer is shown once, or twice by a fault.
LEMMA DeliverIs ==
    ASSUME NEW c, NEW n, NEW g, NEW x, NEW q, NEW t, NEW y, NEW b, NEW m, NEW i, NEW d, NEW e,
           d = Called(b, i), e = Called(d, i)
    PROVE  Deliver(c, Record(n, g, x, q, t, y, b, m), i) =
             IF "duplicateCallbacks" \in c.faults
             THEN Record(n, g, Shown(c, g, Shown(c, g, x, q, i), q, i), Put(q, i, "completed"), t, y, e,
                         Logged(c, g, q, Logged(c, g, q, m, i, d[i]), i, e[i]))
             ELSE Record(n, g, Shown(c, g, x, q, i), Put(q, i, "completed"), t, y, d, Logged(c, g, q, m, i, d[i]))
  <1> DEFINE r == Record(n, g, x, q, t, y, b, m)
             x1 == Shown(c, g, x, q, i)
             m1 == Logged(c, g, q, m, i, d[i])
             x2 == Shown(c, g, x1, q, i)
             m2 == Logged(c, g, q, m1, i, e[i])
             r1 == Record(n, g, x1, q, t, y, d, m1)
             r2 == Record(n, g, x2, q, t, y, e, m2)
             called == IF "duplicateCallbacks" \in c.faults THEN r2 ELSE r1
  <1>1. Callback(c, r, i) = r1
    BY CallbackIs
  <1>2. Callback(c, r1, i) = r2
    <2> HIDE DEF x1, m1
    <2> QED BY CallbackIs
  <1>3. Deliver(c, r, i) = Marked(called, i, "completed")
    <2> HIDE DEF r, r1, r2
    <2> QED BY <1>1, <1>2 DEF Deliver, Marked
  <1>4. Marked(r1, i, "completed") = Record(n, g, x1, Put(q, i, "completed"), t, y, d, m1)
    <2> HIDE DEF x1, m1
    <2> QED BY StatusIs
  <1>5. Marked(r2, i, "completed") = Record(n, g, x2, Put(q, i, "completed"), t, y, e, m2)
    <2> HIDE DEF x2, m2
    <2> QED BY StatusIs
  <1> HIDE DEF r1, r2, r
  <1> QED BY <1>3, <1>4, <1>5 DEF r

\* The tables of a typed runtime are of one another.
LEMMA TypedAre ==
    ASSUME NEW c, NEW n, NEW g, NEW q, NEW t, NEW y, NEW b, NEW m, Typed(c, n, g, q, t, y, b, m)
    PROVE  /\ DOMAIN q = 1 .. Len(q) /\ Len(q) \in Nat /\ DOMAIN b = DOMAIN q /\ DOMAIN y = 1 .. g
           /\ \A i \in DOMAIN q : /\ q[i] \in RequestsOf(c) /\ q[i].generation \in 1 .. g /\ q[i].attempt \in Nat \ {0}
                                  /\ q[i].generation \in DOMAIN y /\ y[q[i].generation] \in Nat
                                  /\ b[i] \in Nat /\ i \in Nat \ {0} /\ q[i].status \in Statuses
           /\ \A j \in DOMAIN t : t[j] \in Timers /\ t[j].owner \in DOMAIN q /\ t[j].due \in Nat /\ j \in Nat
  <1> USE DEF Typed
  <1>1. DOMAIN q = 1 .. Len(q) /\ Len(q) \in Nat /\ DOMAIN b = DOMAIN q /\ DOMAIN y = 1 .. g
    OBVIOUS
  <1>2. ASSUME NEW i \in DOMAIN q
        PROVE  /\ q[i] \in RequestsOf(c) /\ q[i].generation \in 1 .. g /\ q[i].attempt \in Nat \ {0}
               /\ q[i].generation \in DOMAIN y /\ y[q[i].generation] \in Nat
               /\ b[i] \in Nat /\ i \in Nat \ {0} /\ q[i].status \in Statuses
    <2>1. q[i] \in RequestsOf(c)
      OBVIOUS
    <2>2. q[i].generation \in Nat \ {0} /\ q[i].attempt \in Nat \ {0} /\ q[i].status \in Statuses
      BY <2>1 DEF RequestsOf
    <2>3. q[i].generation \in 1 .. g
      BY <2>2
    <2>4. y[q[i].generation] \in Nat
      BY <1>1, <2>3
    <2> QED BY <1>1, <2>1, <2>2, <2>3, <2>4
  <1>3. ASSUME NEW j \in DOMAIN t
        PROVE  t[j] \in Timers /\ t[j].owner \in DOMAIN q /\ t[j].due \in Nat /\ j \in Nat
    <2>1. t[j] \in Timers /\ j \in Nat
      OBVIOUS
    <2> QED BY <2>1 DEF Timers
  <1> QED BY <1>1, <1>2, <1>3

\* A request that is marked is the same but for its status.
LEMMA PutIs ==
    ASSUME NEW c, NEW q \in Seq(RequestsOf(c)), NEW i \in DOMAIN q, NEW status \in Statuses
    PROVE  /\ Put(q, i, status) \in Seq(RequestsOf(c)) /\ DOMAIN Put(q, i, status) = DOMAIN q
           /\ Len(Put(q, i, status)) = Len(q)
           /\ \A k \in DOMAIN q : /\ Put(q, i, status)[k].query = q[k].query
                                  /\ Put(q, i, status)[k].generation = q[k].generation
                                  /\ Put(q, i, status)[k].attempt = q[k].attempt
                                  /\ k # i => Put(q, i, status)[k] = q[k]
           /\ Put(q, i, status)[i].status = status
  <1> DEFINE p == [q[i] EXCEPT !.status = status]
             u == Put(q, i, status)
  <1>1. q[i] \in RequestsOf(c)
    OBVIOUS
  <1>2. /\ p \in RequestsOf(c) /\ p.query = q[i].query /\ p.generation = q[i].generation
        /\ p.attempt = q[i].attempt /\ p.status = status
    BY <1>1 DEF RequestsOf
  <1>3. u = [q EXCEPT ![i] = p]
    BY DEF Put
  <1> HIDE DEF p
  <1> DEFINE S == RequestsOf(c)
  <1>4. q \in Seq(S) /\ p \in S
    BY <1>2
  <1> HIDE DEF S
  <1>5. /\ [q EXCEPT ![i] = p] \in Seq(S) /\ DOMAIN [q EXCEPT ![i] = p] = DOMAIN q
        /\ Len([q EXCEPT ![i] = p]) = Len(q)
        /\ \A k \in DOMAIN q : [q EXCEPT ![i] = p][k] = IF k = i THEN p ELSE q[k]
    BY <1>4
  <1> HIDE DEF u
  <1>6. /\ u \in Seq(S) /\ DOMAIN u = DOMAIN q /\ Len(u) = Len(q)
        /\ \A k \in DOMAIN q : u[k] = IF k = i THEN p ELSE q[k]
    BY <1>3, <1>5
  <1> QED BY <1>2, <1>6 DEF u, S

-----------------------------------------------------------------------------
\* Actions are offered of what there is, ...
ActionsOf == [kind : {Kinds[i] : i \in DOMAIN Kinds}, arg : Nat]
AtRequest(a, q, among) == a.arg \in DOMAIN q /\ q[a.arg].status \in among
IsOffered(c, n, g, q, t, a) ==
    \/ a.kind = "abort" /\ AtRequest(a, q, {"pending"})
    \/ a.kind = "fail" /\ AtRequest(a, q, {"pending"})
    \/ a.kind = "deliver" /\ AtRequest(a, q, {"pending", "aborted"})
    \/ a.kind = "advance" /\ \E j \in DOMAIN t : a.arg = t[j].due /\ t[j].due > n
    \/ a.kind = "fire" /\ a.arg \in DOMAIN t /\ t[a.arg].status = "pending" /\ t[a.arg].due <= n
    \/ a.kind = "issue" /\ a.arg \in DOMAIN c.corpus /\ g < c.maxGenerations

\* What is offered is one of these, and has no other fields, ...
LEMMA OfferedAre ==
    ASSUME NEW c, NEW rt, NEW a \in Offered(c, rt)
    PROVE  IsOffered(c, rt.now, rt.generation, rt.requests, rt.timers, a) /\ a = [kind |-> a.kind, arg |-> a.arg]
  <1> DEFINE WithStatus(set) == {i \in DOMAIN rt.requests : rt.requests[i].status \in set}
             waiting == {i \in DOMAIN rt.timers : rt.timers[i].status = "pending"}
             later0 == {rt.timers[i].due : i \in {j \in waiting : rt.timers[j].due > rt.now}}
             due0 == {i \in waiting : rt.timers[i].due <= rt.now}
             asked == IF rt.generation < c.maxGenerations THEN DOMAIN c.corpus ELSE {}
  <1>1. \/ a \in Each("abort", WithStatus({"pending"})) \/ a \in Each("fail", WithStatus({"pending"}))
        \/ a \in Each("deliver", WithStatus({"pending", "aborted"})) \/ a \in Each("advance", later0)
        \/ a \in Each("fire", due0) \/ a \in Each("issue", asked)
    BY DEF Offered
  <1>2. ASSUME NEW kind, NEW S, a \in Each(kind, S)
        PROVE  a.kind = kind /\ a.arg \in S /\ a = [kind |-> a.kind, arg |-> a.arg]
    BY <1>2 DEF Each
  <1>3. \A set : \A i \in WithStatus(set) : i \in DOMAIN rt.requests /\ rt.requests[i].status \in set
    OBVIOUS
  <1>4. \A k \in later0 : \E j \in DOMAIN rt.timers : k = rt.timers[j].due /\ rt.timers[j].due > rt.now
    OBVIOUS
  <1>5. \A i \in due0 : i \in DOMAIN rt.timers /\ rt.timers[i].status = "pending" /\ rt.timers[i].due <= rt.now
    OBVIOUS
  <1>6. \A i \in asked : i \in DOMAIN c.corpus /\ rt.generation < c.maxGenerations
    OBVIOUS
  <1> HIDE DEF WithStatus, later0, due0, asked
  <1>7. CASE a \in Each("abort", WithStatus({"pending"}))
    BY <1>2, <1>3, <1>7 DEF IsOffered, AtRequest
  <1>8. CASE a \in Each("fail", WithStatus({"pending"}))
    BY <1>2, <1>3, <1>8 DEF IsOffered, AtRequest
  <1>9. CASE a \in Each("deliver", WithStatus({"pending", "aborted"}))
    BY <1>2, <1>3, <1>9 DEF IsOffered, AtRequest
  <1>10. CASE a \in Each("advance", later0)
    BY <1>2, <1>4, <1>10 DEF IsOffered
  <1>11. CASE a \in Each("fire", due0)
    BY <1>2, <1>5, <1>11 DEF IsOffered
  <1>12. CASE a \in Each("issue", asked)
    BY <1>2, <1>6, <1>12 DEF IsOffered
  <1> QED BY <1>1, <1>7, <1>8, <1>9, <1>10, <1>11, <1>12

\* ... each has a kind and a number, ...
LEMMA ActionIs ==
    ASSUME NEW c, DOMAIN c.corpus \subseteq Nat, NEW n, NEW g, NEW q, NEW t, NEW y, NEW b, NEW m,
           Typed(c, n, g, q, t, y, b, m), NEW a, IsOffered(c, n, g, q, t, a)
    PROVE  (\E i \in DOMAIN Kinds : a.kind = Kinds[i]) /\ a.arg \in Nat
  <1>1. /\ \A i \in DOMAIN q : i \in Nat
        /\ \A j \in DOMAIN t : t[j].due \in Nat /\ j \in Nat
    BY TypedAre
  <1>2. a.arg \in Nat
    BY <1>1 DEF IsOffered, AtRequest
  <1>3. a.kind \in {"abort", "fail", "deliver", "advance", "fire", "issue"}
    BY DEF IsOffered
  <1>4. /\ DOMAIN Kinds = 1 .. 6 /\ Kinds[1] = "abort" /\ Kinds[2] = "advance" /\ Kinds[3] = "deliver"
        /\ Kinds[4] = "fail" /\ Kinds[5] = "fire" /\ Kinds[6] = "issue"
    BY DEF Kinds
  <1>5. 1 \in 1 .. 6 /\ 2 \in 1 .. 6 /\ 3 \in 1 .. 6 /\ 4 \in 1 .. 6 /\ 5 \in 1 .. 6 /\ 6 \in 1 .. 6
    OBVIOUS
  <1> QED BY <1>2, <1>3, <1>4, <1>5

\* ... so that one is the first.
LEMMA LeastIs ==
    ASSUME NEW A, A # {}, \A a \in A : (\E i \in DOMAIN Kinds : a.kind = Kinds[i]) /\ a.arg \in Nat
    PROVE  Least(A) \in A
  <1> DEFINE I == {i \in DOMAIN Kinds : \E a \in A : a.kind = Kinds[i]}
  <1>1. PICK m \in I : \A i \in I : m <= i
    <2>1. DOMAIN Kinds = 1 .. 6
      BY DEF Kinds
    <2>2. I \in SUBSET Nat /\ I # {}
      BY <2>1
    <2> HIDE DEF I
    <2> QED BY <2>2, SmallestExists
  <1> DEFINE B == {a.arg : a \in {e \in A : e.kind = Kinds[m]}}
  <1>2. PICK n \in B : \A k \in B : n <= k
    <2>1. B \in SUBSET Nat /\ B # {}
      BY <1>1
    <2> HIDE DEF B
    <2> QED BY <2>1, SmallestExists
  <1>3. PICK a \in A : a.kind = Kinds[m] /\ a.arg = n
    BY <1>2
  <1>4. ASSUME NEW e \in A PROVE Before(a, e)
    <2>1. PICK j \in DOMAIN Kinds : e.kind = Kinds[j]
      OBVIOUS
    <2>2. m <= j /\ m \in DOMAIN Kinds /\ DOMAIN Kinds = 1 .. 6
      BY <1>1, <2>1 DEF Kinds
    <2>3. CASE m = j
      <3>1. e.arg \in B
        BY <2>1, <2>3
      <3>2. a.arg <= e.arg
        BY <1>2, <1>3, <3>1
      <3> QED BY <1>3, <2>1, <2>3, <3>2 DEF Before
    <2>4. CASE m # j
      <3>1. m < j
        BY <2>2, <2>4
      <3> QED BY <1>3, <2>1, <2>2, <3>1 DEF Before
    <2> QED BY <2>3, <2>4
  <1> QED BY <1>4 DEF Least

-----------------------------------------------------------------------------
\* Each method leaves tables that are typed: a request more, ...
LEMMA RequestTyped ==
    ASSUME NEW c, NEW n, NEW g, NEW q, NEW t, NEW y, NEW b, NEW m, Typed(c, n, g, q, t, y, b, m),
           NEW query \in Queries(c), NEW h \in Nat, NEW k \in Nat \ {0}, NEW z, NEW u, NEW v,
           h \in Nat \ {0}, v \in {g, g + 1}, h <= v, z \in Seq(Nat), Len(z) = v,
           u \in Seq(Timers), Len(u) = Len(t), \A j \in DOMAIN t : u[j].owner = t[j].owner
    PROVE  Typed(c, n, v, Append(q, Asked(query, h, k)), u, z, Append(b, 0), m)
  <1> DEFINE p == Asked(query, h, k)
             R == RequestsOf(c)
  <1>1. p \in R /\ p.generation = h
    BY DEF Asked, RequestsOf, Statuses
  <1>2. q \in Seq(R) /\ b \in Seq(Nat) /\ Len(b) = Len(q) /\ g \in Nat /\ DOMAIN q = 1 .. Len(q) /\ Len(q) \in Nat
    BY DEF Typed
  <1> HIDE DEF p, R
  <1> DEFINE f == Append(q, p)
             d == Append(b, 0)
  <1>3. f \in Seq(R) /\ Len(f) = Len(q) + 1 /\ f[Len(q) + 1] = p /\ \A i \in 1 .. Len(q) : f[i] = q[i]
    BY <1>1, <1>2, AppendIs
  <1>4. d \in Seq(Nat) /\ Len(d) = Len(b) + 1
    BY <1>2
  <1> HIDE DEF f, d
  <1>5. DOMAIN f = 1 .. Len(q) + 1
    BY <1>3
  <1>6. ASSUME NEW i \in DOMAIN f PROVE f[i].generation <= v
    <2>1. CASE i \in DOMAIN q
      <3>1. q[i].generation \in 1 .. g
        BY <2>1, TypedAre
      <3>2. f[i] = q[i] /\ q[i].generation <= g /\ q[i].generation \in Nat
        BY <1>2, <1>3, <2>1, <3>1
      <3> QED BY <1>2, <3>2
    <2>2. CASE i = Len(q) + 1
      BY <1>1, <1>3, <2>2
    <2> QED BY <1>2, <1>5, <2>1, <2>2
  <1>7. ASSUME NEW j \in DOMAIN u PROVE u[j].owner \in DOMAIN f
    <2>1. j \in DOMAIN t /\ u[j].owner = t[j].owner
      BY DEF Typed
    <2>2. t[j].owner \in DOMAIN q
      BY <2>1 DEF Typed
    <2> QED BY <1>2, <1>5, <2>1, <2>2
  <1>8. v \in Nat
    BY <1>2
  <1> QED BY <1>2, <1>3, <1>4, <1>6, <1>7, <1>8 DEF Typed, R, f, d, p

\* ... a request marked, and timers set for it, ...
LEMMA StatusTyped ==
    ASSUME NEW c, NEW n, NEW g, NEW q, NEW t, NEW y, NEW b, NEW m, Typed(c, n, g, q, t, y, b, m),
           NEW i \in DOMAIN q, NEW status \in Statuses
    PROVE  Typed(c, n, g, Put(q, i, status), t, y, b, m)
  <1> DEFINE f == Put(q, i, status)
  <1>1. f \in Seq(RequestsOf(c)) /\ DOMAIN f = DOMAIN q /\ Len(f) = Len(q)
        /\ \A k \in DOMAIN q : f[k].generation = q[k].generation
    <2>1. q \in Seq(RequestsOf(c))
      BY DEF Typed
    <2> QED BY <2>1, PutIs
  <1> HIDE DEF f
  <1> QED BY <1>1 DEF Typed, f

\* The timers set are one or two, or none, for the request, ...
LEMMA RetriedAre ==
    ASSUME NEW c, NEW q, NEW n \in Nat, NEW i \in Nat \ {0}
    PROVE  /\ Retried(c, q, n, i) \in Seq(Timers)
           /\ \A j \in DOMAIN Retried(c, q, n, i) :
                /\ Retried(c, q, n, i)[j].owner = i /\ ~(q[i].attempt > c.retryBudget)
           /\ "duplicateRetryTimers" \notin c.faults => Len(Retried(c, q, n, i)) <= 1
  <1> DEFINE timer == [owner |-> i, due |-> n + 1, status |-> "pending"]
  <1>1. timer \in Timers /\ timer.owner = i
    BY DEF Timers
  <1>2. /\ Retried(c, q, n, i) = IF q[i].attempt > c.retryBudget THEN <<>>
                                 ELSE IF "duplicateRetryTimers" \in c.faults THEN <<timer, timer>> ELSE <<timer>>
    BY DEF Retried
  <1> HIDE DEF timer
  <1>3. CASE q[i].attempt > c.retryBudget
    BY <1>2, <1>3
  <1>4. CASE ~(q[i].attempt > c.retryBudget) /\ "duplicateRetryTimers" \in c.faults
    BY <1>1, <1>2, <1>4
  <1>5. CASE ~(q[i].attempt > c.retryBudget) /\ "duplicateRetryTimers" \notin c.faults
    BY <1>1, <1>2, <1>5
  <1> QED BY <1>3, <1>4, <1>5

\* ... and are typed.
LEMMA TimersTyped ==
    ASSUME NEW c, NEW n, NEW g, NEW q, NEW t, NEW y, NEW b, NEW m, Typed(c, n, g, q, t, y, b, m),
           NEW i \in DOMAIN q, NEW w \in Seq(Timers), \A j \in DOMAIN w : w[j].owner = i
    PROVE  Typed(c, n, g, q, t \o w, y, b, m)
  <1> DEFINE u == t \o w
  <1>1. t \in Seq(Timers)
    BY DEF Typed
  <1>2. u \in Seq(Timers) /\ \A j \in DOMAIN u : (j \in DOMAIN t /\ u[j] = t[j]) \/ (\E k \in DOMAIN w : u[j] = w[k])
    BY <1>1
  <1> HIDE DEF u
  <1>3. \A j \in DOMAIN u : u[j].owner \in DOMAIN q
    BY <1>2 DEF Typed
  <1> QED BY <1>2, <1>3 DEF Typed, u

\* ... an answer counted and, it may be, shown.
LEMMA CalledIs ==
    ASSUME NEW b \in Seq(Nat), NEW i \in DOMAIN b
    PROVE  /\ Called(b, i) \in Seq(Nat) /\ Len(Called(b, i)) = Len(b) /\ DOMAIN Called(b, i) = DOMAIN b
           /\ Called(b, i)[i] = b[i] + 1 /\ \A k \in DOMAIN b : k # i => Called(b, i)[k] = b[k]
  <1>1. b[i] + 1 \in Nat
    OBVIOUS
  <1> DEFINE v == b[i] + 1
  <1>2. Called(b, i) = [b EXCEPT ![i] = v]
    BY DEF Called
  <1>3. v \in Nat
    BY <1>1
  <1> HIDE DEF v
  <1> QED BY <1>2, <1>3 DEF v

\* What is committed of it is what the others are, and one more at the most, ...
LEMMA LoggedIs ==
    ASSUME NEW c, NEW n, NEW g, NEW q, NEW t, NEW y, NEW b, NEW m0, Typed(c, n, g, q, t, y, b, m0),
           NEW m \in Seq(Commits), NEW i \in DOMAIN q, NEW k \in Nat
    PROVE  Logged(c, g, q, m, i, k) \in Seq(Commits)
  <1> DEFINE e == [request |-> i, generation |-> q[i].generation, attempt |-> q[i].attempt, callback |-> k]
  <1>1. e \in Commits
    <2>1. q[i].generation \in 1 .. g /\ q[i].attempt \in Nat /\ i \in Nat \ {0}
      BY TypedAre
    <2>2. q[i].generation \in Nat
      BY <2>1 DEF Typed
    <2> QED BY <2>1, <2>2 DEF Commits
  <1> HIDE DEF e
  <1>2. Append(m, e) \in Seq(Commits)
    BY <1>1
  <1> QED BY <1>2 DEF Logged, e

\* ... and typed.
LEMMA AnswerTyped ==
    ASSUME NEW c, NEW n, NEW g, NEW q, NEW t, NEW y, NEW b, NEW m, Typed(c, n, g, q, t, y, b, m),
           NEW i \in DOMAIN q, NEW d, d = Called(b, i)
    PROVE  Typed(c, n, g, q, t, y, d, Logged(c, g, q, m, i, d[i]))
  <1>1. b \in Seq(Nat) /\ m \in Seq(Commits) /\ DOMAIN b = DOMAIN q
    <2>1. DOMAIN b = DOMAIN q
      BY TypedAre
    <2> QED BY <2>1 DEF Typed
  <1>2. d \in Seq(Nat) /\ Len(d) = Len(b) /\ d[i] \in Nat
    <2>1. d \in Seq(Nat) /\ Len(d) = Len(b) /\ DOMAIN d = DOMAIN b /\ d[i] = b[i] + 1
      BY <1>1, CalledIs
    <2>2. b[i] + 1 \in Nat
      BY <1>1
    <2> QED BY <2>1, <2>2
  <1>3. Logged(c, g, q, m, i, d[i]) \in Seq(Commits)
    BY <1>1, <1>2, LoggedIs
  <1> QED BY <1>2, <1>3 DEF Typed

-----------------------------------------------------------------------------
\* What holds of the runtime of an application without faults: an answer is counted
\* once, ...
AnsweredOnce(q, b) == \A i \in DOMAIN q : b[i] = IF q[i].status = "completed" THEN 1 ELSE 0
\* ... the attempts of a generation differ, all but the last of them failed, ...
AttemptsDiffer(q) ==
    \A i \in DOMAIN q, j \in DOMAIN q :
        i # j /\ q[i].generation = q[j].generation => q[i].attempt # q[j].attempt
LastStands(q, y) ==
    \A i \in DOMAIN q : /\ q[i].attempt <= y[q[i].generation] + 1
                        /\ q[i].status # "failed" => q[i].attempt = y[q[i].generation] + 1
\* ... a timer that is pending is for the last one, which may be retried, and the only
\* one for it, ...
TimersWait(c, q, t, y) ==
    \A j \in DOMAIN t : t[j].status = "pending" =>
        /\ q[t[j].owner].status = "failed" /\ q[t[j].owner].attempt <= c.retryBudget
        /\ q[t[j].owner].attempt = y[q[t[j].owner].generation] + 1
OwnersDiffer(t) ==
    \A j \in DOMAIN t, k \in DOMAIN t :
        j # k /\ t[j].status = "pending" /\ t[k].status = "pending" => t[j].owner # t[k].owner
BudgetHeld(c, y) == \A h \in DOMAIN y : y[h] <= c.retryBudget
\* ... and commits are of answers, of one generation after the other, the last of which
\* is shown.
CommitsAre(q, m) ==
    \A j \in DOMAIN m :
        /\ m[j].request \in DOMAIN q /\ q[m[j].request].status = "completed" /\ m[j].callback = 1
        /\ m[j].generation = q[m[j].request].generation /\ m[j].attempt = q[m[j].request].attempt
CommitsAscend(m) == \A j \in DOMAIN m, k \in DOMAIN m : j < k => m[j].generation < m[k].generation
LastShown(x, q, m) == Len(m) # 0 => x = <<q[m[Len(m)].request].query, m[Len(m)].attempt>>

RequestsClean(q, y, b) == AnsweredOnce(q, b) /\ AttemptsDiffer(q) /\ LastStands(q, y)
TimersClean(c, q, t, y) == TimersWait(c, q, t, y) /\ OwnersDiffer(t) /\ BudgetHeld(c, y)
CommitsClean(x, q, m) == CommitsAre(q, m) /\ CommitsAscend(m) /\ LastShown(x, q, m)
Clean(c, x, q, t, y, b, m) == RequestsClean(q, y, b) /\ TimersClean(c, q, t, y) /\ CommitsClean(x, q, m)

\* A request more is clean where it is the first of its generation, or the next after
\* the one that failed last.
Follows(q, y, h, k, z) ==
    /\ h \in Nat \ {0} /\ k \in Nat /\ z \in Seq(Nat) /\ h \in DOMAIN z /\ z[h] + 1 = k
    /\ DOMAIN y \subseteq DOMAIN z /\ \A i \in DOMAIN y : y[i] <= z[i] /\ (i # h => y[i] = z[i])
    /\ \A i \in DOMAIN q : q[i].generation = h => q[i].status = "failed" /\ q[i].attempt < k

Added(q, f, x, z, d, m) ==
    /\ RequestsClean(f, z, d) /\ CommitsClean(x, f, m)
    /\ DOMAIN q \subseteq DOMAIN f /\ \A i \in DOMAIN q : f[i] = q[i]

\* With a request more, the requests are clean and the commits stay so, ...
LEMMA RequestClean ==
    ASSUME NEW c, NEW n, NEW g, NEW x, NEW q, NEW t, NEW y, NEW b, NEW m,
           Typed(c, n, g, q, t, y, b, m), Clean(c, x, q, t, y, b, m),
           NEW query, NEW h, NEW k, NEW z, Follows(q, y, h, k, z)
    PROVE  Added(q, Append(q, Asked(query, h, k)), x, z, Append(b, 0), m)
  <1> DEFINE p == Asked(query, h, k)
             f == Append(q, p)
             d == Append(b, 0)
  <1>0. /\ h \in Nat \ {0} /\ k \in Nat /\ h \in DOMAIN z /\ z[h] \in Nat /\ z[h] + 1 = k
        /\ DOMAIN y \subseteq DOMAIN z /\ \A i \in DOMAIN y : y[i] <= z[i] /\ z[i] \in Nat /\ (i # h => y[i] = z[i])
        /\ \A i \in DOMAIN q : q[i].generation = h => q[i].status = "failed" /\ q[i].attempt < k
    BY DEF Follows
  <1>1. p.generation = h /\ p.attempt = k /\ p.status = "pending" /\ p.status # "failed" /\ p.status # "completed"
    BY DEF Asked
  <1>2. /\ DOMAIN q = 1 .. Len(q) /\ Len(q) \in Nat /\ DOMAIN b = DOMAIN q /\ DOMAIN y = 1 .. g
        /\ \A i \in DOMAIN q : /\ q[i].generation \in DOMAIN y /\ y[q[i].generation] \in Nat /\ q[i].attempt \in Nat
    BY TypedAre
  <1>3. Len(b) = Len(q) /\ m \in Seq(Commits)
    BY DEF Typed
  <1> HIDE DEF p
  <1>4. DOMAIN f = 1 .. Len(q) + 1 /\ f[Len(q) + 1] = p /\ \A i \in DOMAIN q : f[i] = q[i]
    BY <1>2 DEF Typed
  <1>5. d[Len(q) + 1] = 0 /\ \A i \in DOMAIN q : d[i] = b[i]
    BY <1>2, <1>3 DEF Typed
  <1> HIDE DEF f, d
  <1>6. DOMAIN q \subseteq DOMAIN f /\ \A i \in DOMAIN f : i \in DOMAIN q \/ i = Len(q) + 1
    BY <1>2, <1>4
  <1>7. \A i \in DOMAIN q : z[q[i].generation] \in Nat
    BY <1>0, <1>2
  <1>8. AnsweredOnce(f, d)
    BY <1>1, <1>4, <1>5, <1>6 DEF Clean, RequestsClean, AnsweredOnce
  <1>9. AttemptsDiffer(f)
    <2>1. \A i \in DOMAIN q : q[i].generation = p.generation => q[i].attempt # p.attempt
      BY <1>0, <1>1, <1>2
    <2>2. \A i \in DOMAIN q, j \in DOMAIN q : i # j /\ q[i].generation = q[j].generation => q[i].attempt # q[j].attempt
      BY DEF Clean, RequestsClean, AttemptsDiffer
    <2> QED BY <1>4, <1>6, <2>1, <2>2 DEF AttemptsDiffer
  <1>10. LastStands(f, z)
    <2>1. ASSUME NEW i \in DOMAIN q
          PROVE  /\ q[i].attempt <= z[q[i].generation] + 1
                 /\ q[i].status # "failed" => q[i].attempt = z[q[i].generation] + 1
      <3>1. /\ q[i].attempt <= y[q[i].generation] + 1
            /\ q[i].status # "failed" => q[i].attempt = y[q[i].generation] + 1
        BY DEF Clean, RequestsClean, LastStands
      <3>2. y[q[i].generation] <= z[q[i].generation] /\ (q[i].generation # h => y[q[i].generation] = z[q[i].generation])
        BY <1>0, <1>2
      <3> QED BY <1>0, <1>2, <1>7, <3>1, <3>2
    <2>2. p.attempt <= z[p.generation] + 1 /\ p.attempt = z[p.generation] + 1
      BY <1>0, <1>1
    <2> QED BY <1>4, <1>6, <2>1, <2>2 DEF LastStands
  <1>11. CommitsClean(x, f, m)
    <2>1. CommitsAre(f, m)
      BY <1>4, <1>6 DEF Clean, CommitsClean, CommitsAre
    <2>2. LastShown(x, f, m)
      <3>1. ASSUME Len(m) # 0 PROVE Len(m) \in DOMAIN m /\ m[Len(m)].request \in DOMAIN q
        <4>1. Len(m) \in DOMAIN m
          BY <1>3, <3>1
        <4> QED BY <4>1 DEF Clean, CommitsClean, CommitsAre
      <3> QED BY <1>4, <3>1 DEF Clean, CommitsClean, LastShown
    <2> QED BY <2>1, <2>2 DEF Clean, CommitsClean
  <1> QED BY <1>4, <1>6, <1>8, <1>9, <1>10, <1>11 DEF RequestsClean, Added, f, d, p

\* ... for the next generation, ...
LEMMA IssueClean ==
    ASSUME NEW c, NEW n, NEW g, NEW x, NEW q, NEW t, NEW y, NEW b, NEW m, c.retryBudget \in Nat,
           Typed(c, n, g, q, t, y, b, m), Clean(c, x, q, t, y, b, m), NEW query
    PROVE  Clean(c, x, Append(q, Asked(query, g + 1, 1)), t, Append(y, 0), Append(b, 0), m)
  <1> DEFINE h == g + 1
             f == Append(q, Asked(query, h, 1))
             z == Append(y, 0)
  <1>1. /\ DOMAIN q = 1 .. Len(q) /\ Len(q) \in Nat /\ DOMAIN b = DOMAIN q /\ DOMAIN y = 1 .. g
        /\ \A i \in DOMAIN q : q[i].generation \in 1 .. g /\ q[i].generation \in DOMAIN y /\ y[q[i].generation] \in Nat
        /\ \A j \in DOMAIN t : t[j].owner \in DOMAIN q
    BY TypedAre
  <1>2. g \in Nat /\ y \in Seq(Nat) /\ Len(y) = g
    BY DEF Typed
  <1>3. z \in Seq(Nat) /\ h \in DOMAIN z /\ DOMAIN z = 1 .. g + 1 /\ z[h] = 0 /\ h \in Nat \ {0} /\ 1 \in Nat
    BY <1>2
  <1>4. \A i \in DOMAIN y : i \in DOMAIN z /\ y[i] <= z[i] /\ y[i] = z[i]
    BY <1>2
  <1>5. \A i \in DOMAIN q : q[i].generation # h
    BY <1>1, <1>2
  <1>12. z[h] + 1 = 1
    BY <1>3
  <1> HIDE DEF h, z
  <1>6. /\ RequestsClean(f, z, Append(b, 0)) /\ CommitsClean(x, f, m)
        /\ DOMAIN q \subseteq DOMAIN f /\ \A i \in DOMAIN q : f[i] = q[i]
    <2>1. DOMAIN y \subseteq DOMAIN z /\ \A i \in DOMAIN y : y[i] <= z[i] /\ (i # h => y[i] = z[i])
      BY <1>4
    <2>2. \A i \in DOMAIN q : q[i].generation = h => q[i].status = "failed" /\ q[i].attempt < 1
      BY <1>5
    <2> DEFINE k == 1
    <2>3. Follows(q, y, h, k, z)
      BY <1>3, <1>12, <2>1, <2>2 DEF Follows
    <2> HIDE DEF k
    <2>4. Added(q, Append(q, Asked(query, h, k)), x, z, Append(b, 0), m)
      BY <2>3, RequestClean
    <2> QED BY <2>4 DEF Added, k
  <1> HIDE DEF f
  <1>7. TimersWait(c, f, t, z)
    <2>1. ASSUME NEW j \in DOMAIN t, t[j].status = "pending"
          PROVE  /\ f[t[j].owner].status = "failed" /\ f[t[j].owner].attempt <= c.retryBudget
                 /\ f[t[j].owner].attempt = z[f[t[j].owner].generation] + 1
      <3>1. t[j].owner \in DOMAIN q /\ f[t[j].owner] = q[t[j].owner]
        BY <1>1, <1>6
      <3>2. z[q[t[j].owner].generation] = y[q[t[j].owner].generation]
        BY <1>1, <1>4, <3>1
      <3> QED BY <2>1, <3>1, <3>2 DEF Clean, TimersClean, TimersWait
    <2> QED BY <2>1 DEF TimersWait
  <1>8. BudgetHeld(c, z)
    <2>1. ASSUME NEW i \in DOMAIN z PROVE z[i] <= c.retryBudget
      <3>1. CASE i \in DOMAIN y
        BY <1>4, <3>1 DEF Clean, TimersClean, BudgetHeld
      <3>2. CASE i = h
        BY <1>3, <3>2
      <3> QED BY <1>1, <1>2, <1>3, <3>1, <3>2 DEF h
    <2> QED BY <2>1 DEF BudgetHeld
  <1> QED BY <1>6, <1>7, <1>8 DEF Clean, TimersClean, f, z, h

\* A timer that fired waits no more, and the others are as they were, ...
LEMMA FiredIs ==
    ASSUME NEW t \in Seq(Timers), NEW j \in DOMAIN t
    PROVE  /\ Fired(t, j) \in Seq(Timers) /\ Len(Fired(t, j)) = Len(t) /\ DOMAIN Fired(t, j) = DOMAIN t
           /\ Fired(t, j)[j].status = "fired"
           /\ \A k \in DOMAIN t : Fired(t, j)[k].owner = t[k].owner /\ (k # j => Fired(t, j)[k] = t[k])
  <1> DEFINE p == [t[j] EXCEPT !.status = "fired"]
             u == Fired(t, j)
  <1>1. t[j] \in Timers
    OBVIOUS
  <1>2. p \in Timers /\ p.owner = t[j].owner /\ p.status = "fired"
    BY <1>1 DEF Timers
  <1>3. u = [t EXCEPT ![j] = p]
    BY DEF Fired
  <1> HIDE DEF p
  <1>4. /\ [t EXCEPT ![j] = p] \in Seq(Timers) /\ DOMAIN [t EXCEPT ![j] = p] = DOMAIN t
        /\ Len([t EXCEPT ![j] = p]) = Len(t)
        /\ \A k \in DOMAIN t : [t EXCEPT ![j] = p][k] = IF k = j THEN p ELSE t[k]
    BY <1>2
  <1> HIDE DEF u
  <1>5. /\ u \in Seq(Timers) /\ DOMAIN u = DOMAIN t /\ Len(u) = Len(t)
        /\ \A k \in DOMAIN t : u[k] = IF k = j THEN p ELSE t[k]
    BY <1>3, <1>4
  <1> QED BY <1>2, <1>5 DEF u

\* ... and what it asks for follows the attempt that failed.
LEMMA FireClean ==
    ASSUME NEW c, NEW n, NEW g, NEW x, NEW q, NEW t, NEW y, NEW b, NEW m, c.retryBudget \in Nat,
           Typed(c, n, g, q, t, y, b, m), Clean(c, x, q, t, y, b, m),
           NEW j \in DOMAIN t, t[j].status = "pending", NEW i, i = t[j].owner, NEW h, h = q[i].generation
    PROVE  Clean(c, x, Append(q, Asked(q[i].query, h, q[i].attempt + 1)), Fired(t, j), Called(y, h), Append(b, 0), m)
  <1> DEFINE k == q[i].attempt + 1
             query == q[i].query
             f == Append(q, Asked(query, h, k))
             z == Called(y, h)
             u == Fired(t, j)
  <1>1. /\ DOMAIN q = 1 .. Len(q) /\ Len(q) \in Nat /\ DOMAIN b = DOMAIN q /\ DOMAIN y = 1 .. g
        /\ \A v \in DOMAIN q : /\ q[v].generation \in 1 .. g /\ q[v].generation \in DOMAIN y
                               /\ y[q[v].generation] \in Nat /\ q[v].attempt \in Nat
        /\ \A v \in DOMAIN t : t[v].owner \in DOMAIN q
    BY TypedAre
  <1>2. y \in Seq(Nat) /\ t \in Seq(Timers)
    BY DEF Typed
  <1>3. i \in DOMAIN q /\ h \in DOMAIN y /\ y[h] \in Nat /\ h \in Nat \ {0} /\ k \in Nat
    BY <1>1
  <1>4. q[i].status = "failed" /\ q[i].attempt <= c.retryBudget /\ q[i].attempt = y[h] + 1
    BY DEF Clean, TimersClean, TimersWait
  <1>5. z \in Seq(Nat) /\ Len(z) = Len(y) /\ DOMAIN z = DOMAIN y /\ z[h] = y[h] + 1
        /\ \A v \in DOMAIN y : v # h => z[v] = y[v]
    BY <1>2, <1>3, CalledIs
  <1>6. /\ u \in Seq(Timers) /\ DOMAIN u = DOMAIN t /\ u[j].status = "fired"
        /\ \A v \in DOMAIN t : u[v].owner = t[v].owner /\ (v # j => u[v] = t[v])
    BY <1>2, FiredIs
  <1>7. ASSUME NEW v \in DOMAIN q, q[v].generation = h, v # i
        PROVE  q[v].status = "failed" /\ q[v].attempt < q[i].attempt
    <2>1. q[v].attempt # q[i].attempt
      BY <1>3, <1>7 DEF Clean, RequestsClean, AttemptsDiffer
    <2>2. q[v].attempt <= y[h] + 1 /\ (q[v].status # "failed" => q[v].attempt = y[h] + 1)
      BY <1>7 DEF Clean, RequestsClean, LastStands
    <2> QED BY <1>1, <1>3, <1>4, <2>1, <2>2
  <1> HIDE DEF z, u
  <1>8. Follows(q, y, h, k, z)
    <2>1. \A v \in DOMAIN q : q[v].generation = h => q[v].status = "failed" /\ q[v].attempt < k
      BY <1>1, <1>3, <1>4, <1>7
    <2>2. DOMAIN y \subseteq DOMAIN z /\ \A v \in DOMAIN y : y[v] <= z[v] /\ (v # h => y[v] = z[v])
      BY <1>2, <1>3, <1>5
    <2>3. z[h] + 1 = k
      BY <1>4, <1>5
    <2> QED BY <1>3, <1>5, <2>1, <2>2, <2>3 DEF Follows
  <1> HIDE DEF k, query
  <1>9. /\ RequestsClean(f, z, Append(b, 0)) /\ CommitsClean(x, f, m)
        /\ DOMAIN q \subseteq DOMAIN f /\ \A v \in DOMAIN q : f[v] = q[v]
    <2>1. Added(q, Append(q, Asked(query, h, k)), x, z, Append(b, 0), m)
      BY <1>8, RequestClean
    <2> QED BY <2>1 DEF Added
  <1> HIDE DEF f
  <1>10. ASSUME NEW v \in DOMAIN u, u[v].status = "pending"
         PROVE  /\ v \in DOMAIN t /\ v # j /\ t[v].status = "pending" /\ u[v] = t[v] /\ t[v].owner \in DOMAIN q
                /\ q[t[v].owner].generation # h
    <2>1. v \in DOMAIN t /\ v # j /\ u[v] = t[v]
      BY <1>6, <1>10
    <2>2. t[v].status = "pending" /\ t[v].owner # i /\ t[v].owner \in DOMAIN q
      BY <1>1, <1>10, <2>1 DEF Clean, TimersClean, OwnersDiffer
    <2> DEFINE w == t[v].owner
    <2>3. q[w].attempt = y[q[w].generation] + 1
      BY <2>1, <2>2 DEF Clean, TimersClean, TimersWait
    <2>4. ASSUME q[w].generation = h PROVE FALSE
      <3>1. q[w].attempt < q[i].attempt
        BY <1>7, <2>2, <2>4
      <3> QED BY <1>3, <1>4, <2>3, <2>4, <3>1
    <2> QED BY <2>1, <2>2, <2>4
  <1>11. TimersWait(c, f, u, z)
    <2>1. ASSUME NEW v \in DOMAIN u, u[v].status = "pending"
          PROVE  /\ f[u[v].owner].status = "failed" /\ f[u[v].owner].attempt <= c.retryBudget
                 /\ f[u[v].owner].attempt = z[f[u[v].owner].generation] + 1
      <3> DEFINE w == t[v].owner
      <3>1. /\ w \in DOMAIN q /\ f[w] = q[w] /\ u[v].owner = w /\ q[w].generation # h /\ q[w].generation \in DOMAIN y
            /\ v \in DOMAIN t /\ t[v].status = "pending"
        BY <1>1, <1>9, <1>10, <2>1
      <3>2. z[q[w].generation] = y[q[w].generation]
        BY <1>5, <3>1
      <3>3. q[w].status = "failed" /\ q[w].attempt <= c.retryBudget /\ q[w].attempt = y[q[w].generation] + 1
        BY <3>1 DEF Clean, TimersClean, TimersWait
      <3> QED BY <3>1, <3>2, <3>3
    <2> QED BY <2>1 DEF TimersWait
  <1>12. OwnersDiffer(u)
    <2>1. OwnersDiffer(t)
      BY DEF Clean, TimersClean
    <2> QED BY <1>10, <2>1 DEF OwnersDiffer
  <1>13. BudgetHeld(c, z)
    <2>1. ASSUME NEW v \in DOMAIN z PROVE z[v] <= c.retryBudget
      <3>1. CASE v = h
        BY <1>4, <1>5, <3>1
      <3>2. CASE v # h
        BY <1>5, <3>2 DEF Clean, TimersClean, BudgetHeld
      <3> QED BY <3>1, <3>2
    <2> QED BY <2>1 DEF BudgetHeld
  <1> QED BY <1>9, <1>11, <1>12, <1>13 DEF Clean, TimersClean, f, z, u, k, query

-----------------------------------------------------------------------------
\* A request that is marked is clean where it was waiting for its answer, ...
LEMMA MarkClean ==
    ASSUME NEW c, NEW n, NEW g, NEW x, NEW q, NEW t, NEW y, NEW b, NEW m,
           Typed(c, n, g, q, t, y, b, m), Clean(c, x, q, t, y, b, m),
           NEW i \in DOMAIN q, q[i].status \in {"pending", "aborted"}, NEW status \in Statuses,
           NEW d, d = IF status = "completed" THEN Called(b, i) ELSE b
    PROVE  Clean(c, x, Put(q, i, status), t, y, d, m)
  <1> DEFINE f == Put(q, i, status)
  <1>1. /\ DOMAIN f = DOMAIN q /\ f[i].status = status
        /\ \A k \in DOMAIN q : /\ f[k].query = q[k].query /\ f[k].generation = q[k].generation
                               /\ f[k].attempt = q[k].attempt /\ (k # i => f[k] = q[k])
    <2>1. q \in Seq(RequestsOf(c))
      BY DEF Typed
    <2> QED BY <2>1, PutIs
  <1>2. /\ DOMAIN b = DOMAIN q /\ \A j \in DOMAIN t : t[j].owner \in DOMAIN q
    BY TypedAre
  <1> HIDE DEF f
  <1>3. AnsweredOnce(f, d)
    <2>1. b[i] = 0
      BY DEF Clean, RequestsClean, AnsweredOnce
    <2>2. d[i] = IF f[i].status = "completed" THEN 1 ELSE 0
      <3>1. CASE status = "completed"
        <4>1. d[i] = b[i] + 1
          BY <1>2, <3>1, CalledIs DEF Typed
        <4> QED BY <1>1, <2>1, <3>1, <4>1
      <3>2. CASE status # "completed"
        BY <1>1, <2>1, <3>2
      <3> QED BY <3>1, <3>2
    <2>3. \A k \in DOMAIN q : k # i => d[k] = b[k]
      <3>1. b \in Seq(Nat)
        BY DEF Typed
      <3>2. \A k \in DOMAIN b : k # i => Called(b, i)[k] = b[k]
        BY <1>2, <3>1, CalledIs
      <3> QED BY <1>2, <3>2
    <2> QED BY <1>1, <2>2, <2>3 DEF Clean, RequestsClean, AnsweredOnce
  <1>4. AttemptsDiffer(f)
    BY <1>1 DEF Clean, RequestsClean, AttemptsDiffer
  <1>5. LastStands(f, y)
    <2>1. ASSUME NEW k \in DOMAIN q
          PROVE  /\ f[k].attempt <= y[f[k].generation] + 1
                 /\ f[k].status # "failed" => f[k].attempt = y[f[k].generation] + 1
      <3>1. f[k].status # "failed" => q[k].status # "failed"
        BY <1>1
      <3> QED BY <1>1, <3>1 DEF Clean, RequestsClean, LastStands
    <2> QED BY <1>1, <2>1 DEF LastStands
  <1>6. TimersWait(c, f, t, y)
    <2>1. ASSUME NEW j \in DOMAIN t, t[j].status = "pending"
          PROVE  /\ f[t[j].owner].status = "failed" /\ f[t[j].owner].attempt <= c.retryBudget
                 /\ f[t[j].owner].attempt = y[f[t[j].owner].generation] + 1
      <3>1. /\ q[t[j].owner].status = "failed" /\ q[t[j].owner].attempt <= c.retryBudget
            /\ q[t[j].owner].attempt = y[q[t[j].owner].generation] + 1
        BY <2>1 DEF Clean, TimersClean, TimersWait
      <3>2. t[j].owner # i
        BY <3>1
      <3> QED BY <1>1, <1>2, <3>1, <3>2
    <2> QED BY <2>1 DEF TimersWait
  <1>7. CommitsAre(f, m)
    <2>1. ASSUME NEW j \in DOMAIN m
          PROVE  /\ m[j].request \in DOMAIN f /\ f[m[j].request].status = "completed" /\ m[j].callback = 1
                 /\ m[j].generation = f[m[j].request].generation /\ m[j].attempt = f[m[j].request].attempt
      <3>1. /\ m[j].request \in DOMAIN q /\ q[m[j].request].status = "completed" /\ m[j].callback = 1
            /\ m[j].generation = q[m[j].request].generation /\ m[j].attempt = q[m[j].request].attempt
        BY DEF Clean, CommitsClean, CommitsAre
      <3>2. m[j].request # i
        BY <3>1
      <3> QED BY <1>1, <3>1, <3>2
    <2> QED BY <2>1 DEF CommitsAre
  <1>8. LastShown(x, f, m)
    <2>1. ASSUME Len(m) # 0 PROVE m[Len(m)].request \in DOMAIN q
      <3>1. Len(m) \in DOMAIN m
        BY <2>1 DEF Typed
      <3> QED BY <3>1 DEF Clean, CommitsClean, CommitsAre
    <2> QED BY <1>1, <2>1 DEF Clean, CommitsClean, LastShown
  <1> QED BY <1>3, <1>4, <1>5, <1>6, <1>7, <1>8 DEF Clean, RequestsClean, TimersClean, CommitsClean, f

\* ... with the timer set for it, if it failed, ...
LEMMA FailClean ==
    ASSUME NEW c, NEW n, NEW g, NEW x, NEW q, NEW t, NEW y, NEW b, NEW m, c.retryBudget \in Nat, c.faults = {},
           Typed(c, n, g, q, t, y, b, m), Clean(c, x, q, t, y, b, m), NEW i \in DOMAIN q, q[i].status = "pending"
    PROVE  Clean(c, x, Put(q, i, "failed"), t \o Retried(c, q, n, i), y, b, m)
  <1> DEFINE f == Put(q, i, "failed")
             w == Retried(c, q, n, i)
             u == t \o w
  <1>1. Clean(c, x, f, t, y, b, m)
    <2> DEFINE status == "failed"
    <2>1. status \in Statuses /\ b = (IF status = "completed" THEN Called(b, i) ELSE b)
          /\ q[i].status \in {"pending", "aborted"}
      BY DEF Statuses
    <2> HIDE DEF status
    <2>2. Clean(c, x, Put(q, i, status), t, y, b, m)
      BY <2>1, MarkClean
    <2> QED BY <2>2 DEF status
  <1>2. /\ DOMAIN f = DOMAIN q /\ f[i].status = "failed" /\ f[i].generation = q[i].generation
        /\ f[i].attempt = q[i].attempt
    <2>1. q \in Seq(RequestsOf(c)) /\ "failed" \in Statuses
      BY DEF Typed, Statuses
    <2> QED BY <2>1, PutIs
  <1>3. /\ w \in Seq(Timers) /\ \A j \in DOMAIN w : w[j].owner = i /\ ~(q[i].attempt > c.retryBudget)
        /\ Len(w) <= 1
    <2>1. n \in Nat /\ i \in Nat \ {0} /\ "duplicateRetryTimers" \notin c.faults
      BY DEF Typed
    <2> QED BY <2>1, RetriedAre
  <1>4. t \in Seq(Timers)
    BY DEF Typed
  <1> HIDE DEF f, w
  <1>5. \A j \in DOMAIN u : \/ j \in DOMAIN t /\ u[j] = t[j]
                            \/ j = Len(t) + 1 /\ 1 \in DOMAIN w /\ u[j] = w[1]
    <2>1. /\ Len(t) \in Nat /\ DOMAIN t = 1 .. Len(t)
          /\ \A j \in DOMAIN u : \/ j \in DOMAIN t /\ u[j] = t[j]
                                 \/ j - Len(t) \in DOMAIN w /\ u[j] = w[j - Len(t)] /\ j \in Nat
      BY <1>3, <1>4
    <2>2. \A k \in DOMAIN w : k = 1
      BY <1>3
    <2>3. ASSUME NEW j \in DOMAIN u, j - Len(t) \in DOMAIN w, u[j] = w[j - Len(t)], j \in Nat
          PROVE  j = Len(t) + 1 /\ 1 \in DOMAIN w /\ u[j] = w[1]
      <3>1. j - Len(t) = 1
        BY <2>2, <2>3
      <3> QED BY <2>1, <2>3, <3>1
    <2> HIDE DEF u
    <2> QED BY <2>1, <2>3
  <1> HIDE DEF u
  <1>6. ASSUME NEW j \in DOMAIN t, t[j].status = "pending"
        PROVE  t[j].owner # i
    BY <1>6 DEF Clean, TimersClean, TimersWait
  <1>7. q[i].attempt = y[q[i].generation] + 1
    BY DEF Clean, RequestsClean, LastStands
  <1>8. q[i].attempt \in Nat
    BY TypedAre
  <1>9. TimersWait(c, f, u, y)
    <2>1. ASSUME NEW j \in DOMAIN u, u[j].status = "pending"
          PROVE  /\ f[u[j].owner].status = "failed" /\ f[u[j].owner].attempt <= c.retryBudget
                 /\ f[u[j].owner].attempt = y[f[u[j].owner].generation] + 1
      <3>1. CASE j \in DOMAIN t /\ u[j] = t[j]
        BY <1>1, <2>1, <3>1 DEF Clean, TimersClean, TimersWait
      <3>2. CASE 1 \in DOMAIN w /\ u[j] = w[1]
        <4>1. u[j].owner = i /\ q[i].attempt <= c.retryBudget
          BY <1>3, <1>8, <3>2
        <4> QED BY <1>2, <1>7, <4>1
      <3> QED BY <1>5, <3>1, <3>2
    <2> QED BY <2>1 DEF TimersWait
  <1>10. OwnersDiffer(u)
    <2>1. ASSUME NEW j \in DOMAIN u, NEW k \in DOMAIN u, j # k, u[j].status = "pending", u[k].status = "pending"
          PROVE  u[j].owner # u[k].owner
      <3>1. CASE j \in DOMAIN t /\ u[j] = t[j] /\ k \in DOMAIN t /\ u[k] = t[k]
        BY <2>1, <3>1 DEF Clean, TimersClean, OwnersDiffer
      <3>2. CASE j \in DOMAIN t /\ u[j] = t[j] /\ 1 \in DOMAIN w /\ u[k] = w[1]
        BY <1>3, <1>6, <2>1, <3>2
      <3>3. CASE k \in DOMAIN t /\ u[k] = t[k] /\ 1 \in DOMAIN w /\ u[j] = w[1]
        BY <1>3, <1>6, <2>1, <3>3
      <3> QED BY <1>5, <2>1, <3>1, <3>2, <3>3
    <2> QED BY <2>1 DEF OwnersDiffer
  <1> QED BY <1>1, <1>9, <1>10 DEF Clean, TimersClean, f, w, u

\* ... and with what is shown of the answer, if it was the last one asked for.
LEMMA AnswerClean ==
    ASSUME NEW c, NEW n, NEW g, NEW x, NEW q, NEW t, NEW y, NEW b, NEW m, c.faults = {},
           Typed(c, n, g, q, t, y, b, m), Clean(c, x, q, t, y, b, m),
           NEW i \in DOMAIN q, q[i].status \in {"pending", "aborted"}, NEW d, d = Called(b, i)
    PROVE  Clean(c, Shown(c, g, x, q, i), Put(q, i, "completed"), t, y, d, Logged(c, g, q, m, i, d[i]))
  <1> DEFINE f == Put(q, i, "completed")
             e == [request |-> i, generation |-> q[i].generation, attempt |-> q[i].attempt, callback |-> d[i]]
             w == Append(m, e)
             o == <<q[i].query, q[i].attempt>>
  <1>1. Clean(c, x, f, t, y, d, m)
    <2> DEFINE status == "completed"
    <2>1. status \in Statuses /\ d = (IF status = "completed" THEN Called(b, i) ELSE b)
      BY DEF Statuses
    <2> HIDE DEF status
    <2>2. Clean(c, x, Put(q, i, status), t, y, d, m)
      BY <2>1, MarkClean
    <2> QED BY <2>2 DEF status
  <1>2. CASE ~Committed(c, g, q[i])
    BY <1>1, <1>2 DEF Shown, Logged
  <1>3. CASE Committed(c, g, q[i])
    <2>1. /\ DOMAIN f = DOMAIN q /\ f[i].status = "completed"
          /\ \A k \in DOMAIN q : /\ f[k].query = q[k].query /\ f[k].generation = q[k].generation
                                 /\ f[k].attempt = q[k].attempt /\ (k # i => f[k] = q[k])
      <3>1. q \in Seq(RequestsOf(c)) /\ "completed" \in Statuses
        BY DEF Typed, Statuses
      <3> QED BY <3>1, PutIs
    <2>2. /\ DOMAIN b = DOMAIN q /\ \A k \in DOMAIN q : /\ q[k].generation \in 1 .. g /\ q[k].attempt \in Nat
                                                        /\ y[q[k].generation] \in Nat
      BY TypedAre
    <2>3. g \in Nat /\ b \in Seq(Nat) /\ m \in Seq(Commits)
      BY DEF Typed
    <2>4. q[i].generation = g
      <3>1. ~(q[i].generation < g)
        BY <1>3 DEF Committed
      <3> QED BY <2>2, <2>3, <3>1
    <2>5. d[i] = 1
      <3>1. d[i] = b[i] + 1
        BY <2>2, <2>3, CalledIs
      <3>2. b[i] = 0
        BY DEF Clean, RequestsClean, AnsweredOnce
      <3> QED BY <3>1, <3>2
    <2>6. e.request = i /\ e.generation = g /\ e.attempt = q[i].attempt /\ e.callback = 1
      BY <2>4, <2>5
    <2>7. Shown(c, g, x, q, i) = o /\ Logged(c, g, q, m, i, d[i]) = w
      BY <1>3 DEF Shown, Logged
    <2> HIDE DEF e, f
    <2>8. /\ DOMAIN w = 1 .. Len(m) + 1 /\ Len(w) = Len(m) + 1 /\ w[Len(m) + 1] = e /\ Len(m) \in Nat
          /\ DOMAIN m = 1 .. Len(m) /\ \A k \in DOMAIN m : w[k] = m[k]
      BY <2>3
    <2> HIDE DEF w
    <2>9. CommitsAre(f, m)
      BY <1>1 DEF Clean, CommitsClean
    <2>10. CommitsAre(f, w)
      <3>1. ASSUME NEW k \in DOMAIN w
            PROVE  /\ w[k].request \in DOMAIN f /\ f[w[k].request].status = "completed" /\ w[k].callback = 1
                   /\ w[k].generation = f[w[k].request].generation /\ w[k].attempt = f[w[k].request].attempt
        <4>1. CASE k \in DOMAIN m
          BY <2>8, <2>9, <4>1 DEF CommitsAre
        <4>2. CASE k = Len(m) + 1
          BY <2>1, <2>4, <2>6, <2>8, <4>2
        <4> QED BY <2>8, <4>1, <4>2
      <3> QED BY <3>1 DEF CommitsAre
    <2>11. ASSUME NEW k \in DOMAIN m PROVE m[k].generation < g
      <3> DEFINE r == m[k].request
      <3>1. /\ r \in DOMAIN q /\ q[r].status = "completed" /\ m[k].generation = q[r].generation
        BY DEF Clean, CommitsClean, CommitsAre
      <3>2. ASSUME q[r].generation = g PROVE FALSE
        <4>1. r # i /\ q[r].status # "failed" /\ q[i].status # "failed"
          BY <3>1
        <4>2. q[r].attempt = y[g] + 1 /\ q[i].attempt = y[g] + 1
          BY <2>4, <3>1, <3>2, <4>1 DEF Clean, RequestsClean, LastStands
        <4>3. q[r].attempt # q[i].attempt
          BY <2>4, <3>1, <3>2, <4>1 DEF Clean, RequestsClean, AttemptsDiffer
        <4> QED BY <4>2, <4>3
      <3> HIDE DEF r
      <3>3. q[r].generation \in 1 .. g
        BY <2>2, <3>1
      <3> QED BY <2>3, <3>1, <3>2, <3>3
    <2>12. CommitsAscend(w)
      <3>1. ASSUME NEW j \in DOMAIN w, NEW k \in DOMAIN w, j < k PROVE w[j].generation < w[k].generation
        <4>1. CASE k \in DOMAIN m
          <5>1. j \in DOMAIN m
            BY <2>8, <3>1, <4>1
          <5> QED BY <2>8, <3>1, <4>1, <5>1 DEF Clean, CommitsClean, CommitsAscend
        <4>2. CASE k = Len(m) + 1
          <5>1. j \in DOMAIN m
            BY <2>8, <3>1, <4>2
          <5> QED BY <2>6, <2>8, <2>11, <4>2, <5>1
        <4> QED BY <2>8, <4>1, <4>2
      <3> QED BY <3>1 DEF CommitsAscend
    <2>13. LastShown(o, f, w)
      BY <2>1, <2>6, <2>8 DEF LastShown
    <2> HIDE DEF o
    <2> QED BY <1>1, <2>7, <2>10, <2>12, <2>13 DEF Clean, CommitsClean, f, w
  <1> QED BY <1>2, <1>3

-----------------------------------------------------------------------------
\* A runtime without faults is clean.
CleanRuntime(c, rt) == Clean(c, rt.result, rt.requests, rt.timers, rt.retries, rt.callbacks, rt.commits)
ConfigIs(c) == c.retryBudget \in Nat /\ DOMAIN c.corpus \subseteq Nat
Keeps(c, rt, after) ==
    /\ IsRuntime(c, after)
    /\ c.faults = {} /\ CleanRuntime(c, rt) => CleanRuntime(c, after)

\* It is one whose fields are typed, and clean where they are.
LEMMA RecordKeeps ==
    ASSUME NEW c, NEW rt, NEW n, NEW g, NEW x, NEW q, NEW t, NEW y, NEW b, NEW m, Typed(c, n, g, q, t, y, b, m),
           c.faults = {} /\ CleanRuntime(c, rt) => Clean(c, x, q, t, y, b, m)
    PROVE  Keeps(c, rt, Record(n, g, x, q, t, y, b, m))
  <1> DEFINE r == Record(n, g, x, q, t, y, b, m)
  <1>1. /\ r.now = n /\ r.generation = g /\ r.result = x /\ r.requests = q /\ r.timers = t
        /\ r.retries = y /\ r.callbacks = b /\ r.commits = m
    BY DEF Record
  <1>2. r = Record(r.now, r.generation, r.result, r.requests, r.timers, r.retries, r.callbacks, r.commits)
    BY <1>1
  <1> HIDE DEF r
  <1> QED BY <1>1, <1>2 DEF Keeps, IsRuntime, CleanRuntime, r

\* Every action leaves a typed runtime, ...
LEMMA IssueKeeps ==
    ASSUME NEW c, ConfigIs(c), NEW rt, IsRuntime(c, rt), NEW query \in Queries(c)
    PROVE  Keeps(c, rt, Issue(rt, query, 0, 1))
  <1> DEFINE n == rt.now
             g == rt.generation
             x == rt.result
             q == rt.requests
             t == rt.timers
             y == rt.retries
             b == rt.callbacks
             m == rt.commits
  <1>1. rt = Record(n, g, x, q, t, y, b, m) /\ Typed(c, n, g, q, t, y, b, m)
    BY DEF IsRuntime
  <1>2. CleanRuntime(c, rt) => Clean(c, x, q, t, y, b, m)
    BY DEF CleanRuntime
  <1> HIDE DEF n, g, x, q, t, y, b, m
  <1> DEFINE f == Append(q, Asked(query, g + 1, 1))
             h == g + 1
             k == 1
  <1>3. Issue(rt, query, 0, 1) = Record(n, g + 1, x, f, t, Append(y, 0), Append(b, 0), m)
    <2> DEFINE o == 0
    <2>1. Issue(rt, query, o, k) =
            Record(n, IF o = 0 THEN g + 1 ELSE g, x, Append(q, Asked(query, IF o = 0 THEN g + 1 ELSE o, k)), t,
                          IF o = 0 THEN Append(y, 0) ELSE y, Append(b, 0), m)
      <3> HIDE DEF o, k
      <3> QED BY <1>1, IssueIs
    <2> QED BY <2>1
  <1>4. Typed(c, n, h, Append(q, Asked(query, h, k)), t, Append(y, 0), Append(b, 0), m)
    <2>1. g \in Nat /\ y \in Seq(Nat) /\ Len(y) = g /\ t \in Seq(Timers)
      BY <1>1 DEF Typed
    <2> DEFINE z == Append(y, 0)
    <2>2. h \in Nat \ {0} /\ h \in Nat /\ h \in {g, g + 1} /\ h <= h /\ k \in Nat \ {0} /\ z \in Seq(Nat) /\ Len(z) = h
      BY <2>1
    <2> HIDE DEF h, k, z
    <2>3. Typed(c, n, h, Append(q, Asked(query, h, k)), t, z, Append(b, 0), m)
      BY <1>1, <2>1, <2>2, RequestTyped
    <2> QED BY <2>3 DEF z
  <1>5. ASSUME c.faults = {} /\ CleanRuntime(c, rt) PROVE Clean(c, x, f, t, Append(y, 0), Append(b, 0), m)
    <2>1. c.retryBudget \in Nat
      BY DEF ConfigIs
    <2> QED BY <1>1, <1>2, <1>5, <2>1, IssueClean
  <1>6. Typed(c, n, g + 1, f, t, Append(y, 0), Append(b, 0), m)
    BY <1>4
  <1> HIDE DEF f
  <1> QED BY <1>3, <1>5, <1>6, RecordKeeps

\* ... a request aborted, ...
LEMMA AbortKeeps ==
    ASSUME NEW c, NEW rt, IsRuntime(c, rt), NEW i, AtRequest([arg |-> i], rt.requests, {"pending"})
    PROVE  Keeps(c, rt, Marked(rt, i, "aborted"))
  <1> DEFINE n == rt.now
             g == rt.generation
             x == rt.result
             q == rt.requests
             t == rt.timers
             y == rt.retries
             b == rt.callbacks
             m == rt.commits
             status == "aborted"
  <1>1. rt = Record(n, g, x, q, t, y, b, m) /\ Typed(c, n, g, q, t, y, b, m)
    BY DEF IsRuntime
  <1>2. CleanRuntime(c, rt) => Clean(c, x, q, t, y, b, m)
    BY DEF CleanRuntime
  <1>3. i \in DOMAIN q /\ q[i].status \in {"pending", "aborted"}
    BY DEF AtRequest
  <1>4. status \in Statuses /\ b = (IF status = "completed" THEN Called(b, i) ELSE b)
    BY DEF Statuses
  <1> HIDE DEF n, g, x, q, t, y, b, m, status
  <1>5. Marked(rt, i, status) = Record(n, g, x, Put(q, i, status), t, y, b, m)
    BY <1>1, StatusIs
  <1>6. Typed(c, n, g, Put(q, i, status), t, y, b, m)
    BY <1>1, <1>3, <1>4, StatusTyped
  <1>7. CleanRuntime(c, rt) => Clean(c, x, Put(q, i, status), t, y, b, m)
    BY <1>1, <1>2, <1>3, <1>4, MarkClean
  <1>8. Keeps(c, rt, Marked(rt, i, status))
    BY <1>5, <1>6, <1>7, RecordKeeps
  <1> QED BY <1>8 DEF status

\* ... or failed, ...
LEMMA FailKeeps ==
    ASSUME NEW c, ConfigIs(c), NEW rt, IsRuntime(c, rt), NEW i, AtRequest([arg |-> i], rt.requests, {"pending"})
    PROVE  Keeps(c, rt, Fail(c, rt, i))
  <1> DEFINE n == rt.now
             g == rt.generation
             x == rt.result
             q == rt.requests
             t == rt.timers
             y == rt.retries
             b == rt.callbacks
             m == rt.commits
             w == Retried(c, q, n, i)
             f == Put(q, i, "failed")
  <1>1. rt = Record(n, g, x, q, t, y, b, m) /\ Typed(c, n, g, q, t, y, b, m)
    BY DEF IsRuntime
  <1>2. CleanRuntime(c, rt) => Clean(c, x, q, t, y, b, m)
    BY DEF CleanRuntime
  <1>3. i \in DOMAIN q /\ q[i].status = "pending" /\ c.retryBudget \in Nat /\ "failed" \in Statuses
    BY DEF AtRequest, ConfigIs, Statuses
  <1> HIDE DEF n, g, x, q, t, y, b, m
  <1>4. t \in Seq(Timers) /\ n \in Nat
    BY <1>1 DEF Typed
  <1>5. i \in Nat \ {0} /\ q[i].attempt \in Nat
    BY <1>1, <1>3, TypedAre
  <1>6. Fail(c, rt, i) = Record(n, g, x, f, t \o w, y, b, m)
    BY <1>1, <1>3, <1>4, <1>5, FailIs
  <1>7. Typed(c, n, g, f, t \o w, y, b, m)
    <2>1. Typed(c, n, g, f, t, y, b, m)
      BY <1>1, <1>3, StatusTyped
    <2>2. w \in Seq(Timers) /\ \A j \in DOMAIN w : w[j].owner = i
      <3>1. /\ Retried(c, q, n, i) \in Seq(Timers)
            /\ \A j \in DOMAIN Retried(c, q, n, i) :
                 /\ Retried(c, q, n, i)[j].owner = i /\ ~(q[i].attempt > c.retryBudget)
        BY <1>4, <1>5, RetriedAre
      <3> QED BY <3>1
    <2>3. i \in DOMAIN f
      <3>1. q \in Seq(RequestsOf(c))
        BY <1>1 DEF Typed
      <3>2. DOMAIN f = DOMAIN q
        BY <1>3, <3>1, PutIs
      <3> QED BY <1>3, <3>2
    <2> HIDE DEF f, w
    <2> QED BY <2>1, <2>2, <2>3, TimersTyped
  <1>8. ASSUME c.faults = {} /\ CleanRuntime(c, rt) PROVE Clean(c, x, f, t \o w, y, b, m)
    BY <1>1, <1>2, <1>3, <1>8, FailClean
  <1> DEFINE u == t \o w
  <1>9. Fail(c, rt, i) = Record(n, g, x, f, u, y, b, m) /\ Typed(c, n, g, f, u, y, b, m)
        /\ (c.faults = {} /\ CleanRuntime(c, rt) => Clean(c, x, f, u, y, b, m))
    BY <1>6, <1>7, <1>8
  <1> HIDE DEF f, w, u
  <1> QED BY <1>9, RecordKeeps

\* ... the time advanced, ...
LEMMA AdvanceKeeps ==
    ASSUME NEW c, NEW rt, IsRuntime(c, rt), NEW v \in Nat
    PROVE  Keeps(c, rt, [rt EXCEPT !.now = v])
  <1> DEFINE n == rt.now
             g == rt.generation
             x == rt.result
             q == rt.requests
             t == rt.timers
             y == rt.retries
             b == rt.callbacks
             m == rt.commits
  <1>1. rt = Record(n, g, x, q, t, y, b, m) /\ Typed(c, n, g, q, t, y, b, m)
    BY DEF IsRuntime
  <1>2. CleanRuntime(c, rt) => Clean(c, x, q, t, y, b, m)
    BY DEF CleanRuntime
  <1> HIDE DEF n, g, x, q, t, y, b, m
  <1>3. [rt EXCEPT !.now = v] = Record(v, g, x, q, t, y, b, m)
    <2>1. [Record(n, g, x, q, t, y, b, m) EXCEPT !.now = v] = Record(v, g, x, q, t, y, b, m)
      BY DEF Record
    <2> QED BY <1>1, <2>1
  <1>4. Typed(c, v, g, q, t, y, b, m)
    BY <1>1 DEF Typed
  <1> QED BY <1>2, <1>3, <1>4, RecordKeeps

\* ... a timer fired, ...
LEMMA FireKeeps ==
    ASSUME NEW c, ConfigIs(c), NEW rt, IsRuntime(c, rt), NEW j \in DOMAIN rt.timers, rt.timers[j].status = "pending"
    PROVE  Keeps(c, rt, Fire(rt, j))
  <1> DEFINE n == rt.now
             g == rt.generation
             x == rt.result
             q == rt.requests
             t == rt.timers
             y == rt.retries
             b == rt.callbacks
             m == rt.commits
             i == t[j].owner
             h == q[i].generation
             f == Append(q, Asked(q[i].query, h, q[i].attempt + 1))
             u == Fired(t, j)
             z == Called(y, h)
             d == Append(b, 0)
  <1>1. rt = Record(n, g, x, q, t, y, b, m) /\ Typed(c, n, g, q, t, y, b, m)
    BY DEF IsRuntime
  <1>2. CleanRuntime(c, rt) => Clean(c, x, q, t, y, b, m)
    BY DEF CleanRuntime
  <1>3. j \in DOMAIN t /\ t[j].status = "pending" /\ c.retryBudget \in Nat
    BY DEF ConfigIs
  <1> HIDE DEF n, g, x, q, t, y, b, m
  <1>4. i \in DOMAIN q
    BY <1>1, <1>3, TypedAre
  <1>5. h \in 1 .. g /\ h \in DOMAIN y /\ q[i].attempt \in Nat \ {0} /\ q[i] \in RequestsOf(c)
    BY <1>1, <1>4, TypedAre
  <1>6. g \in Nat /\ y \in Seq(Nat) /\ Len(y) = g /\ t \in Seq(Timers)
    BY <1>1 DEF Typed
  <1>7. h # 0 /\ h \in Nat \ {0} /\ h \in Nat /\ h <= g /\ q[i].attempt + 1 \in Nat \ {0}
    <2> DEFINE k == q[i].attempt
    <2>1. k \in Nat \ {0} /\ h \in 1 .. g
      BY <1>5
    <2> HIDE DEF h, k
    <2>2. h # 0 /\ h \in Nat \ {0} /\ h \in Nat /\ h <= g /\ k + 1 \in Nat \ {0}
      BY <1>6, <2>1
    <2> QED BY <2>2 DEF k
  <1>8. i = t[j].owner /\ h = q[i].generation
    OBVIOUS
  <1> HIDE DEF i, h
  <1>9. Fire(rt, j) = Record(n, g, x, f, u, z, d, m)
    BY <1>1, <1>7, <1>8, FireIs
  <1>10. z \in Seq(Nat) /\ Len(z) = g
    BY <1>5, <1>6, CalledIs
  <1>11. u \in Seq(Timers) /\ Len(u) = Len(t) /\ \A k \in DOMAIN t : u[k].owner = t[k].owner
    BY <1>3, <1>6, FiredIs
  <1>12. q[i].query \in Queries(c)
    BY <1>5 DEF RequestsOf
  <1> HIDE DEF u, z
  <1>13. Typed(c, n, g, f, u, z, d, m)
    <2> DEFINE k == q[i].attempt + 1
               query == q[i].query
    <2>1. query \in Queries(c) /\ k \in Nat \ {0} /\ g \in {g, g + 1}
      BY <1>7, <1>12
    <2> HIDE DEF k, query
    <2>2. Typed(c, n, g, Append(q, Asked(query, h, k)), u, z, Append(b, 0), m)
      BY <1>1, <1>6, <1>7, <1>10, <1>11, <2>1, RequestTyped
    <2> QED BY <2>2 DEF k, query
  <1>14. ASSUME c.faults = {} /\ CleanRuntime(c, rt) PROVE Clean(c, x, f, u, z, d, m)
    BY <1>1, <1>2, <1>3, <1>8, <1>14, FireClean DEF u, z
  <1> HIDE DEF f, d
  <1> QED BY <1>9, <1>13, <1>14, RecordKeeps

\* ... an answer delivered; and what is then shown is known, ...
LEMMA DeliverKeeps ==
    ASSUME NEW c, NEW rt, IsRuntime(c, rt), NEW i, AtRequest([arg |-> i], rt.requests, {"pending", "aborted"})
    PROVE  /\ Keeps(c, rt, Deliver(c, rt, i))
           /\ c.faults = {} => Deliver(c, rt, i).result = Shown(c, rt.generation, rt.result, rt.requests, i)
  <1> DEFINE n == rt.now
             g == rt.generation
             x == rt.result
             q == rt.requests
             t == rt.timers
             y == rt.retries
             b == rt.callbacks
             m == rt.commits
             f == Put(q, i, "completed")
             d == Called(b, i)
             e == Called(d, i)
             x1 == Shown(c, g, x, q, i)
             x2 == Shown(c, g, x1, q, i)
             m1 == Logged(c, g, q, m, i, d[i])
             m2 == Logged(c, g, q, m1, i, e[i])
  <1>1. rt = Record(n, g, x, q, t, y, b, m) /\ Typed(c, n, g, q, t, y, b, m)
    BY DEF IsRuntime
  <1>2. CleanRuntime(c, rt) => Clean(c, x, q, t, y, b, m)
    BY DEF CleanRuntime
  <1>3. i \in DOMAIN q /\ q[i].status \in {"pending", "aborted"} /\ "completed" \in Statuses
    BY DEF AtRequest, Statuses
  <1>4. rt.generation = g /\ rt.result = x /\ rt.requests = q
    OBVIOUS
  <1> HIDE DEF n, g, x, q, t, y, b, m
  <1>5. d = Called(b, i) /\ e = Called(d, i)
    OBVIOUS
  <1> HIDE DEF d, e
  <1>6. Deliver(c, rt, i) = IF "duplicateCallbacks" \in c.faults
                            THEN Record(n, g, x2, f, t, y, e, m2) ELSE Record(n, g, x1, f, t, y, d, m1)
    BY <1>1, <1>5, DeliverIs
  <1>7. Typed(c, n, g, q, t, y, d, m1)
    BY <1>1, <1>3, <1>5, AnswerTyped
  <1>8. Typed(c, n, g, f, t, y, d, m1)
    <2> HIDE DEF m1
    <2> QED BY <1>3, <1>7, StatusTyped
  <1>9. Typed(c, n, g, f, t, y, e, m2)
    <2> HIDE DEF m1
    <2>1. Typed(c, n, g, q, t, y, e, Logged(c, g, q, m1, i, e[i]))
      BY <1>3, <1>5, <1>7, AnswerTyped
    <2> HIDE DEF m2
    <2>2. Typed(c, n, g, q, t, y, e, m2)
      BY <2>1 DEF m2
    <2> QED BY <1>3, <2>2, StatusTyped
  <1>10. ASSUME c.faults = {} /\ CleanRuntime(c, rt) PROVE Clean(c, x1, f, t, y, d, m1)
    BY <1>1, <1>2, <1>3, <1>5, <1>10, AnswerClean
  <1> HIDE DEF f, x1, x2, m1, m2
  <1>11. CASE "duplicateCallbacks" \in c.faults
    <2>1. Deliver(c, rt, i) = Record(n, g, x2, f, t, y, e, m2) /\ ~(c.faults = {})
      BY <1>6, <1>11
    <2>2. c.faults = {} /\ CleanRuntime(c, rt) => Clean(c, x2, f, t, y, e, m2)
      BY <2>1
    <2> QED BY <1>9, <2>1, <2>2, RecordKeeps
  <1>12. CASE "duplicateCallbacks" \notin c.faults
    <2>1. Deliver(c, rt, i) = Record(n, g, x1, f, t, y, d, m1)
      BY <1>6, <1>12
    <2>2. Keeps(c, rt, Deliver(c, rt, i))
      BY <1>8, <1>10, <2>1, RecordKeeps
    <2>3. Deliver(c, rt, i).result = Shown(c, g, x, q, i)
      BY <2>1 DEF Record, x1
    <2> QED BY <1>4, <2>2, <2>3
  <1> QED BY <1>11, <1>12

\* ... and one of an application without faults a clean one, ...
LEMMA ExecuteKeeps ==
    ASSUME NEW c, ConfigIs(c), NEW rt, IsRuntime(c, rt), NEW a \in Offered(c, rt)
    PROVE  Keeps(c, rt, Execute(c, rt, a))
  <1>1. IsOffered(c, rt.now, rt.generation, rt.requests, rt.timers, a)
    BY OfferedAre
  <1>2. \A among : AtRequest(a, rt.requests, among) => AtRequest([arg |-> a.arg], rt.requests, among)
    BY DEF AtRequest
  <1>3. CASE a.kind = "abort" /\ AtRequest(a, rt.requests, {"pending"})
    <2>1. Execute(c, rt, a) = Marked(rt, a.arg, "aborted")
      BY <1>3 DEF Execute, Marked
    <2> QED BY <1>2, <1>3, <2>1, AbortKeeps
  <1>4. CASE a.kind = "fail" /\ AtRequest(a, rt.requests, {"pending"})
    <2>1. Execute(c, rt, a) = Fail(c, rt, a.arg)
      BY <1>4 DEF Execute
    <2> QED BY <1>2, <1>4, <2>1, FailKeeps
  <1>5. CASE a.kind = "deliver" /\ AtRequest(a, rt.requests, {"pending", "aborted"})
    <2>1. Execute(c, rt, a) = Deliver(c, rt, a.arg)
      BY <1>5 DEF Execute
    <2> QED BY <1>2, <1>5, <2>1, DeliverKeeps
  <1>6. CASE a.kind = "advance" /\ \E j \in DOMAIN rt.timers : a.arg = rt.timers[j].due /\ rt.timers[j].due > rt.now
    <2>1. Execute(c, rt, a) = [rt EXCEPT !.now = a.arg]
      BY <1>6 DEF Execute
    <2> DEFINE v == a.arg
    <2>2. v \in Nat
      <3>1. PICK j \in DOMAIN rt.timers : v = rt.timers[j].due
        BY <1>6
      <3>2. rt.timers \in Seq(Timers)
        BY DEF IsRuntime, Typed
      <3>3. rt.timers[j] \in Timers
        BY <3>2
      <3> QED BY <3>1, <3>3 DEF Timers
    <2>3. Execute(c, rt, a) = [rt EXCEPT !.now = v]
      BY <2>1
    <2> HIDE DEF v
    <2> QED BY <2>2, <2>3, AdvanceKeeps
  <1>7. CASE a.kind = "fire" /\ a.arg \in DOMAIN rt.timers /\ rt.timers[a.arg].status = "pending"
    <2>1. Execute(c, rt, a) = Fire(rt, a.arg)
      BY <1>7 DEF Execute
    <2> QED BY <1>7, <2>1, FireKeeps
  <1>8. CASE a.kind = "issue" /\ a.arg \in DOMAIN c.corpus
    <2>1. Execute(c, rt, a) = Issue(rt, c.corpus[a.arg], 0, 1)
      BY <1>8 DEF Execute
    <2>2. c.corpus[a.arg] \in Queries(c)
      BY <1>8 DEF Queries
    <2> QED BY <2>1, <2>2, IssueKeeps
  <1> QED BY <1>1, <1>3, <1>4, <1>5, <1>6, <1>7, <1>8 DEF IsOffered

\* ... by a step that shows nothing.
LEMMA CleanShowsNothing ==
    ASSUME NEW c, ConfigIs(c), c.faults = {}, NEW rt, IsRuntime(c, rt), CleanRuntime(c, rt), NEW a \in Offered(c, rt)
    PROVE  Violations(c, rt, a, Execute(c, rt, a)) = {}
  <1> DEFINE after == Execute(c, rt, a)
  <1>1. IsRuntime(c, after) /\ CleanRuntime(c, after)
    BY ExecuteKeeps DEF Keeps
  <1>2. ASSUME a.kind = "deliver", rt.result # after.result
        PROVE  /\ ~(rt.requests[a.arg].generation < rt.generation)
               /\ rt.requests[a.arg].status # "aborted"
    <2>1. IsOffered(c, rt.now, rt.generation, rt.requests, rt.timers, a)
      BY OfferedAre
    <2>2. AtRequest([arg |-> a.arg], rt.requests, {"pending", "aborted"})
      BY <1>2, <2>1 DEF IsOffered, AtRequest
    <2>3. after = Deliver(c, rt, a.arg)
      BY <1>2 DEF Execute
    <2>4. after.result = Shown(c, rt.generation, rt.result, rt.requests, a.arg)
      BY <2>2, <2>3, DeliverKeeps
    <2> HIDE DEF after
    <2>5. Committed(c, rt.generation, rt.requests[a.arg])
      BY <1>2, <2>4 DEF Shown
    <2> QED BY <2>5 DEF Committed
  <1> HIDE DEF after
  <1>3. ~(\E i \in DOMAIN after.callbacks : after.callbacks[i] > 1)
    <2>1. DOMAIN after.callbacks = DOMAIN after.requests
      BY <1>1, TypedAre DEF IsRuntime
    <2>2. \A i \in DOMAIN after.requests : after.callbacks[i] \in {0, 1}
      BY <1>1 DEF CleanRuntime, Clean, RequestsClean, AnsweredOnce
    <2> QED BY <2>1, <2>2
  <1>4. ~(\E g \in DOMAIN after.retries : after.retries[g] > c.retryBudget)
    <2>1. after.retries \in Seq(Nat) /\ c.retryBudget \in Nat
      BY <1>1 DEF IsRuntime, Typed, ConfigIs
    <2>2. \A g \in DOMAIN after.retries : after.retries[g] <= c.retryBudget /\ after.retries[g] \in Nat
      BY <1>1, <2>1 DEF CleanRuntime, Clean, TimersClean, BudgetHeld
    <2> QED BY <2>1, <2>2
  <1>5. Violations(c, rt, a, after) = {}
    <2> SUFFICES ASSUME NEW e \in Violations(c, rt, a, after) PROVE FALSE
      OBVIOUS
    <2>1. e \in Codes
      BY DEF Violations
    <2>2. CASE e = "stale_response"
      BY <1>2, <2>2 DEF Violations
    <2>3. CASE e = "aborted_response_commit"
      BY <1>2, <2>3 DEF Violations
    <2>4. CASE e = "callback_count_exceeded"
      BY <1>3, <2>4 DEF Violations
    <2>5. CASE e = "retry_budget_exceeded"
      BY <1>4, <2>5 DEF Violations
    <2> QED BY <2>1, <2>2, <2>3, <2>4, <2>5 DEF Codes
  <1> QED BY <1>5 DEF after

\* A runtime begins clean.
LEMMA FreshIs == ASSUME NEW c, ConfigIs(c) PROVE IsRuntime(c, Fresh) /\ CleanRuntime(c, Fresh)
  <1> DEFINE none == <<>>
  <1>1. /\ Fresh.now = 0 /\ Fresh.generation = 0 /\ Fresh.result = none /\ Fresh.requests = none /\ Fresh.timers = none
        /\ Fresh.retries = none /\ Fresh.callbacks = none /\ Fresh.commits = none
    BY DEF Fresh
  <1>2. Fresh = Record(Fresh.now, Fresh.generation, Fresh.result, Fresh.requests, Fresh.timers, Fresh.retries,
                       Fresh.callbacks, Fresh.commits)
    BY DEF Fresh, Record
  <1>3. DOMAIN none = {} /\ Len(none) = 0 /\ none \in Seq(RequestsOf(c)) /\ none \in Seq(Timers)
        /\ none \in Seq(Nat) /\ none \in Seq(Commits)
    OBVIOUS
  <1> HIDE DEF none
  <1>4. Typed(c, 0, 0, none, none, none, none, none)
    BY <1>3 DEF Typed
  <1>5. Clean(c, none, none, none, none, none, none)
    BY <1>3 DEF Clean, RequestsClean, TimersClean, CommitsClean, AnsweredOnce, AttemptsDiffer, LastStands,
                TimersWait, OwnersDiffer, BudgetHeld, CommitsAre, CommitsAscend, LastShown
  <1> QED BY <1>1, <1>2, <1>4, <1>5 DEF IsRuntime, CleanRuntime

\* A clean runtime commits in order.
LEMMA CleanIsOrderly ==
    ASSUME NEW c, NEW rt, IsRuntime(c, rt), CleanRuntime(c, rt)
    PROVE  OrderlyCommits(c, rt)
  <1> DEFINE m == rt.commits
  <1>1. m \in Seq(Commits)
    BY DEF IsRuntime, Typed
  <1>2. CommitsAre(rt.requests, m) /\ CommitsAscend(m) /\ LastShown(rt.result, rt.requests, m) /\ BudgetHeld(c, rt.retries)
    BY DEF CleanRuntime, Clean, CommitsClean, TimersClean
  <1> HIDE DEF m
  <1>3. ASSUME NEW j \in DOMAIN m PROVE m[j].callback = 1 /\ (j > 1 => m[j - 1].generation < m[j].generation)
    <2>1. j > 1 => j - 1 \in DOMAIN m /\ j - 1 < j
      BY <1>1
    <2> QED BY <1>2, <2>1 DEF CommitsAre, CommitsAscend
  <1>4. ASSUME m # <<>>
        PROVE  rt.result = <<rt.requests[Last(m).request].query, Last(m).attempt>>
    <2>1. Len(m) # 0
      BY <1>1, <1>4
    <2> QED BY <1>2, <2>1 DEF LastShown, Last
  <1> QED BY <1>2, <1>3, <1>4 DEF OrderlyCommits, BudgetHeld, m

\* The replay of a schedule is defined, action by action, ...
AreReplays(f, c, t, n) ==
    f = [k \in 0 .. n |-> IF k = 0 THEN Start ELSE ReplayStep(c, f[k - 1], t[k])]

\* It is: as a function of the actions replayed, ...
LEMMA ReplaysExist == ASSUME NEW c, NEW t, NEW n \in Nat PROVE \E f : AreReplays(f, c, t, n)
  <1> DEFINE S == {k \in 0 .. n : \E f : AreReplays(f, c, t, k)}
  <1>1. 0 \in S
    <2> DEFINE f == [k \in 0 .. 0 |-> Start]
    <2>1. f = [k \in 0 .. 0 |-> IF k = 0 THEN Start ELSE ReplayStep(c, f[k - 1], t[k])]
      OBVIOUS
    <2>2. AreReplays(f, c, t, 0)
      BY <2>1 DEF AreReplays
    <2> HIDE DEF f
    <2> QED BY <2>2
  <1>2. ASSUME NEW k \in 0 .. n - 1, k \in S PROVE k + 1 \in S
    <2>1. PICK f : AreReplays(f, c, t, k)
      BY <1>2
    <2> DEFINE w(i) == IF i = 0 THEN Start ELSE ReplayStep(c, f[i - 1], t[i])
               g == [i \in 0 .. k + 1 |-> w(i)]
    <2>2. \A i \in 0 .. k : f[i] = g[i]
      BY <2>1 DEF AreReplays
    <2>3. \A i \in 0 .. k + 1 : i # 0 => i - 1 \in 0 .. k
      BY <1>2
    <2> DEFINE h == [i \in 0 .. k + 1 |-> IF i = 0 THEN Start ELSE ReplayStep(c, g[i - 1], t[i])]
    <2>4. \A i \in 0 .. k + 1 : g[i] = h[i]
      BY <2>2, <2>3
    <2>5. g = h
      BY <2>4
    <2>6. AreReplays(g, c, t, k + 1)
      BY <2>5 DEF AreReplays
    <2> QED BY <1>2, <2>6
  <1> HIDE DEF S
  <1>3. \A k \in 0 .. n : k \in S
    BY <1>1, <1>2, CountUp
  <1>4. n \in S
    BY <1>3
  <1> QED BY <1>4 DEF S

\* ... in which each result goes on from the one before, ...
LEMMA ReplaysAre ==
    ASSUME NEW c, NEW A, NEW t \in Seq(A)
    PROVE  /\ ReplaysOf(c, t)[0] = Start
           /\ \A k \in 1 .. Len(t) : ReplaysOf(c, t)[k] = ReplayStep(c, ReplaysOf(c, t)[k - 1], t[k])
  <1>1. Len(t) \in Nat
    OBVIOUS
  <1>2. \E f : AreReplays(f, c, t, Len(t))
    BY <1>1, ReplaysExist
  <1>3. ReplaysOf(c, t) = CHOOSE f : AreReplays(f, c, t, Len(t))
    BY DEF ReplaysOf, AreReplays
  <1>4. AreReplays(ReplaysOf(c, t), c, t, Len(t))
    BY <1>2, <1>3
  <1> QED BY <1>1, <1>4 DEF AreReplays

\* ... and goes on from where the shorter one ended.
LEMMA ReplayGoesOn ==
    ASSUME NEW c, NEW A, NEW t \in Seq(A), NEW op \in A
    PROVE  /\ Replay(c, <<>>) = Start
           /\ Replay(c, Append(t, op)) = ReplayStep(c, Replay(c, t), op)
  <1> DEFINE u == Append(t, op)
             T == ReplaysOf(c, t)
             U == ReplaysOf(c, u)
             S == {k \in 0 .. Len(t) : U[k] = T[k]}
  <1>1. u \in Seq(A) /\ Len(u) = Len(t) + 1 /\ Len(t) \in Nat /\ u[Len(t) + 1] = op /\ \A k \in 1 .. Len(t) : u[k] = t[k]
    OBVIOUS
  <1> HIDE DEF u
  <1>2. /\ T[0] = U[0]
        /\ \A k \in 1 .. Len(t) : T[k] = ReplayStep(c, T[k - 1], t[k])
        /\ \A k \in 1 .. Len(u) : U[k] = ReplayStep(c, U[k - 1], u[k])
    <2>1. t \in Seq(A) /\ u \in Seq(A)
      BY <1>1
    <2>2. /\ T[0] = Start
          /\ \A k \in 1 .. Len(t) : T[k] = ReplayStep(c, T[k - 1], t[k])
      BY <2>1, ReplaysAre
    <2>3. /\ U[0] = Start
          /\ \A k \in 1 .. Len(u) : U[k] = ReplayStep(c, U[k - 1], u[k])
      BY <2>1, ReplaysAre
    <2> QED BY <2>2, <2>3
  <1>3. Replay(c, t) = T[Len(t)] /\ Replay(c, u) = U[Len(u)]
    BY DEF Replay
  <1>4. Replay(c, <<>>) = Start
    <2>1. <<>> \in Seq(A) /\ Len(<<>>) = 0
      OBVIOUS
    <2> QED BY <2>1, ReplaysAre DEF Replay
  <1> HIDE DEF T, U
  <1>5. 0 \in S
    BY <1>1, <1>2
  <1>6. ASSUME NEW k \in 0 .. Len(t) - 1, k \in S PROVE k + 1 \in S
    <2>1. k + 1 \in 1 .. Len(t) /\ k + 1 \in 1 .. Len(u) /\ (k + 1) - 1 = k
      BY <1>1
    <2>2. T[k + 1] = ReplayStep(c, T[k], t[k + 1]) /\ U[k + 1] = ReplayStep(c, U[k], u[k + 1])
      BY <1>2, <2>1
    <2> QED BY <1>1, <1>6, <2>1, <2>2
  <1> HIDE DEF S
  <1>7. \A k \in 0 .. Len(t) : k \in S
    BY <1>1, <1>5, <1>6, CountUp
  <1>8. U[Len(t)] = T[Len(t)]
    BY <1>1, <1>7 DEF S
  <1>9. Len(u) \in 1 .. Len(u) /\ Len(u) - 1 = Len(t)
    BY <1>1
  <1> QED BY <1>1, <1>2, <1>3, <1>4, <1>8, <1>9 DEF u

-----------------------------------------------------------------------------
\* What n steps reach is defined, one after the other, ...
Onward(c, r) == r \cup UNION {Steps(c, x) : x \in r}
Begun == {Fresh}
AreWithin(f, c, n) == f = [k \in 0 .. n |-> IF k = 0 THEN Begun ELSE Onward(c, f[k - 1])]

\* It is: as a function of their number, ...
LEMMA WithinExist == ASSUME NEW c, NEW n \in Nat PROVE \E f : AreWithin(f, c, n)
  <1> DEFINE S == {k \in 0 .. n : \E f : AreWithin(f, c, k)}
  <1>1. 0 \in S
    <2> DEFINE f == [k \in 0 .. 0 |-> Begun]
    <2>1. f = [k \in 0 .. 0 |-> IF k = 0 THEN Begun ELSE Onward(c, f[k - 1])]
      OBVIOUS
    <2>2. AreWithin(f, c, 0)
      BY <2>1 DEF AreWithin
    <2> HIDE DEF f
    <2> QED BY <2>2
  <1>2. ASSUME NEW k \in 0 .. n - 1, k \in S PROVE k + 1 \in S
    <2>1. PICK f : AreWithin(f, c, k)
      BY <1>2
    <2> DEFINE w(i) == IF i = 0 THEN Begun ELSE Onward(c, f[i - 1])
               g == [i \in 0 .. k + 1 |-> w(i)]
    <2>2. \A i \in 0 .. k : f[i] = g[i]
      BY <2>1 DEF AreWithin
    <2>3. \A i \in 0 .. k + 1 : i # 0 => i - 1 \in 0 .. k
      BY <1>2
    <2> DEFINE h == [i \in 0 .. k + 1 |-> IF i = 0 THEN Begun ELSE Onward(c, g[i - 1])]
    <2>4. \A i \in 0 .. k + 1 : g[i] = h[i]
      BY <2>2, <2>3
    <2>5. g = h
      BY <2>4
    <2>6. AreWithin(g, c, k + 1)
      BY <2>5 DEF AreWithin
    <2> QED BY <1>2, <2>6
  <1> HIDE DEF S
  <1>3. \A k \in 0 .. n : k \in S
    BY <1>1, <1>2, CountUp
  <1>4. n \in S
    BY <1>3
  <1> QED BY <1>4 DEF S

\* ... of which a longer one begins as a shorter one does, ...
LEMMA WithinAgree ==
    ASSUME NEW c, NEW n \in Nat, NEW f, AreWithin(f, c, n), NEW m \in Nat, NEW g, AreWithin(g, c, m), n <= m
    PROVE  f[n] = g[n]
  <1> DEFINE S == {k \in 0 .. n : f[k] = g[k]}
  <1>1. 0 \in S
    BY DEF AreWithin
  <1>2. ASSUME NEW k \in 0 .. n - 1, k \in S PROVE k + 1 \in S
    <2>1. k + 1 \in 0 .. n /\ k + 1 \in 0 .. m /\ k + 1 # 0 /\ (k + 1) - 1 = k
      OBVIOUS
    <2>2. f[k + 1] = Onward(c, f[k]) /\ g[k + 1] = Onward(c, g[k])
      BY <2>1 DEF AreWithin
    <2> QED BY <1>2, <2>1, <2>2
  <1> HIDE DEF S
  <1>3. \A k \in 0 .. n : k \in S
    BY <1>1, <1>2, CountUp
  <1>4. n \in S
    BY <1>3
  <1> QED BY <1>4 DEF S

\* ... so that one step more goes on from each.
LEMMA WithinIs ==
    ASSUME NEW c, NEW n \in Nat
    PROVE  /\ Within(c, 0) = {Fresh}
           /\ Within(c, n + 1) = Onward(c, Within(c, n))
  <1> DEFINE F(k) == CHOOSE f : AreWithin(f, c, k)
  <1>1. ASSUME NEW k \in Nat PROVE Within(c, k) = F(k)[k] /\ AreWithin(F(k), c, k)
    <2>1. \E f : AreWithin(f, c, k)
      BY WithinExist
    <2>2. Within(c, k) = F(k)[k]
      BY DEF Within, AreWithin, Onward, Begun
    <2> QED BY <2>1, <2>2
  <1> HIDE DEF F
  <1>2. Within(c, 0) = {Fresh}
    BY <1>1 DEF AreWithin, Begun
  <1>3. F(n)[n] = F(n + 1)[n]
    <2>1. n + 1 \in Nat /\ n <= n + 1
      OBVIOUS
    <2> QED BY <1>1, <2>1, WithinAgree
  <1>4. F(n + 1)[n + 1] = Onward(c, F(n + 1)[n])
    <2>1. n + 1 \in Nat /\ n + 1 \in 0 .. n + 1 /\ n + 1 # 0 /\ (n + 1) - 1 = n
      OBVIOUS
    <2>2. AreWithin(F(n + 1), c, n + 1)
      BY <1>1, <2>1
    <2> QED BY <2>1, <2>2 DEF AreWithin
  <1>5. n + 1 \in Nat
    OBVIOUS
  <1> QED BY <1>1, <1>2, <1>3, <1>4, <1>5

\* More steps reach no less.
LEMMA WithinGrows ==
    ASSUME NEW c, NEW m \in Nat, NEW n \in Nat, m <= n
    PROVE  Within(c, m) \subseteq Within(c, n)
  <1> DEFINE S == {k \in 0 .. n - m : Within(c, m) \subseteq Within(c, m + k)}
  <1>0. n - m \in Nat
    OBVIOUS
  <1>1. 0 \in S
    BY <1>0
  <1>2. ASSUME NEW k \in 0 .. (n - m) - 1, k \in S PROVE k + 1 \in S
    <2>1. m + k \in Nat /\ k + 1 \in 0 .. n - m /\ m + (k + 1) = (m + k) + 1
      OBVIOUS
    <2>2. Within(c, (m + k) + 1) = Onward(c, Within(c, m + k))
      BY <2>1, WithinIs
    <2>3. Within(c, m) \subseteq Within(c, (m + k) + 1)
      BY <1>2, <2>2 DEF Onward
    <2> QED BY <2>1, <2>3
  <1> HIDE DEF S
  <1>3. \A k \in 0 .. n - m : k \in S
    BY <1>0, <1>1, <1>2, CountUp
  <1>4. n - m \in S
    BY <1>0, <1>3
  <1>5. m + (n - m) = n
    OBVIOUS
  <1> QED BY <1>4, <1>5 DEF S

-----------------------------------------------------------------------------
\* Where a trace ends, and whether one of those that wait ends there.
EndOf(c, t) == Replay(c, t).runtime
Waits(c, q, x) == \E k \in DOMAIN q : x = EndOf(c, q[k])
Extended(c, s, q, now, b) == {x \in s : ~Waits(c, q, x) /\ ~(now = "expand" /\ x = EndOf(c, b))}

\* The states seen, none further than maxDepth.
StatesAre(c, s) ==
    /\ Fresh \in s
    /\ \A rt \in s : /\ IsRuntime(c, rt) /\ rt \in Within(c, c.maxDepth)
                     /\ c.faults = {} => CleanRuntime(c, rt)

\* A trace of the queue leads to a state that is seen, and none that is shorter does.
Leads(c, s, t) ==
    /\ t \in Seq(ActionsOf) /\ Replay(c, t).ok /\ EndOf(c, t) \in s /\ EndOf(c, t) \in Within(c, Len(t))
    /\ Len(t) > 0 => EndOf(c, t) \notin Within(c, Len(t) - 1)

\* The queue is in the order of lengths, which differ by one at the most, ...
QueueIs(c, s, q) ==
    /\ q \in Seq(Seq(ActionsOf))
    /\ \A k \in DOMAIN q : Leads(c, s, q[k]) /\ (c.maxDepth > 0 => Len(q[k]) < c.maxDepth)
    /\ \A j \in DOMAIN q, k \in DOMAIN q : j < k => Len(q[j]) <= Len(q[k]) /\ Len(q[k]) <= Len(q[j]) + 1

\* ... and none is less than that of the trace being extended.
Extending(c, s, q, b, r) ==
    /\ Leads(c, s, b) /\ Len(b) < c.maxDepth /\ r \subseteq Offered(c, EndOf(c, b))
    /\ \A k \in DOMAIN q : Len(b) <= Len(q[k]) /\ Len(q[k]) <= Len(b) + 1

\* What was extended is covered: its steps were seen, and what they show was noted.
StepSeen(c, s, noted, x, a) ==
    Execute(c, x, a) \in s /\ Violations(c, x, a, Execute(c, x, a)) \subseteq noted
SeenFrom(c, s, noted, among) ==
    c.maxDepth > 0 =>
        \A x \in among : x \in Within(c, c.maxDepth - 1) => \A a \in Offered(c, x) : StepSeen(c, s, noted, x, a)

\* Whether a state is as deep as maxDepth.
DepthIs(c, s, d) == d <=> c.maxDepth > 0 /\ \E x \in s : x \notin Within(c, c.maxDepth - 1)

\* A failure is one its trace shows, and none that is shorter does.
Failing(c, k, t) ==
    /\ t \in Seq(ActionsOf) /\ Replay(c, t).ok /\ k \in Replay(c, t).codes
    /\ 1 <= Len(t) /\ Len(t) <= c.maxDepth
    /\ Len(t) > 1 => k \notin Shows(c, Within(c, Len(t) - 2))

\* The invariant of the explorer.
ScheduleTyped ==
    /\ config \in Configs /\ transitions \in Nat /\ place \in Nat \ {0}
    /\ at \in {"loop", "expand", "shrink", "reported"}
    /\ firstFailures = [k \in Known |-> firstFailures[k]]
    /\ depthBoundReached \in BOOLEAN /\ transitionLimitReached \in BOOLEAN
    /\ config.faults = {} => Known = {}
QueueInv ==
    /\ StatesAre(config, states) /\ QueueIs(config, states, queue)
    /\ at = "expand" => Extending(config, states, queue, base, rest)
    /\ at \in {"shrink", "reported"} => queue = <<>> \/ transitionLimitReached
    /\ transitionLimitReached => transitions >= config.maxTransitions
SeenInv ==
    /\ ~transitionLimitReached =>
         /\ SeenFrom(config, states, Known, Extended(config, states, queue, at, base))
         /\ at = "expand" => \A a \in Offered(config, EndOf(config, base)) \ rest :
                                StepSeen(config, states, Known, EndOf(config, base), a)
    /\ DepthIs(config, states, depthBoundReached)
FailureInv ==
    /\ \A k \in Known : Failing(config, k, firstFailures[k])
    /\ code # "none" => code \in Known /\ current = firstFailures[code]
    /\ \A k \in DOMAIN reports : k \in Known /\ reports[k] = firstFailures[k]
    /\ at = "reported" => Known \subseteq DOMAIN reports

ScheduleInv == ScheduleTyped /\ QueueInv /\ SeenInv /\ FailureInv

\* The applications, typed.
LEMMA ConfigTyped ==
    ASSUME NEW c \in Configs
    PROVE  ConfigIs(c) /\ c.maxDepth \in Nat /\ c.maxTransitions \in Nat
  BY ScheduleAssumption DEF ConfigIs

\* What is offered is an action.
LEMMA OfferedTyped ==
    ASSUME NEW c, ConfigIs(c), NEW rt, IsRuntime(c, rt), NEW a \in Offered(c, rt)
    PROVE  a \in ActionsOf /\ (\E i \in DOMAIN Kinds : a.kind = Kinds[i]) /\ a.arg \in Nat
  <1>1. IsOffered(c, rt.now, rt.generation, rt.requests, rt.timers, a) /\ a = [kind |-> a.kind, arg |-> a.arg]
    BY OfferedAre
  <1>2. Typed(c, rt.now, rt.generation, rt.requests, rt.timers, rt.retries, rt.callbacks, rt.commits)
    BY DEF IsRuntime
  <1>3. DOMAIN c.corpus \subseteq Nat
    BY DEF ConfigIs
  <1>4. (\E i \in DOMAIN Kinds : a.kind = Kinds[i]) /\ a.arg \in Nat
    BY <1>1, <1>2, <1>3, ActionIs
  <1> QED BY <1>1, <1>4 DEF ActionsOf

\* A trace goes on with an action that is offered.
LEMMA TraceGoesOn ==
    ASSUME NEW c, NEW t \in Seq(ActionsOf), Replay(c, t).ok, NEW a \in ActionsOf, a \in Offered(c, EndOf(c, t))
    PROVE  /\ Append(t, a) \in Seq(ActionsOf) /\ Len(Append(t, a)) = Len(t) + 1
           /\ Replay(c, Append(t, a)).ok
           /\ EndOf(c, Append(t, a)) = Execute(c, EndOf(c, t), a)
           /\ Replay(c, Append(t, a)).codes = Violations(c, EndOf(c, t), a, Execute(c, EndOf(c, t), a))
  <1> DEFINE A == ActionsOf
  <1>1. t \in Seq(A) /\ a \in A
    OBVIOUS
  <1> HIDE DEF A
  <1>2. Append(t, a) \in Seq(A) /\ Len(Append(t, a)) = Len(t) + 1
    BY <1>1, AppendIs
  <1>3. Replay(c, Append(t, a)) = ReplayStep(c, Replay(c, t), a)
    BY <1>1, ReplayGoesOn
  <1>4. Append(t, a) \in Seq(ActionsOf)
    BY <1>2 DEF A
  <1>5. EndOf(c, Append(t, a)) = Replay(c, Append(t, a)).runtime /\ EndOf(c, t) = Replay(c, t).runtime
    BY DEF EndOf
  <1>6. Replay(c, Append(t, a)) = [ok |-> TRUE, runtime |-> Execute(c, EndOf(c, t), a),
                                   codes |-> Violations(c, EndOf(c, t), a, Execute(c, EndOf(c, t), a))]
    BY <1>3, <1>5 DEF ReplayStep
  <1> QED BY <1>2, <1>4, <1>5, <1>6

\* A schedule that replays ends within its length, and shows nothing that is not shown
\* from within one step less.
ShownIn(c, n) == IF n = 0 THEN {} ELSE Shows(c, Within(c, n - 1))
Placed(c, r, n) ==
    /\ r = [ok |-> r.ok, runtime |-> r.runtime, codes |-> r.codes]
    /\ r.ok => r.runtime \in Within(c, n) /\ r.codes \subseteq ShownIn(c, n)

\* It is so of every step, ...
LEMMA ReplayPlaced ==
    ASSUME NEW c, NEW n \in Nat, NEW r, NEW a, Placed(c, r, n)
    PROVE  Placed(c, ReplayStep(c, r, a), n + 1)
  <1>1. CASE r.ok /\ a \in Offered(c, r.runtime)
    <2> DEFINE x == r.runtime
               y == Execute(c, x, a)
               v == Violations(c, x, a, y)
    <2>1. ReplayStep(c, r, a) = [ok |-> TRUE, runtime |-> y, codes |-> v]
      BY <1>1 DEF ReplayStep
    <2>2. x \in Within(c, n) /\ a \in Offered(c, x)
      BY <1>1 DEF Placed
    <2>3. Within(c, n + 1) = Onward(c, Within(c, n))
      BY WithinIs
    <2>4. y \in Steps(c, x) /\ v \subseteq ShownBy(c, x)
      BY <2>2 DEF Steps, ShownBy
    <2> HIDE DEF x, y, v
    <2>5. y \in Within(c, n + 1) /\ v \subseteq Shows(c, Within(c, n))
      BY <2>2, <2>3, <2>4 DEF Onward, Shows
    <2>6. ShownIn(c, n + 1) = Shows(c, Within(c, n))
      BY DEF ShownIn
    <2> QED BY <2>1, <2>5, <2>6 DEF Placed
  <1>2. CASE ~(r.ok /\ a \in Offered(c, r.runtime))
    <2> DEFINE k == r.ok
               x == r.runtime
               v == r.codes
    <2>1. ReplayStep(c, r, a) = [r EXCEPT !.ok = FALSE, !.codes = {}]
      BY <1>2 DEF ReplayStep
    <2>2. r = [ok |-> k, runtime |-> x, codes |-> v]
      BY DEF Placed
    <2> HIDE DEF k, x, v
    <2>3. ReplayStep(c, r, a) = [ok |-> FALSE, runtime |-> x, codes |-> {}]
      BY <2>1, <2>2
    <2> QED BY <2>3 DEF Placed
  <1> QED BY <1>1, <1>2

\* ... and of the whole.
LEMMA ReplayShows ==
    ASSUME NEW c, NEW t \in Seq(ActionsOf)
    PROVE  /\ Placed(c, Replay(c, t), Len(t))
           /\ Len(t) = 0 => Replay(c, t).codes = {}
  <1> DEFINE A == ActionsOf
             n == Len(t)
             R == ReplaysOf(c, t)
             S == {k \in 0 .. n : Placed(c, R[k], k)}
  <1>1. t \in Seq(A) /\ n \in Nat
    OBVIOUS
  <1> HIDE DEF A
  <1>2. /\ R[0] = Start
        /\ \A k \in 1 .. n : R[k] = ReplayStep(c, R[k - 1], t[k])
    BY <1>1, ReplaysAre
  <1>3. Replay(c, t) = R[n]
    BY DEF Replay
  <1> HIDE DEF n, R
  <1>4. Placed(c, Start, 0)
    BY WithinIs DEF Placed, Start
  <1>5. 0 \in S
    BY <1>1, <1>2, <1>4
  <1>6. ASSUME NEW k \in 0 .. n - 1, k \in S PROVE k + 1 \in S
    <2>1. k + 1 \in 1 .. n /\ k + 1 \in 0 .. n /\ (k + 1) - 1 = k /\ k \in Nat
      BY <1>1
    <2>2. R[k + 1] = ReplayStep(c, R[k], t[k + 1]) /\ Placed(c, R[k], k)
      BY <1>2, <1>6, <2>1
    <2>3. Placed(c, R[k + 1], k + 1)
      BY <2>1, <2>2, ReplayPlaced
    <2> QED BY <2>1, <2>3
  <1> HIDE DEF S
  <1>7. \A k \in 0 .. n : k \in S
    BY <1>1, <1>5, <1>6, CountUp
  <1>8. n \in S
    BY <1>1, <1>7
  <1>9. n = 0 => R[n].codes = {}
    BY <1>2 DEF Start
  <1> QED BY <1>3, <1>8, <1>9 DEF S, n

\* More steps show no less.
LEMMA FurtherShows ==
    ASSUME NEW c, NEW m \in Nat, NEW n \in Nat, m <= n
    PROVE  Shows(c, Within(c, m)) \subseteq Shows(c, Within(c, n))
  <1>1. Within(c, m) \subseteq Within(c, n)
    BY WithinGrows
  <1> QED BY <1>1 DEF Shows

\* Where the traces that wait are no shorter than n, what is reached in n steps was seen.
LEMMA NearSeen ==
    ASSUME NEW c, c.maxDepth \in Nat, NEW s, Fresh \in s, NEW q, QueueIs(c, s, q), NEW w, NEW b,
           w = "expand" => Leads(c, s, b), NEW noted,
           SeenFrom(c, s, noted, Extended(c, s, q, w, b)), NEW n \in Nat, n <= c.maxDepth,
           \A k \in DOMAIN q : n <= Len(q[k]), w = "expand" => n <= Len(b)
    PROVE  /\ Within(c, n) \subseteq s
           /\ n > 0 => Shows(c, Within(c, n - 1)) \subseteq noted
  <1> DEFINE S == {m \in 0 .. n : Within(c, m) \subseteq s}
  <1>1. 0 \in S
    BY WithinIs
  <1>2. ASSUME NEW m \in 0 .. n - 1, Within(c, m) \subseteq s
        PROVE  \A x \in Within(c, m) : \A a \in Offered(c, x) : StepSeen(c, s, noted, x, a)
    <2> SUFFICES ASSUME NEW x \in Within(c, m), NEW a \in Offered(c, x) PROVE StepSeen(c, s, noted, x, a)
      OBVIOUS
    <2>1. m \in Nat /\ n - 1 \in Nat /\ m <= n - 1 /\ c.maxDepth - 1 \in Nat /\ m <= c.maxDepth - 1 /\ c.maxDepth > 0
      BY <1>2
    <2>2. x \in Within(c, c.maxDepth - 1)
      BY <2>1, WithinGrows
    <2>3. ASSUME NEW t, Leads(c, s, t), n <= Len(t) PROVE x # EndOf(c, t)
      <3> DEFINE l == Len(t) - 1
      <3>1. l \in Nat /\ m <= l /\ Len(t) > 0
        <4>1. Len(t) \in Nat
          BY <2>3 DEF Leads
        <4> QED BY <2>1, <2>3, <4>1
      <3>2. EndOf(c, t) \notin Within(c, l)
        BY <2>3, <3>1 DEF Leads
      <3> HIDE DEF l
      <3>3. Within(c, m) \subseteq Within(c, l)
        BY <2>1, <3>1, WithinGrows
      <3> QED BY <3>2, <3>3
    <2>4. ~Waits(c, q, x)
      BY <2>3 DEF Waits, QueueIs
    <2>5. x \in Extended(c, s, q, w, b)
      BY <1>2, <2>3, <2>4 DEF Extended
    <2> QED BY <2>1, <2>2, <2>5 DEF SeenFrom
  <1>3. ASSUME NEW m \in 0 .. n - 1, m \in S PROVE m + 1 \in S
    <2>1. m \in Nat /\ m + 1 \in 0 .. n
      BY <1>3
    <2>2. Within(c, m) \subseteq s
      BY <1>3
    <2>3. Within(c, m + 1) = Onward(c, Within(c, m))
      BY <2>1, WithinIs
    <2>4. \A x \in Within(c, m) : \A a \in Offered(c, x) : Execute(c, x, a) \in s
      BY <1>2, <2>2 DEF StepSeen
    <2>5. Onward(c, Within(c, m)) \subseteq s
      BY <2>2, <2>4 DEF Onward, Steps
    <2> QED BY <2>1, <2>3, <2>5
  <1> HIDE DEF S
  <1>4. \A m \in 0 .. n : m \in S
    BY <1>1, <1>3, CountUp
  <1>5. \A m \in 0 .. n : Within(c, m) \subseteq s
    BY <1>4 DEF S
  <1>6. ASSUME n > 0 PROVE Shows(c, Within(c, n - 1)) \subseteq noted
    <2>1. n - 1 \in 0 .. n - 1 /\ n - 1 \in 0 .. n
      BY <1>6
    <2> DEFINE l == n - 1
    <2>2. l \in 0 .. n - 1 /\ Within(c, l) \subseteq s
      BY <1>5, <2>1
    <2> HIDE DEF l
    <2>3. \A x \in Within(c, l) : \A a \in Offered(c, x) : StepSeen(c, s, noted, x, a)
      BY <1>2, <2>2
    <2>4. Shows(c, Within(c, l)) \subseteq noted
      BY <2>3 DEF Shows, ShownBy, StepSeen
    <2> QED BY <2>4 DEF l
  <1>7. n \in 0 .. n
    OBVIOUS
  <1> QED BY <1>5, <1>6, <1>7

\* One step tried of the trace being extended.
TriedStep(c, s, b, noted, a, y, t) ==
    /\ t \in Seq(ActionsOf) /\ Len(t) = Len(b) + 1 /\ Len(b) \in Nat /\ Len(t) <= c.maxDepth
    /\ Replay(c, t).ok /\ EndOf(c, t) = y /\ Replay(c, t).codes = Violations(c, EndOf(c, b), a, y)
    /\ y = Execute(c, EndOf(c, b), a) /\ y \in Within(c, Len(t)) /\ IsRuntime(c, y)
    /\ c.faults = {} => CleanRuntime(c, y) /\ Replay(c, t).codes = {}
    /\ y \notin s => y \notin Within(c, Len(b))
    /\ Len(b) > 0 => Shows(c, Within(c, Len(b) - 1)) \subseteq noted

\* Its state, where it is new, is not reached in fewer steps than its trace has.
LEMMA TriedIs ==
    ASSUME NEW c, ConfigIs(c), c.maxDepth \in Nat, NEW s, StatesAre(c, s), NEW q, QueueIs(c, s, q), NEW b, NEW r,
           Extending(c, s, q, b, r), NEW noted, SeenFrom(c, s, noted, Extended(c, s, q, "expand", b)), NEW a \in r
    PROVE  TriedStep(c, s, b, noted, a, Execute(c, EndOf(c, b), a), Append(b, a))
  <1> DEFINE x == EndOf(c, b)
             y == Execute(c, EndOf(c, b), a)
             t == Append(b, a)
             n == Len(b)
  <1>1. Leads(c, s, b) /\ b \in Seq(ActionsOf) /\ Replay(c, b).ok /\ x \in s /\ a \in Offered(c, x) /\ n < c.maxDepth
    BY DEF Extending, Leads
  <1>2. IsRuntime(c, x) /\ (c.faults = {} => CleanRuntime(c, x))
    BY <1>1 DEF StatesAre
  <1>3. a \in ActionsOf
    BY <1>1, <1>2, OfferedTyped
  <1>4. n \in Nat /\ n <= c.maxDepth
    BY <1>1
  <1>5. /\ t \in Seq(ActionsOf) /\ Len(t) = n + 1 /\ Replay(c, t).ok /\ EndOf(c, t) = y
        /\ Replay(c, t).codes = Violations(c, x, a, y)
    BY <1>1, <1>3, TraceGoesOn
  <1>6. y \in Within(c, Len(t))
    <2>1. Placed(c, Replay(c, t), Len(t))
      BY <1>5, ReplayShows
    <2> QED BY <1>5, <2>1 DEF Placed, EndOf
  <1>7. Keeps(c, x, Execute(c, x, a))
    BY <1>1, <1>2, ExecuteKeeps
  <1>8. IsRuntime(c, y) /\ (c.faults = {} => CleanRuntime(c, y))
    BY <1>2, <1>7 DEF Keeps
  <1>9. c.faults = {} => Violations(c, x, a, y) = {}
    BY <1>1, <1>2, CleanShowsNothing
  <1>10. Within(c, n) \subseteq s /\ (n > 0 => Shows(c, Within(c, n - 1)) \subseteq noted)
    <2>1. Fresh \in s /\ \A k \in DOMAIN q : n <= Len(q[k])
      BY DEF StatesAre, Extending
    <2> HIDE DEF n
    <2>2. ("expand" = "expand" => n <= Len(b)) /\ ("expand" = "expand" => Leads(c, s, b))
      BY <1>1, <1>4 DEF n
    <2> QED BY <1>1, <1>4, <2>1, <2>2, NearSeen
  <1> HIDE DEF x, y, t
  <1>11. Len(t) <= c.maxDepth
    BY <1>1, <1>4, <1>5
  <1>12. y = Execute(c, x, a)
    BY DEF x, y
  <1>13. TriedStep(c, s, b, noted, a, y, t)
    BY <1>4, <1>5, <1>6, <1>8, <1>9, <1>10, <1>11, <1>12 DEF TriedStep, x
  <1> QED BY <1>13 DEF y, t

\* What is seen stays, ...
LEMMA LeadsStays ==
    ASSUME NEW c, NEW s, NEW t, Leads(c, s, t), NEW z, s \subseteq z
    PROVE  Leads(c, z, t)
  BY DEF Leads

\* ... what was extended stays covered, ...
LEMMA SeenStays ==
    ASSUME NEW c, NEW s, NEW noted, NEW among, SeenFrom(c, s, noted, among), NEW z, s \subseteq z,
           NEW more, noted \subseteq more, NEW others,
           \A x \in others : x \in among \/ x \notin Within(c, c.maxDepth - 1)
    PROVE  SeenFrom(c, z, more, others)
  BY DEF SeenFrom, StepSeen

\* ... and so does what waits, of which there may be one more.
LEMMA QueueStays ==
    ASSUME NEW c, NEW s, NEW q, QueueIs(c, s, q), NEW z, s \subseteq z, NEW b, NEW r, Extending(c, s, q, b, r), NEW a
    PROVE  QueueIs(c, z, q) /\ Extending(c, z, q, b, r \ {a})
  <1>1. \A k \in DOMAIN q : Leads(c, z, q[k])
    BY LeadsStays DEF QueueIs
  <1>2. Leads(c, z, b)
    BY LeadsStays DEF Extending
  <1> QED BY <1>1, <1>2 DEF QueueIs, Extending

\* It is as long as the longest that wait.
LEMMA QueueGrows ==
    ASSUME NEW c, NEW s, NEW q, QueueIs(c, s, q), NEW b, NEW r, Extending(c, s, q, b, r), NEW t, Leads(c, s, t),
           Len(b) \in Nat, Len(t) = Len(b) + 1, Len(t) < c.maxDepth
    PROVE  QueueIs(c, s, Append(q, t)) /\ Extending(c, s, Append(q, t), b, r)
  <1> DEFINE p == Append(q, t)
             n == Len(q)
             A == Seq(ActionsOf)
  <1>1. q \in Seq(A) /\ t \in A
    BY DEF QueueIs, Leads
  <1>2. \A k \in DOMAIN q : Len(q[k]) \in Nat
    BY <1>1
  <1> HIDE DEF A
  <1>3. p \in Seq(A) /\ DOMAIN p = DOMAIN q \cup {n + 1} /\ p[n + 1] = t /\ (\A k \in DOMAIN q : p[k] = q[k])
        /\ DOMAIN q = 1 .. n /\ n \in Nat
    <2>1. p \in Seq(A) /\ Len(p) = Len(q) + 1 /\ p[Len(q) + 1] = t /\ \A k \in 1 .. Len(q) : p[k] = q[k]
      BY <1>1, AppendIs
    <2>2. DOMAIN p = 1 .. Len(p) /\ DOMAIN q = 1 .. n /\ n \in Nat
      BY <1>1, <2>1
    <2> QED BY <2>1, <2>2
  <1> HIDE DEF p, n
  <1>4. \A k \in DOMAIN q : Len(b) <= Len(q[k]) /\ Len(q[k]) <= Len(b) + 1
    BY DEF Extending
  <1>5. ASSUME NEW k \in DOMAIN p
        PROVE  /\ Leads(c, s, p[k]) /\ (c.maxDepth > 0 => Len(p[k]) < c.maxDepth)
               /\ Len(b) <= Len(p[k]) /\ Len(p[k]) <= Len(b) + 1
    <2>1. CASE k \in DOMAIN q
      BY <1>3, <1>4, <2>1 DEF QueueIs
    <2>2. CASE k = n + 1
      BY <1>3, <2>2
    <2> QED BY <1>3, <2>1, <2>2
  <1>6. ASSUME NEW j \in DOMAIN p, NEW k \in DOMAIN p, j < k PROVE Len(p[j]) <= Len(p[k]) /\ Len(p[k]) <= Len(p[j]) + 1
    <2>1. CASE k \in DOMAIN q
      <3>1. j \in DOMAIN q
        BY <1>3, <1>6, <2>1
      <3>2. Len(q[j]) <= Len(q[k]) /\ Len(q[k]) <= Len(q[j]) + 1
        BY <1>6, <2>1, <3>1 DEF QueueIs
      <3> QED BY <1>3, <2>1, <3>1, <3>2
    <2>2. CASE k = n + 1
      <3>1. j \in DOMAIN q
        BY <1>3, <1>6, <2>2
      <3>2. p[j] = q[j] /\ p[k] = t /\ Len(q[j]) \in Nat
        BY <1>2, <1>3, <2>2, <3>1
      <3>3. Len(b) <= Len(q[j]) /\ Len(q[j]) <= Len(b) + 1
        BY <1>4, <3>1
      <3> QED BY <3>2, <3>3
    <2> QED BY <1>3, <2>1, <2>2
  <1>7. QueueIs(c, s, p)
    BY <1>3, <1>5, <1>6 DEF QueueIs, A
  <1>8. Extending(c, s, p, b, r)
    BY <1>5 DEF Extending
  <1> QED BY <1>7, <1>8 DEF p

\* What is seen, what waits and what is noted after a step is tried: a state seen before
\* is not queued, nor is one as deep as maxDepth.
Noted(c, b, r, a, z, more) ==
    /\ StatesAre(c, z)
    /\ \A e \in Offered(c, EndOf(c, b)) \ (r \ {a}) : StepSeen(c, z, more, EndOf(c, b), e)
Queued(c, b, r, a, z, p, more) ==
    /\ Noted(c, b, r, a, z, more) /\ QueueIs(c, z, p) /\ Extending(c, z, p, b, r \ {a})
    /\ SeenFrom(c, z, more, Extended(c, z, p, "expand", b))
Trying(c, s, q, b, r, noted) ==
    /\ ConfigIs(c) /\ c.maxDepth \in Nat
    /\ StatesAre(c, s) /\ QueueIs(c, s, q) /\ Extending(c, s, q, b, r)
    /\ SeenFrom(c, s, noted, Extended(c, s, q, "expand", b))
    /\ \A e \in Offered(c, EndOf(c, b)) \ r : StepSeen(c, s, noted, EndOf(c, b), e)

\* What holds of what is seen and of the steps tried, whether a trace is queued or not.
LEMMA StepTried ==
    ASSUME NEW c, NEW s, NEW q, NEW b, NEW r, NEW noted, Trying(c, s, q, b, r, noted),
           NEW a \in r, NEW y, NEW t, TriedStep(c, s, b, noted, a, y, t),
           NEW z, z = s \cup {y}, NEW more, more = noted \cup Replay(c, t).codes
    PROVE  Noted(c, b, r, a, z, more)
  <1>1. y \in Within(c, c.maxDepth)
    <2> DEFINE n == Len(t)
    <2>1. n \in Nat /\ n <= c.maxDepth /\ y \in Within(c, n) /\ c.maxDepth \in Nat
      BY DEF TriedStep, Trying
    <2> HIDE DEF n
    <2>2. Within(c, n) \subseteq Within(c, c.maxDepth)
      BY <2>1, WithinGrows
    <2> QED BY <2>1, <2>2
  <1>2. StatesAre(c, z)
    BY <1>1 DEF StatesAre, Trying, TriedStep
  <1>3. ASSUME NEW e \in Offered(c, EndOf(c, b)) \ (r \ {a}) PROVE StepSeen(c, z, more, EndOf(c, b), e)
    <2>1. CASE e = a
      <3>1. Execute(c, EndOf(c, b), a) \in z /\ Violations(c, EndOf(c, b), a, Execute(c, EndOf(c, b), a)) \subseteq more
        BY DEF TriedStep
      <3> QED BY <2>1, <3>1 DEF StepSeen
    <2>2. CASE e \notin r
      <3>1. StepSeen(c, s, noted, EndOf(c, b), e)
        BY <1>3, <2>2 DEF Trying
      <3> QED BY <3>1 DEF StepSeen
    <2> QED BY <1>3, <2>1, <2>2
  <1> QED BY <1>2, <1>3 DEF Noted

\* What was seen before, or is as deep as maxDepth, is not queued, ...
LEMMA NotQueued ==
    ASSUME NEW c, NEW s, NEW q, NEW b, NEW r, NEW noted, Trying(c, s, q, b, r, noted),
           NEW a \in r, NEW y, NEW t, TriedStep(c, s, b, noted, a, y, t), y \in s \/ Len(t) >= c.maxDepth,
           NEW z, z = s \cup {y}, NEW more, more = noted \cup Replay(c, t).codes
    PROVE  Queued(c, b, r, a, z, q, more)
  <1>1. Noted(c, b, r, a, z, more)
    BY StepTried
  <1>2. QueueIs(c, z, q) /\ Extending(c, z, q, b, r \ {a})
    BY QueueStays DEF Trying
  <1>3. ASSUME NEW x \in Extended(c, z, q, "expand", b)
        PROVE  x \in Extended(c, s, q, "expand", b) \/ x \notin Within(c, c.maxDepth - 1)
    <2>1. CASE x \in s
      BY <1>3, <2>1 DEF Extended
    <2>2. CASE x \notin s
      <3>1. x = y /\ y \notin s
        BY <1>3, <2>2 DEF Extended
      <3>2. y \notin Within(c, Len(b))
        BY <3>1 DEF TriedStep
      <3>3. Len(b) = c.maxDepth - 1
        BY <3>1 DEF TriedStep, Trying
      <3> QED BY <3>1, <3>2, <3>3
    <2> QED BY <2>1, <2>2
  <1>4. SeenFrom(c, s, noted, Extended(c, s, q, "expand", b)) /\ s \subseteq z /\ noted \subseteq more
    BY DEF Trying
  <1>5. SeenFrom(c, z, more, Extended(c, z, q, "expand", b))
    BY <1>3, <1>4, SeenStays
  <1> QED BY <1>1, <1>2, <1>5 DEF Queued

\* ... what is new is.
LEMMA NewQueued ==
    ASSUME NEW c, NEW s, NEW q, NEW b, NEW r, NEW noted, Trying(c, s, q, b, r, noted),
           NEW a \in r, NEW y, NEW t, TriedStep(c, s, b, noted, a, y, t), y \notin s, Len(t) < c.maxDepth,
           NEW z, z = s \cup {y}, NEW more, more = noted \cup Replay(c, t).codes
    PROVE  Queued(c, b, r, a, z, Append(q, t), more)
  <1>1. Noted(c, b, r, a, z, more)
    BY StepTried
  <1>2. QueueIs(c, z, q) /\ Extending(c, z, q, b, r \ {a})
    BY QueueStays DEF Trying
  <1>3. Leads(c, z, t)
    <2>1. Len(t) - 1 = Len(b)
      BY DEF TriedStep
    <2>2. y \notin Within(c, Len(t) - 1)
      BY <2>1 DEF TriedStep
    <2> QED BY <2>2 DEF TriedStep, Leads
  <1>4. Len(b) \in Nat /\ Len(t) = Len(b) + 1
    BY DEF TriedStep
  <1>5. QueueIs(c, z, Append(q, t)) /\ Extending(c, z, Append(q, t), b, r \ {a})
    BY <1>2, <1>3, <1>4, QueueGrows
  <1>6. ASSUME NEW x \in Extended(c, z, Append(q, t), "expand", b)
        PROVE  x \in Extended(c, s, q, "expand", b)
    <2>1. /\ \A k \in DOMAIN q : k \in DOMAIN Append(q, t) /\ Append(q, t)[k] = q[k]
          /\ Len(q) + 1 \in DOMAIN Append(q, t) /\ Append(q, t)[Len(q) + 1] = t
      <3> DEFINE A == Seq(ActionsOf)
                 p == Append(q, t)
      <3>1. q \in Seq(A) /\ t \in A
        BY DEF Trying, QueueIs, TriedStep
      <3> HIDE DEF A
      <3>2. p \in Seq(A) /\ Len(p) = Len(q) + 1 /\ p[Len(q) + 1] = t /\ \A k \in 1 .. Len(q) : p[k] = q[k]
        BY <3>1, AppendIs
      <3>3. DOMAIN q = 1 .. Len(q) /\ Len(q) \in Nat
        BY <3>1
      <3> HIDE DEF p
      <3>4. DOMAIN p = 1 .. Len(p)
        BY <3>2
      <3>5. (\A k \in DOMAIN q : k \in DOMAIN p /\ p[k] = q[k]) /\ Len(q) + 1 \in DOMAIN p /\ p[Len(q) + 1] = t
        BY <3>2, <3>3, <3>4
      <3> QED BY <3>5 DEF p
    <2>2. ~Waits(c, Append(q, t), x) /\ x # EndOf(c, b) /\ x \in z
      BY DEF Extended
    <2>3. ~Waits(c, q, x)
      BY <2>1, <2>2 DEF Waits
    <2>4. x # y
      BY <2>1, <2>2 DEF Waits, TriedStep
    <2> QED BY <2>2, <2>3, <2>4 DEF Extended
  <1>7. SeenFrom(c, s, noted, Extended(c, s, q, "expand", b)) /\ s \subseteq z /\ noted \subseteq more
    BY DEF Trying
  <1>8. SeenFrom(c, z, more, Extended(c, z, Append(q, t), "expand", b))
    BY <1>6, <1>7, SeenStays
  <1> QED BY <1>1, <1>5, <1>8 DEF Queued

\* A state is as deep as maxDepth where its trace is as long.
LEMMA DepthStays ==
    ASSUME NEW c, c.maxDepth \in Nat, NEW s, NEW b, NEW noted, NEW a, NEW y, NEW t, TriedStep(c, s, b, noted, a, y, t),
           NEW d \in BOOLEAN, DepthIs(c, s, d)
    PROVE  DepthIs(c, s \cup {y}, d \/ (y \notin s /\ Len(t) >= c.maxDepth))
  <1>1. CASE y \in s
    <2>1. s \cup {y} = s
      BY <1>1
    <2> QED BY <1>1, <2>1 DEF DepthIs
  <1>2. CASE y \notin s /\ Len(t) >= c.maxDepth
    <2>1. Len(b) = c.maxDepth - 1 /\ c.maxDepth > 0
      BY <1>2 DEF TriedStep
    <2>2. y \notin Within(c, c.maxDepth - 1)
      BY <1>2, <2>1 DEF TriedStep
    <2> QED BY <1>2, <2>1, <2>2 DEF DepthIs
  <1>3. CASE y \notin s /\ ~(Len(t) >= c.maxDepth)
    <2> DEFINE n == Len(t)
               m == c.maxDepth - 1
    <2>1. n \in Nat /\ m \in Nat /\ n <= m /\ y \in Within(c, n)
      BY <1>3 DEF TriedStep
    <2> HIDE DEF n, m
    <2>2. y \in Within(c, m)
      BY <2>1, WithinGrows
    <2>3. y \in Within(c, c.maxDepth - 1)
      BY <2>2 DEF m
    <2> QED BY <1>3, <2>3 DEF DepthIs
  <1> QED BY <1>1, <1>2, <1>3

\* What a step is the first to show fails by its trace, ...
LEMMA FirstFails ==
    ASSUME NEW c, NEW s, NEW b, NEW noted, NEW a, NEW y, NEW t, TriedStep(c, s, b, noted, a, y, t),
           NEW k \in Replay(c, t).codes, k \notin noted
    PROVE  Failing(c, k, t)
  <1>1. Len(t) \in Nat /\ Len(t) >= 1 /\ Len(b) = Len(t) - 1 /\ Len(b) \in Nat
    BY DEF TriedStep
  <1>2. Len(t) > 1 => k \notin Shows(c, Within(c, Len(t) - 2))
    <2>1. Len(t) > 1 => Len(b) > 0 /\ Len(b) - 1 = Len(t) - 2
      BY <1>1
    <2> QED BY <2>1 DEF TriedStep
  <1> QED BY <1>1, <1>2 DEF Failing, TriedStep

\* ... which can lose no action.
LEMMA NothingToDelete ==
    ASSUME NEW c, NEW k, NEW t, Failing(c, k, t), NEW i \in 1 .. Len(t)
    PROVE  ~(Replay(c, RemoveAt(t, i)).ok /\ k \in Replay(c, RemoveAt(t, i)).codes)
  <1> DEFINE A == ActionsOf
             u == RemoveAt(t, i)
             n == Len(t)
             m == n - 1
             l == n - 2
  <1>1. t \in Seq(A) /\ n \in Nat /\ 1 <= n
    BY DEF Failing
  <1> HIDE DEF A
  <1>2. u \in Seq(A) /\ Len(u) = m
    <2>1. SubSeq(t, 1, i - 1) \in Seq(A) /\ Len(SubSeq(t, 1, i - 1)) = i - 1
      BY <1>1
    <2>2. SubSeq(t, i + 1, n) \in Seq(A) /\ Len(SubSeq(t, i + 1, n)) = n - i
      BY <1>1
    <2> DEFINE v == SubSeq(t, 1, i - 1)
               x == SubSeq(t, i + 1, n)
    <2>3. u = v \o x
      BY DEF RemoveAt
    <2>4. v \in Seq(A) /\ x \in Seq(A) /\ Len(v) = i - 1 /\ Len(x) = n - i /\ i \in Nat
      BY <2>1, <2>2
    <2> HIDE DEF u, v, x
    <2>5. u \in Seq(A) /\ Len(u) = Len(v) + Len(x)
      BY <2>3, <2>4, ConcatProperties
    <2> HIDE DEF n
    <2> QED BY <1>1, <2>4, <2>5
  <1> HIDE DEF u
  <1>3. Placed(c, Replay(c, u), Len(u)) /\ (Len(u) = 0 => Replay(c, u).codes = {})
    BY <1>2, ReplayShows DEF A
  <1> HIDE DEF n
  <1>4. CASE n = 1
    <2>1. Len(u) = 0
      BY <1>2, <1>4
    <2> QED BY <1>3, <2>1 DEF u
  <1>5. CASE n > 1
    <2>1. k \notin Shows(c, Within(c, l))
      BY <1>5 DEF Failing, n
    <2>2. ShownIn(c, m) = Shows(c, Within(c, l))
      <3>1. m # 0 /\ m - 1 = l
        BY <1>1, <1>5
      <3> HIDE DEF m, l
      <3> QED BY <3>1 DEF ShownIn
    <2>3. Placed(c, Replay(c, u), m)
      BY <1>2, <1>3
    <2> HIDE DEF m, l
    <2>4. ~(Replay(c, u).ok /\ k \in Replay(c, u).codes)
      BY <2>1, <2>2, <2>3 DEF Placed
    <2> QED BY <2>4 DEF u
  <1> QED BY <1>1, <1>4, <1>5

\* The invariant holds as the exploration begins, ...
LEMMA ScheduleInvInit == ScheduleInit => ScheduleInv
  <1> SUFFICES ASSUME ScheduleInit PROVE ScheduleInv
    OBVIOUS
  <1> DEFINE c == config
             none == <<>>
             start == <<none>>
  <1>1. /\ c \in Configs /\ states = {Fresh} /\ queue = start /\ firstFailures = Nothing /\ transitions = 0
        /\ depthBoundReached = FALSE /\ transitionLimitReached = FALSE /\ at = "loop"
        /\ code = "none" /\ place = 1 /\ reports = Nothing
    BY DEF ScheduleInit
  <1>2. ConfigIs(c) /\ c.maxDepth \in Nat
    BY <1>1, ConfigTyped
  <1>3. Known = {} /\ DOMAIN reports = {}
    BY <1>1 DEF Known, Nothing
  <1>4. ScheduleTyped
    <2>1. firstFailures = [k \in Known |-> firstFailures[k]]
      BY <1>1, <1>3 DEF Nothing
    <2>2. transitions \in Nat /\ place \in Nat \ {0}
      BY <1>1
    <2> QED BY <1>1, <1>3, <2>1, <2>2 DEF ScheduleTyped
  <1>5. Within(c, 0) = {Fresh}
    BY WithinIs
  <1>6. StatesAre(c, {Fresh})
    <2>1. IsRuntime(c, Fresh) /\ CleanRuntime(c, Fresh)
      BY <1>2, FreshIs
    <2>2. Within(c, 0) \subseteq Within(c, c.maxDepth)
      BY <1>2, WithinGrows
    <2> QED BY <1>5, <2>1, <2>2 DEF StatesAre
  <1>7. none \in Seq(ActionsOf) /\ Len(none) = 0 /\ Replay(c, none) = Start
    <2>1. none \in Seq(ActionsOf) /\ Len(none) = 0
      OBVIOUS
    <2>2. PICK op : op = [kind |-> "abort", arg |-> 0]
      OBVIOUS
    <2>3. none \in Seq({op}) /\ op \in {op}
      OBVIOUS
    <2>4. Replay(c, none) = Start
      BY <2>3, ReplayGoesOn
    <2> QED BY <2>1, <2>4
  <1>8. EndOf(c, none) = Fresh /\ Replay(c, none).ok
    BY <1>7 DEF EndOf, Start
  <1> HIDE DEF none
  <1>9. start \in Seq(Seq(ActionsOf)) /\ DOMAIN start = {1} /\ start[1] = none
    BY <1>7
  <1> HIDE DEF start
  <1>10. Leads(c, {Fresh}, none)
    BY <1>5, <1>7, <1>8 DEF Leads
  <1>11. QueueIs(c, {Fresh}, start)
    BY <1>2, <1>7, <1>9, <1>10 DEF QueueIs
  <1>12. QueueInv
    BY <1>1, <1>6, <1>11 DEF QueueInv
  <1>13. Extended(c, {Fresh}, start, at, base) = {}
    BY <1>8, <1>9 DEF Extended, Waits
  <1>14. DepthIs(c, {Fresh}, FALSE)
    <2>1. c.maxDepth > 0 => Fresh \in Within(c, c.maxDepth - 1)
      <3> DEFINE l == c.maxDepth - 1
      <3>1. c.maxDepth > 0 => l \in Nat /\ 0 <= l
        BY <1>2
      <3> HIDE DEF l
      <3>2. l \in Nat /\ 0 <= l => Within(c, 0) \subseteq Within(c, l)
        BY WithinGrows
      <3>3. c.maxDepth > 0 => Fresh \in Within(c, l)
        BY <1>5, <3>1, <3>2
      <3> QED BY <3>3 DEF l
    <2> QED BY <2>1 DEF DepthIs
  <1>15. SeenInv
    <2>1. SeenFrom(c, {Fresh}, Known, {})
      BY DEF SeenFrom
    <2> QED BY <1>1, <1>13, <1>14, <2>1 DEF SeenInv
  <1>16. FailureInv
    BY <1>1, <1>3 DEF FailureInv
  <1> QED BY <1>4, <1>12, <1>15, <1>16 DEF ScheduleInv

\* ... and each step keeps it: a step is tried, ...
LEMMA TryKeeps == ASSUME ScheduleInv, TryAction PROVE ScheduleInv'
  <1> DEFINE c == config
             s == states
             q == queue
             b == base
             r == rest
             noted == Known
             a == Least(rest)
             t == Append(base, Least(rest))
             y == EndOf(config, Append(base, Least(rest)))
             v == Replay(config, Append(base, Least(rest))).codes
  <1>1. /\ at = "expand" /\ r # {} /\ transitions < c.maxTransitions /\ transitions' = transitions + 1
        /\ states' = s \cup {y} /\ firstFailures' = [k \in noted \cup v |-> IF k \in noted THEN firstFailures[k] ELSE t]
        /\ queue' = IF y \notin s /\ Len(t) < c.maxDepth THEN Append(q, t) ELSE q
        /\ depthBoundReached' = (depthBoundReached \/ (y \notin s /\ Len(t) >= c.maxDepth))
        /\ rest' = r \ {a}
        /\ config' = c /\ at' = at /\ base' = b /\ transitionLimitReached' = transitionLimitReached
        /\ code' = code /\ current' = current /\ place' = place /\ reports' = reports
    BY DEF TryAction, Enqueue, EndOf, shrinking
  <1>2. c \in Configs /\ ConfigIs(c) /\ c.maxDepth \in Nat /\ c.maxTransitions \in Nat /\ transitions \in Nat
    BY ConfigTyped DEF ScheduleInv, ScheduleTyped
  <1>3. ~transitionLimitReached
    BY <1>1, <1>2 DEF ScheduleInv, QueueInv
  <1>4. Trying(c, s, q, b, r, noted)
    BY <1>1, <1>2, <1>3 DEF ScheduleInv, QueueInv, SeenInv, Trying
  <1>5. a \in r
    <2>1. Extending(c, s, q, b, r) /\ StatesAre(c, s)
      BY <1>4 DEF Trying
    <2>2. IsRuntime(c, EndOf(c, b)) /\ r \subseteq Offered(c, EndOf(c, b))
      BY <2>1 DEF Extending, Leads, StatesAre
    <2>3. \A e \in r : (\E i \in DOMAIN Kinds : e.kind = Kinds[i]) /\ e.arg \in Nat
      BY <1>2, <2>2, OfferedTyped
    <2> QED BY <1>1, <2>3, LeastIs
  <1>6. TriedStep(c, s, b, noted, a, y, t)
    <2>1. /\ StatesAre(c, s) /\ QueueIs(c, s, q) /\ Extending(c, s, q, b, r)
          /\ SeenFrom(c, s, noted, Extended(c, s, q, "expand", b))
      BY <1>4 DEF Trying
    <2>2. TriedStep(c, s, b, noted, a, Execute(c, EndOf(c, b), a), t)
      BY <1>2, <1>5, <2>1, TriedIs
    <2>3. Execute(c, EndOf(c, b), a) = y
      BY <2>2 DEF TriedStep
    <2> QED BY <2>2, <2>3
  <1>7. v = Replay(c, t).codes
    OBVIOUS
  <1> HIDE DEF c, s, q, b, r, noted, a, t, y, v
  <1>8. Known' = noted \cup v
    BY <1>1 DEF Known
  <1>9. Queued(c, b, r, a, states', queue', Known')
    <2> DEFINE z == s \cup {y}
               more == noted \cup v
    <2>1. states' = z /\ Known' = more /\ more = noted \cup Replay(c, t).codes
      BY <1>1, <1>7, <1>8
    <2>2. Len(t) \in Nat
      BY <1>6 DEF TriedStep
    <2>3. CASE y \notin s /\ Len(t) < c.maxDepth
      <3>1. queue' = Append(q, t)
        BY <1>1, <2>3
      <3> HIDE DEF more
      <3>2. Queued(c, b, r, a, z, Append(q, t), more)
        BY <1>4, <1>5, <1>6, <2>1, <2>3, NewQueued
      <3> QED BY <2>1, <3>1, <3>2
    <2>4. CASE y \in s \/ Len(t) >= c.maxDepth
      <3>1. queue' = q
        BY <1>1, <1>2, <2>2, <2>4
      <3> HIDE DEF more
      <3>2. Queued(c, b, r, a, z, q, more)
        BY <1>4, <1>5, <1>6, <2>1, <2>4, NotQueued
      <3> QED BY <2>1, <3>1, <3>2
    <2> QED BY <1>2, <2>2, <2>3, <2>4
  <1>10. /\ StatesAre(config', states') /\ QueueIs(config', states', queue')
         /\ Extending(config', states', queue', base', rest')
         /\ SeenFrom(config', states', Known', Extended(config', states', queue', at', base'))
         /\ \A e \in Offered(config', EndOf(config', base')) \ rest' :
              StepSeen(config', states', Known', EndOf(config', base'), e)
    <2>1. config' = c /\ base' = b /\ rest' = r \ {a} /\ at' = "expand"
      BY <1>1
    <2> QED BY <1>9, <2>1 DEF Queued, Noted
  <1>11. DepthIs(config', states', depthBoundReached')
    <2> DEFINE d == depthBoundReached
    <2>1. d \in BOOLEAN /\ DepthIs(c, s, d)
      BY DEF ScheduleInv, ScheduleTyped, SeenInv, c, s
    <2> HIDE DEF d
    <2>2. DepthIs(c, s \cup {y}, d \/ (y \notin s /\ Len(t) >= c.maxDepth))
      BY <1>2, <1>6, <2>1, DepthStays
    <2>3. depthBoundReached' = (d \/ (y \notin s /\ Len(t) >= c.maxDepth))
      BY <1>1 DEF d
    <2> QED BY <1>1, <2>2, <2>3
  <1>12. ScheduleTyped'
    <2>1. c.faults = {} => noted = {} /\ v = {}
      BY <1>6, <1>7 DEF ScheduleInv, ScheduleTyped, TriedStep, c, noted
    <2>2. config'.faults = {} => Known' = {}
      BY <1>1, <1>8, <2>1
    <2>3. firstFailures' = [k \in Known' |-> firstFailures'[k]]
      BY <1>1, <1>8
    <2>4. depthBoundReached' \in BOOLEAN
      BY <1>1
    <2>5. transitions' \in Nat
      BY <1>1, <1>2
    <2>6. config' \in Configs /\ place' \in Nat \ {0} /\ transitionLimitReached' \in BOOLEAN
          /\ at' \in {"loop", "expand", "shrink", "reported"}
      BY <1>1, <1>2 DEF ScheduleInv, ScheduleTyped
    <2> QED BY <2>2, <2>3, <2>4, <2>5, <2>6 DEF ScheduleTyped
  <1>13. QueueInv'
    BY <1>1, <1>3, <1>10 DEF QueueInv
  <1>14. SeenInv'
    BY <1>10, <1>11 DEF SeenInv
  <1>15. FailureInv'
    <2>1. \A k \in noted : Failing(c, k, firstFailures[k]) /\ firstFailures'[k] = firstFailures[k] /\ k \in Known'
      BY <1>1, <1>8 DEF ScheduleInv, FailureInv, c, noted
    <2>2. ASSUME NEW k \in Known' PROVE Failing(config', k, firstFailures'[k])
      <3>1. CASE k \in noted
        BY <1>1, <2>1, <3>1
      <3>2. CASE k \notin noted
        <4>1. k \in v /\ firstFailures'[k] = t
          BY <1>1, <1>8, <2>2, <3>2
        <4>2. Failing(c, k, t)
          BY <1>6, <1>7, <3>2, <4>1, FirstFails
        <4> QED BY <1>1, <4>1, <4>2
      <3> QED BY <3>1, <3>2
    <2>3. /\ code # "none" => code \in noted /\ current = firstFailures[code]
          /\ \A k \in DOMAIN reports : k \in noted /\ reports[k] = firstFailures[k]
      BY DEF ScheduleInv, FailureInv, noted
    <2>4. at' # "reported"
      BY <1>1
    <2> QED BY <1>1, <2>1, <2>2, <2>3, <2>4 DEF FailureInv
  <1> QED BY <1>12, <1>13, <1>14, <1>15 DEF ScheduleInv

\* ... the next trace is taken, ...
LEMMA TakeKeeps == ASSUME ScheduleInv, TakeTrace PROVE ScheduleInv'
  <1> DEFINE c == config
             s == states
             q == queue
             t == Head(queue)
             p == Tail(queue)
             noted == Known
  <1>1. /\ at = "loop" /\ q # <<>> /\ transitions < c.maxTransitions /\ queue' = p /\ base' = t
        /\ config' = c /\ states' = s /\ firstFailures' = firstFailures /\ transitions' = transitions
        /\ depthBoundReached' = depthBoundReached /\ transitionLimitReached' = transitionLimitReached
        /\ code' = code /\ current' = current /\ place' = place /\ reports' = reports
        /\ IF Len(t) >= c.maxDepth THEN at' = at /\ rest' = rest
           ELSE at' = "expand" /\ rest' = Offered(c, EndOf(c, t))
    BY DEF TakeTrace, shrinking, EndOf
  <1>2. c \in Configs /\ ConfigIs(c) /\ c.maxDepth \in Nat /\ c.maxTransitions \in Nat /\ transitions \in Nat
    BY ConfigTyped DEF ScheduleInv, ScheduleTyped
  <1>3. ~transitionLimitReached
    BY <1>1, <1>2 DEF ScheduleInv, QueueInv
  <1>4. StatesAre(c, s) /\ QueueIs(c, s, q) /\ SeenFrom(c, s, noted, Extended(c, s, q, "loop", base))
    BY <1>1, <1>3 DEF ScheduleInv, QueueInv, SeenInv
  <1>5. /\ p \in Seq(Seq(ActionsOf)) /\ 1 \in DOMAIN q /\ q[1] = t
        /\ \A k \in DOMAIN p : k + 1 \in DOMAIN q /\ p[k] = q[k + 1] /\ 1 < k + 1 /\ k \in Nat
        /\ \A k \in DOMAIN q : k # 1 => k - 1 \in DOMAIN p /\ p[k - 1] = q[k]
    <2> DEFINE A == Seq(ActionsOf)
    <2>1. q \in Seq(A)
      BY <1>4 DEF QueueIs
    <2> HIDE DEF A, q
    <2>2. q # <<>>
      BY <1>1 DEF q
    <2>3. Head(q) = q[1] /\ Tail(q) \in Seq(A) /\ DOMAIN q = 1 .. Len(q) /\ Len(q) \in Nat \ {0}
          /\ Len(Tail(q)) = Len(q) - 1 /\ DOMAIN Tail(q) = 1 .. Len(q) - 1
          /\ \A k \in 1 .. Len(q) - 1 : Tail(q)[k] = q[k + 1]
      BY <2>1, <2>2
    <2>4. p = Tail(q) /\ t = Head(q)
      BY DEF q
    <2> HIDE DEF p, t
    <2>5. /\ p \in Seq(A) /\ 1 \in DOMAIN q /\ q[1] = t
          /\ \A k \in DOMAIN p : k + 1 \in DOMAIN q /\ p[k] = q[k + 1] /\ 1 < k + 1 /\ k \in Nat
          /\ \A k \in DOMAIN q : k # 1 => k - 1 \in DOMAIN p /\ p[k - 1] = q[k]
      BY <2>3, <2>4
    <2> QED BY <2>5 DEF A, q
  <1> HIDE DEF c, s, q, t, p, noted
  <1>6. Known' = noted
    BY <1>1 DEF Known, noted
  <1>7. Leads(c, s, t) /\ \A k \in DOMAIN p : Len(t) <= Len(p[k]) /\ Len(p[k]) <= Len(t) + 1
    BY <1>4, <1>5 DEF QueueIs
  <1>8. QueueIs(c, s, p)
    <2>1. \A k \in DOMAIN p : Leads(c, s, p[k]) /\ (c.maxDepth > 0 => Len(p[k]) < c.maxDepth)
      BY <1>4, <1>5 DEF QueueIs
    <2>2. ASSUME NEW j \in DOMAIN p, NEW k \in DOMAIN p, j < k PROVE Len(p[j]) <= Len(p[k]) /\ Len(p[k]) <= Len(p[j]) + 1
      <3>1. j + 1 \in DOMAIN q /\ k + 1 \in DOMAIN q /\ j + 1 < k + 1 /\ p[j] = q[j + 1] /\ p[k] = q[k + 1]
        BY <1>5, <2>2
      <3> QED BY <1>4, <3>1 DEF QueueIs
    <2> QED BY <1>5, <2>1, <2>2 DEF QueueIs
  <1>9. \A x : Waits(c, q, x) => x = EndOf(c, t) \/ Waits(c, p, x)
    BY <1>5 DEF Waits
  <1>10. CASE Len(t) < c.maxDepth
    <2>1. at' = "expand" /\ rest' = Offered(c, EndOf(c, t))
      <3>1. Len(t) \in Nat
        BY <1>7 DEF Leads
      <3> QED BY <1>1, <1>2, <1>10, <3>1
    <2>2. Extending(c, s, p, t, rest')
      BY <1>7, <1>10, <2>1 DEF Extending
    <2>3. Extended(c, s, p, "expand", t) \subseteq Extended(c, s, q, "loop", base)
      BY <1>9 DEF Extended
    <2>4. SeenFrom(c, s, noted, Extended(c, s, p, "expand", t))
      BY <1>4, <2>3 DEF SeenFrom
    <2>5. QueueInv'
      BY <1>1, <1>3, <1>4, <1>8, <2>1, <2>2 DEF QueueInv
    <2>6. SeenInv'
      BY <1>1, <1>6, <2>1, <2>4 DEF ScheduleInv, SeenInv, c, s
    <2>7. ScheduleTyped'
      BY <1>1, <1>6, <2>1 DEF ScheduleInv, ScheduleTyped, c, noted
    <2>8. FailureInv'
      BY <1>1, <1>6, <2>1 DEF ScheduleInv, FailureInv, c, noted
    <2> QED BY <2>5, <2>6, <2>7, <2>8 DEF ScheduleInv
  <1>11. CASE ~(Len(t) < c.maxDepth)
    <2>1. at' = "loop" /\ Len(t) >= c.maxDepth /\ ~(c.maxDepth > 0)
      <3>1. Len(t) \in Nat /\ (c.maxDepth > 0 => Len(t) < c.maxDepth)
        BY <1>4, <1>5, <1>7 DEF Leads, QueueIs
      <3> QED BY <1>1, <1>2, <1>11, <3>1
    <2>2. SeenFrom(c, s, noted, Extended(c, s, p, "loop", t))
      BY <2>1 DEF SeenFrom
    <2>3. QueueInv'
      BY <1>1, <1>3, <1>4, <1>8, <2>1 DEF QueueInv
    <2>4. SeenInv'
      BY <1>1, <1>6, <2>1, <2>2 DEF ScheduleInv, SeenInv, c, s
    <2>5. ScheduleTyped'
      BY <1>1, <1>6, <2>1 DEF ScheduleInv, ScheduleTyped, c, noted
    <2>6. FailureInv'
      BY <1>1, <1>6, <2>1 DEF ScheduleInv, FailureInv, c, noted
    <2> QED BY <2>3, <2>4, <2>5, <2>6 DEF ScheduleInv
  <1> QED BY <1>10, <1>11

\* ... a trace is left, or the queue, ...
LEMMA LeaveKeeps == ASSUME ScheduleInv, LeaveExpansion \/ LeaveLoop PROVE ScheduleInv'
  <1> DEFINE c == config
             noted == Known
  <1>1. /\ base' = base /\ states' = states /\ queue' = queue /\ firstFailures' = firstFailures
        /\ transitions' = transitions /\ depthBoundReached' = depthBoundReached
        /\ code' = code /\ current' = current /\ place' = place /\ reports' = reports /\ config' = c
        /\ at' \in {"loop", "shrink"}
    BY DEF LeaveExpansion, LeaveLoop, shrinking
  <1>2. c \in Configs /\ ConfigIs(c) /\ c.maxDepth \in Nat /\ c.maxTransitions \in Nat /\ transitions \in Nat
    BY ConfigTyped DEF ScheduleInv, ScheduleTyped
  <1>3. /\ transitionLimitReached' \in BOOLEAN /\ (transitionLimitReached' => transitions >= c.maxTransitions)
        /\ transitionLimitReached => transitionLimitReached'
    BY DEF LeaveExpansion, LeaveLoop, ScheduleInv, ScheduleTyped, QueueInv
  <1>4. Known' = noted
    BY <1>1 DEF Known
  <1>5. at' = "shrink" => queue' = <<>> \/ transitionLimitReached'
    BY DEF LeaveExpansion, LeaveLoop
  <1>6. ASSUME ~transitionLimitReached'
        PROVE  SeenFrom(c, states, noted, Extended(c, states, queue, at', base))
    <2>1. ~transitionLimitReached
      BY <1>3, <1>6
    <2>2. SeenFrom(c, states, noted, Extended(c, states, queue, at, base))
      BY <2>1 DEF ScheduleInv, SeenInv
    <2>3. CASE LeaveExpansion
      <3>1. rest = {} /\ at = "expand"
        BY <1>6, <2>3 DEF LeaveExpansion
      <3>2. \A a \in Offered(c, EndOf(c, base)) : StepSeen(c, states, noted, EndOf(c, base), a)
        BY <2>1, <3>1 DEF ScheduleInv, SeenInv
      <3>3. \A x \in Extended(c, states, queue, at', base) :
              x \in Extended(c, states, queue, at, base) \/ x = EndOf(c, base)
        BY DEF Extended
      <3> HIDE DEF c, noted
      <3> QED BY <2>2, <3>2, <3>3 DEF SeenFrom
    <2>4. CASE LeaveLoop
      <3>1. Extended(c, states, queue, at', base) = Extended(c, states, queue, at, base)
        BY <2>4 DEF LeaveLoop, Extended
      <3> QED BY <2>2, <3>1
    <2> QED BY <2>3, <2>4
  <1> HIDE DEF c, noted
  <1>7. QueueInv'
    BY <1>1, <1>3, <1>5 DEF ScheduleInv, QueueInv, c
  <1>8. SeenInv'
    BY <1>1, <1>4, <1>6 DEF ScheduleInv, SeenInv, c
  <1>9. ScheduleTyped'
    BY <1>1, <1>3, <1>4 DEF ScheduleInv, ScheduleTyped, c, noted
  <1>10. FailureInv'
    BY <1>1, <1>4 DEF ScheduleInv, FailureInv, c, noted
  <1> QED BY <1>7, <1>8, <1>9, <1>10 DEF ScheduleInv

\* ... a failure is chosen, of which no action can be left out, and reported.
LEMMA ShrinkKeeps ==
    ASSUME ScheduleInv, NextFailure \/ TryDeletion \/ ReportFailure \/ UNCHANGED scheduleVars
    PROVE  ScheduleInv'
  <1> DEFINE c == config
             noted == Known
  <1>1. /\ base' = base /\ rest' = rest /\ states' = states /\ queue' = queue /\ firstFailures' = firstFailures
        /\ transitions' = transitions /\ depthBoundReached' = depthBoundReached /\ config' = c
        /\ transitionLimitReached' = transitionLimitReached
        /\ at' = at \/ (at = "shrink" /\ at' = "reported")
    BY DEF NextFailure, TryDeletion, ReportFailure, scheduleVars, exploration, expansion, shrinking
  <1>2. Known' = noted
    BY <1>1 DEF Known
  <1>3. /\ place \in Nat \ {0} /\ (\A k \in noted : Failing(c, k, firstFailures[k]))
        /\ code # "none" => code \in noted /\ current = firstFailures[code]
        /\ \A k \in DOMAIN reports : k \in noted /\ reports[k] = firstFailures[k]
        /\ at = "reported" => noted \subseteq DOMAIN reports
    BY DEF ScheduleInv, ScheduleTyped, FailureInv
  <1>4. /\ place' \in Nat \ {0}
        /\ code' # "none" => code' \in noted /\ current' = firstFailures[code']
        /\ \A k \in DOMAIN reports' : k \in noted /\ reports'[k] = firstFailures[k]
        /\ at' = "reported" => noted \subseteq DOMAIN reports'
    <2>1. CASE NextFailure
      BY <1>3, <2>1 DEF NextFailure
    <2>2. CASE TryDeletion
      <3>1. /\ code # "none" /\ place <= Len(current) /\ code' = code /\ reports' = reports /\ at' = at
        BY <2>2 DEF TryDeletion
      <3>2. Failing(c, code, current) /\ place \in 1 .. Len(current)
        <4>1. Failing(c, code, current)
          BY <1>3, <3>1
        <4>2. Len(current) \in Nat
          BY <4>1 DEF Failing
        <4> QED BY <1>3, <3>1, <4>1, <4>2
      <3>3. ~(Replay(c, RemoveAt(current, place)).ok /\ code \in Replay(c, RemoveAt(current, place)).codes)
        BY <3>2, NothingToDelete
      <3>4. place' = place + 1 /\ current' = current
        BY <2>2, <3>3 DEF TryDeletion
      <3> QED BY <1>3, <3>1, <3>4
    <2>3. CASE ReportFailure
      <3>1. /\ code # "none" /\ reports' = [k \in DOMAIN reports \cup {code} |-> IF k = code THEN current ELSE reports[k]]
            /\ code' = "none" /\ place' = place /\ at' = at /\ at = "shrink"
        BY <2>3 DEF ReportFailure
      <3> QED BY <1>3, <3>1
    <2>4. CASE UNCHANGED scheduleVars
      BY <1>3, <2>4 DEF scheduleVars, shrinking
    <2> QED BY <2>1, <2>2, <2>3, <2>4
  <1> HIDE DEF c, noted
  <1>5. at' = "expand" => at = "expand"
    BY <1>1
  <1>6. ASSUME ~transitionLimitReached
        PROVE  SeenFrom(c, states, noted, Extended(c, states, queue, at', base))
    <2>1. Extended(c, states, queue, at', base) = Extended(c, states, queue, at, base)
      BY <1>1 DEF Extended
    <2> QED BY <1>6, <2>1 DEF ScheduleInv, SeenInv, c, noted
  <1>7. QueueInv'
    BY <1>1 DEF ScheduleInv, QueueInv, c
  <1>8. SeenInv'
    BY <1>1, <1>2, <1>5, <1>6 DEF ScheduleInv, SeenInv, c, noted
  <1>9. ScheduleTyped'
    BY <1>1, <1>2, <1>4 DEF ScheduleInv, ScheduleTyped, c, noted
  <1>10. FailureInv'
    BY <1>1, <1>2, <1>3, <1>4 DEF FailureInv
  <1> QED BY <1>7, <1>8, <1>9, <1>10 DEF ScheduleInv

\* So every step keeps the invariant.
LEMMA ScheduleInvStep == ScheduleInv /\ [ScheduleNext]_scheduleVars => ScheduleInv'
  BY TakeKeeps, TryKeeps, LeaveKeeps, ShrinkKeeps DEF ScheduleNext

\* At the end, all there is was seen, and what it shows is reported at its shortest.
LEMMA ScheduleInvImplies == ScheduleInv => SchedulesExact
  <1> SUFFICES ASSUME ScheduleInv PROVE SchedulesExact
    OBVIOUS
  <1> DEFINE c == config
             n == config.maxDepth
             noted == Known
  <1>1. c \in Configs /\ n \in Nat /\ c.maxDepth = n
    BY ConfigTyped DEF ScheduleInv, ScheduleTyped
  <1>2. StatesAre(c, states) /\ QueueIs(c, states, queue)
    BY DEF ScheduleInv, QueueInv
  <1>3. FaultlessIsClean
    <2> SUFFICES ASSUME c.faults = {} PROVE firstFailures = Nothing /\ \A rt \in states : OrderlyCommits(c, rt)
      BY DEF FaultlessIsClean
    <2>1. firstFailures = Nothing
      BY DEF ScheduleInv, ScheduleTyped, Nothing
    <2>2. \A rt \in states : OrderlyCommits(c, rt)
      BY <1>2, CleanIsOrderly DEF StatesAre
    <2> QED BY <2>1, <2>2
  <1>4. \A k \in noted : Failing(c, k, firstFailures[k])
    BY DEF ScheduleInv, FailureInv
  <1>5. ReportsAreShortest
    <2>1. \A k \in DOMAIN reports : k \in noted /\ reports[k] = firstFailures[k]
      BY DEF ScheduleInv, FailureInv
    <2> HIDE DEF noted
    <2> QED BY <1>4, <2>1 DEF ReportsAreShortest, Failing
  <1>6. ASSUME at = "reported", ~transitionLimitReached
        PROVE  /\ states = Within(c, n)
               /\ DOMAIN reports = IF n = 0 THEN {} ELSE Shows(c, Within(c, n - 1))
               /\ depthBoundReached <=> n > 0 /\ Within(c, n) # Within(c, n - 1)
    <2>1. queue = <<>> /\ DOMAIN queue = {}
      BY <1>6 DEF ScheduleInv, QueueInv
    <2>2. SeenFrom(c, states, noted, Extended(c, states, queue, at, base)) /\ Fresh \in states
      BY <1>2, <1>6 DEF ScheduleInv, SeenInv, StatesAre
    <2>3. DepthIs(c, states, depthBoundReached) /\ DOMAIN reports = noted
      BY <1>6 DEF ScheduleInv, SeenInv, FailureInv
    <2>4. at # "expand"
      BY <1>6
    <2> HIDE DEF c, n, noted
    <2>5. Within(c, n) \subseteq states /\ (n > 0 => Shows(c, Within(c, n - 1)) \subseteq noted)
      <3>1. (at = "expand" => Leads(c, states, base)) /\ (at = "expand" => n <= Len(base)) /\ n <= c.maxDepth
            /\ \A k \in DOMAIN queue : n <= Len(queue[k])
        BY <1>1, <2>1, <2>4
      <3> QED BY <1>1, <1>2, <2>2, <3>1, NearSeen
    <2>6. states = Within(c, n)
      BY <1>1, <1>2, <2>5 DEF StatesAre
    <2>7. ASSUME NEW k \in noted PROVE n > 0 /\ k \in Shows(c, Within(c, n - 1))
      <3> DEFINE t == firstFailures[k]
                 l == Len(t)
                 i == l - 1
                 j == n - 1
      <3>1. t \in Seq(ActionsOf) /\ Replay(c, t).ok /\ k \in Replay(c, t).codes /\ 1 <= l /\ l <= n
        BY <1>1, <1>4, <2>7 DEF Failing
      <3>2. l \in Nat /\ i \in Nat /\ j \in Nat /\ i <= j /\ n > 0 /\ l # 0
        BY <1>1, <3>1
      <3>3. Placed(c, Replay(c, t), l)
        BY <3>1, ReplayShows
      <3> HIDE DEF t, l
      <3>4. ShownIn(c, l) = Shows(c, Within(c, i))
        BY <3>2 DEF ShownIn
      <3> HIDE DEF i, j
      <3>5. Shows(c, Within(c, i)) \subseteq Shows(c, Within(c, j))
        BY <3>2, FurtherShows
      <3>6. k \in Shows(c, Within(c, j))
        BY <3>1, <3>3, <3>4, <3>5 DEF Placed
      <3> QED BY <3>2, <3>6 DEF j
    <2>8. DOMAIN reports = IF n = 0 THEN {} ELSE Shows(c, Within(c, n - 1))
      <3>1. CASE n = 0
        BY <1>1, <2>3, <2>7, <3>1
      <3>2. CASE n # 0
        <4>1. n > 0
          BY <1>1, <3>2
        <4> DEFINE S == Shows(c, Within(c, n - 1))
        <4>2. S \subseteq noted /\ noted \subseteq S
          BY <2>5, <2>7, <4>1
        <4> HIDE DEF S
        <4>3. DOMAIN reports = S
          BY <2>3, <4>2
        <4> QED BY <3>2, <4>3 DEF S
      <3> QED BY <3>1, <3>2
    <2>9. depthBoundReached <=> n > 0 /\ Within(c, n) # Within(c, n - 1)
      <3> DEFINE l == n - 1
      <3>1. n > 0 => l \in Nat /\ l <= n
        BY <1>1
      <3>2. depthBoundReached <=> n > 0 /\ \E x \in states : x \notin Within(c, l)
        BY <1>1, <2>3 DEF DepthIs
      <3> HIDE DEF l
      <3>3. l \in Nat /\ l <= n => Within(c, l) \subseteq Within(c, n)
        BY <1>1, WithinGrows
      <3>4. depthBoundReached <=> n > 0 /\ Within(c, n) # Within(c, l)
        BY <2>6, <3>1, <3>2, <3>3
      <3> QED BY <3>4 DEF l
    <2> QED BY <2>6, <2>8, <2>9
  <1>7. ExplorationIsComplete
    BY <1>6 DEF ExplorationIsComplete
  <1> QED BY <1>3, <1>5, <1>7 DEF SchedulesExact

\* What an exploration of schedules reports is exact, for any number of queries,
\* generations, retries and steps, and any faults injected: with none, nothing is reported
\* and every state seen committed in order; with transitions left, the states seen are those
\* within maxDepth steps, the codes reported those some schedule of that length shows, and
\* the depth bound is told exactly when it cut something off; a reported trace shows its code
\* and, at the end, no shorter one does (network-timer-schedule.mjs).
THEOREM SchedulesAlwaysExact == ScheduleSpec => []SchedulesExact
  BY ScheduleInvInit, ScheduleInvStep, ScheduleInvImplies, PTL DEF ScheduleSpec

\* What an exploration reports is exact: the same of the schedules of a virtual application
\* (network-timer-schedule.mjs) and of the interleavings of several contexts
\* (context-scheduler.mjs).
THEOREM ReportsAlwaysExact == ComponentsSpec => []ReportsAreExact
  <1> DEFINE Inv == ScheduleInv /\ ContextInv
  <1>1. ComponentsInit => Inv
    <2> SUFFICES ASSUME ComponentsInit PROVE Inv
      OBVIOUS
    <2>1. ScheduleInit /\ ContextInit
      BY DEF ComponentsInit
    <2> QED BY <2>1, ScheduleInvInit, ContextInvInit
  <1>2. Inv /\ [ComponentsNext]_<<findingVars, scheduleVars, setupVars, replayVars, about>> => Inv'
    <2> SUFFICES ASSUME Inv, [ComponentsNext]_<<findingVars, scheduleVars, setupVars, replayVars, about>>
                 PROVE  Inv'
      OBVIOUS
    <2>1. [ScheduleNext]_scheduleVars
      BY DEF ComponentsNext
    <2>2. [ContextNext]_contextVars
      BY DEF ComponentsNext, replayVars
    <2> QED BY <2>1, <2>2, ScheduleInvStep, ContextInvStep
  <1>3. Inv => ReportsAreExact
    BY ScheduleInvImplies, ContextInvImplies DEF ReportsAreExact
  <1> QED BY <1>1, <1>2, <1>3, PTL DEF ComponentsSpec
===============================================================================
