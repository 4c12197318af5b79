---------------------------- MODULE SessionsProofs ----------------------------
(***************************************************************************)
(* What holds of the parts that talk to a running application.             *)
(* The driver protocol server, for every number of requests: as long as no *)
(* request was answered ahead of its dispatch, the driver has one session  *)
(* at most, and a session that is disposed leaves nothing.  A browser      *)
(* session, for every page and every number of calls: what settled stays,  *)
(* and errors are told where they belong.  A managed server command, for   *)
(* every number of restarts and whatever its processes do: the servers     *)
(* that leave only when told leave nothing behind, the one found ready is  *)
(* the one just launched, and the generation reported moves with it.       *)
(***************************************************************************)
EXTENDS DriverHost, BrowserSession, CommandServer, SequenceTheorems, TLAPS

Methods == {"none", "reset", "execute", "dispose", "shutdown"}
Awaits == {"none", "close", "launch", "context", "page", "work", "quit", "leave"}
Ids == 0 .. MaxRequests

HostTypeOK ==
    /\ server \in [negotiated : BOOLEAN, disposed : BOOLEAN, stopped : BOOLEAN]
    /\ serving \in Ids /\ sent \in Ids /\ overran \in BOOLEAN
    /\ tasks \in [1 .. MaxRequests -> [method : Methods, at : Awaits, on : Ids]]
    /\ driver \in [browser : Ids, context : Ids, page : Ids]
    /\ browsers \subseteq 1 .. MaxRequests
    /\ contexts \subseteq [id : 1 .. MaxRequests, in : Ids]

-----------------------------------------------------------------------------
\* Only the request that is awaited has a dispatch.
OneTask == \A n \in 1 .. MaxRequests : tasks[n] # NoTask => n = serving

\* What lives is what the driver holds.
Held == browsers \subseteq {driver.browser} /\ \A c \in contexts : c.id = driver.context

\* Disposing is over when the session counts as disposed.
Released == server.disposed => browsers = {} /\ contexts = {} /\ \A n \in 1 .. MaxRequests : tasks[n] = NoTask

\* What a dispatch waits on is what the driver holds, and behind "close" no context is left.
Awaited ==
    \A n \in 1 .. MaxRequests :
        /\ tasks[n].at = "close" => tasks[n].on = driver.context
        /\ tasks[n].at \in {"context", "quit"} => tasks[n].on = driver.browser
        /\ tasks[n].at \in {"launch", "leave"} => driver.browser = 0
        /\ tasks[n].at \in {"launch", "context", "quit", "leave"} => contexts = {}

Orderly == OneTask /\ Held /\ Released /\ Awaited

HostInv == HostTypeOK /\ (~overran => Orderly)

-----------------------------------------------------------------------------
\* A session begins with nothing.
LEMMA HostInitially == HostInit => HostInv
  <1> SUFFICES ASSUME HostInit PROVE HostInv
    OBVIOUS
  <1>1. \A n \in 1 .. MaxRequests : tasks[n] = NoTask
    BY DEF HostInit
  <1>2. HostTypeOK
    <2>1. NoTask \in [method : Methods, at : Awaits, on : Ids]
      BY HostAssumption DEF NoTask, Methods, Awaits, Ids
    <2>2. 0 \in Ids
      BY HostAssumption DEF Ids
    <2> QED BY <2>1, <2>2 DEF HostInit, HostTypeOK, NoSession
  <1>3. OneTask /\ Held /\ Released
    BY <1>1 DEF HostInit, OneTask, Held, Released
  <1>4. Awaited
    BY <1>1 DEF Awaited, NoTask
  <1> QED BY <1>2, <1>3, <1>4 DEF HostInv, Orderly

\* The first await of a method is one, on something the driver holds.
LEMMA FirstAwaitType ==
    ASSUME HostTypeOK, NEW m \in {"reset", "execute", "dispose", "shutdown"}
    PROVE  /\ FirstAwait(m) \in Awaits /\ WaitsOn(FirstAwait(m)) \in Ids
           /\ AfterClose(m) \in Awaits /\ WaitsOn(AfterClose(m)) \in Ids
  BY HostAssumption DEF HostTypeOK, FirstAwait, AfterClose, WaitsOn, Awaits, Ids

\* Where no context is left, what comes after closing one waits as it should.
LEMMA AfterCloseAwaits ==
    ASSUME HostTypeOK, NEW m \in {"reset", "dispose", "shutdown"}
    PROVE  LET at == AfterClose(m)
           IN /\ at \in {"context", "quit"} => WaitsOn(at) = driver.browser
              /\ at \in {"launch", "leave"} => driver.browser = 0
              /\ at \in {"launch", "context", "quit", "leave"}
  BY DEF HostTypeOK, AfterClose, WaitsOn, Ids

-----------------------------------------------------------------------------
Tasks == [method : Methods, at : Awaits, on : Ids]

\* A dispatch that goes on leaves the others alone.
LEMMA GoesType ==
    ASSUME tasks \in [1 .. MaxRequests -> Tasks], NEW n \in 1 .. MaxRequests,
           NEW at \in Awaits, NEW on \in Ids, Goes(n, at, on)
    PROVE  /\ tasks' \in [1 .. MaxRequests -> Tasks]
           /\ tasks'[n].at = at /\ tasks'[n].on = on /\ tasks'[n].method = tasks[n].method
           /\ \A m \in 1 .. MaxRequests \ {n} : tasks'[m] = tasks[m]
  <1> DEFINE u == [method |-> tasks[n].method, at |-> at, on |-> on]
  <1>1. u \in Tasks /\ u.at = at /\ u.on = on /\ u.method = tasks[n].method
    BY DEF Tasks
  <1>2. tasks' = [tasks EXCEPT ![n] = u]
    BY DEF Goes
  <1> HIDE DEF u
  <1> QED BY <1>1, <1>2

\* A dispatch that ends leaves no task, and nothing is awaited any more if it was.
LEMMA EndsType ==
    ASSUME tasks \in [1 .. MaxRequests -> Tasks], serving \in Ids,
           NEW n \in 1 .. MaxRequests, NEW ok \in BOOLEAN, Ends(n, ok)
    PROVE  /\ tasks' \in [1 .. MaxRequests -> Tasks] /\ serving' \in Ids
           /\ tasks'[n] = NoTask
           /\ \A m \in 1 .. MaxRequests \ {n} : tasks'[m] = tasks[m]
           /\ serving # n => serving' = serving
  <1>1. NoTask \in Tasks
    BY HostAssumption DEF Tasks, NoTask, Methods, Awaits, Ids
  <1>2. tasks' = [tasks EXCEPT ![n] = NoTask]
    BY DEF Ends
  <1>3. serving' = IF serving = n THEN 0 ELSE serving
    BY DEF Ends, Answered
  <1> QED BY <1>1, <1>2, <1>3, HostAssumption DEF Ids

-----------------------------------------------------------------------------
Asked == {"hello", "reset", "execute", "dispose", "shutdown"}

\* A request changes the tasks only where it is dispatched.
LEMMA RequestType ==
    ASSUME HostTypeOK, NEW m \in Asked, NEW fresh \in BOOLEAN, Request(m, fresh)
    PROVE  HostTypeOK'
  <1>1. sent' \in Ids /\ sent' \in 1 .. MaxRequests
    BY HostAssumption DEF Request, HostTypeOK, Ids
  <1>2. server' \in [negotiated : BOOLEAN, disposed : BOOLEAN, stopped : BOOLEAN]
    BY DEF Request, HostTypeOK
  <1>3. serving' \in Ids /\ tasks' \in [1 .. MaxRequests -> Tasks]
    <2>1. CASE tasks' = tasks /\ serving' = serving
      BY <2>1 DEF HostTypeOK, Tasks
    <2>2. CASE /\ tasks' = [tasks EXCEPT ![sent'] =
                                [method |-> m, at |-> FirstAwait(m), on |-> WaitsOn(FirstAwait(m))]]
               /\ serving' = sent' /\ m \in {"reset", "execute", "dispose", "shutdown"}
      <3>1. [method |-> m, at |-> FirstAwait(m), on |-> WaitsOn(FirstAwait(m))] \in Tasks
        BY <2>2, FirstAwaitType DEF Tasks, Methods
      <3> QED BY <1>1, <2>2, <3>1 DEF HostTypeOK, Tasks
    <2> QED BY <2>1, <2>2 DEF Request, Asked
  <1> QED BY <1>1, <1>2, <1>3 DEF Request, HostTypeOK, Tasks

\* Every step keeps the types.
LEMMA HostTypeStep ==
    ASSUME HostTypeOK, [HostNext]_hostVars
    PROVE  HostTypeOK'
  <1> USE DEF HostTypeOK
  <1>1. ASSUME NEW m \in Asked, NEW fresh \in BOOLEAN, Request(m, fresh)
        PROVE  HostTypeOK'
    BY <1>1, RequestType
  <1>2. ASSUME TimesOut
        PROVE  HostTypeOK'
    BY <1>2, HostAssumption DEF TimesOut, Answered, Ids
  <1>3. ASSUME NEW n \in 1 .. MaxRequests, Closed(n)
        PROVE  HostTypeOK'
    <2> DEFINE at == AfterClose(tasks[n].method)
    <2>1. at \in Awaits /\ WaitsOn(at) \in Ids
      BY HostAssumption DEF AfterClose, WaitsOn, Awaits, Ids
    <2>2. tasks' \in [1 .. MaxRequests -> Tasks]
      BY <1>3, <2>1, GoesType DEF Closed, Tasks
    <2> QED BY <1>3, <2>2 DEF Closed, Tasks
  <1>4. ASSUME NEW n \in 1 .. MaxRequests, Launched(n)
        PROVE  HostTypeOK'
    <2>1. n \in Ids /\ "context" \in Awaits
      BY HostAssumption DEF Ids, Awaits
    <2>2. tasks' \in [1 .. MaxRequests -> Tasks]
      BY <1>4, <2>1, GoesType DEF Launched, Tasks
    <2> QED BY <1>4, <2>1, <2>2 DEF Launched, Tasks
  <1>5. ASSUME NEW n \in 1 .. MaxRequests, ContextMade(n)
        PROVE  HostTypeOK'
    <2>1. n \in Ids /\ "page" \in Awaits /\ tasks[n].on \in Ids
      BY HostAssumption DEF Ids, Awaits
    <2>2. tasks' \in [1 .. MaxRequests -> Tasks]
      BY <1>5, <2>1, GoesType DEF ContextMade, Tasks
    <2> QED BY <1>5, <2>1, <2>2 DEF ContextMade, Tasks
  <1>6. ASSUME NEW n \in 1 .. MaxRequests, PageReady(n)
        PROVE  HostTypeOK'
    <2>1. n \in Ids
      BY HostAssumption DEF Ids
    <2>2. tasks' \in [1 .. MaxRequests -> Tasks] /\ serving' \in Ids
      BY <1>6, EndsType DEF PageReady, Tasks
    <2> QED BY <1>6, <2>1, <2>2 DEF PageReady, Tasks
  <1>7. ASSUME NEW n \in 1 .. MaxRequests, Disposed(n)
        PROVE  HostTypeOK'
    <2>1. NoSession \in [browser : Ids, context : Ids, page : Ids]
      BY HostAssumption DEF Ids, NoSession
    <2>2. tasks' \in [1 .. MaxRequests -> Tasks] /\ serving' \in Ids
      BY <1>7, EndsType DEF Disposed, Tasks
    <2> QED BY <1>7, <2>1, <2>2 DEF Disposed, Tasks
  <1>8. ASSUME NEW n \in 1 .. MaxRequests, Rejected(n)
        PROVE  HostTypeOK'
    <2>1. n \in Ids
      BY HostAssumption DEF Ids
    <2>2. tasks' \in [1 .. MaxRequests -> Tasks] /\ serving' \in Ids
      BY <1>8, EndsType DEF Rejected, Tasks
    <2> QED BY <1>8, <2>1, <2>2 DEF Rejected, Tasks
  <1>9. CASE UNCHANGED hostVars
    BY <1>9 DEF hostVars
  <1> HIDE DEF HostTypeOK
  <1> QED BY <1>1, <1>2, <1>3, <1>4, <1>5, <1>6, <1>7, <1>8, <1>9 DEF HostNext, Asked

-----------------------------------------------------------------------------
\* Only a task is at an await of its own.
LEMMA AtIsTask ==
    ASSUME NEW t, t.at # "none" PROVE t # NoTask
  BY DEF NoTask

\* While requests end before their answers, a step keeps the driver to its session.
LEMMA OrderlyStep ==
    ASSUME HostTypeOK, HostTypeOK', ~overran, Orderly, HostNext, ~overran'
    PROVE  Orderly'
  <1> USE DEF OneTask, Held, Released, Awaited
  <1>1. ASSUME NEW m \in Asked, NEW fresh \in BOOLEAN, Request(m, fresh)
        PROVE  Orderly'
    <2>1. UNCHANGED <<driver, browsers, contexts, overran>> /\ serving = 0
      BY <1>1 DEF Request
    <2>2. \A n \in 1 .. MaxRequests : tasks[n] = NoTask
      BY <2>1, HostAssumption DEF Orderly, HostTypeOK
    <2>3. CASE tasks' = tasks /\ serving' = serving /\ server'.disposed = server.disposed
      BY <2>1, <2>3 DEF Orderly
    <2>4. CASE /\ m \in {"reset", "execute", "dispose", "shutdown"} /\ ~Refused(m, fresh)
               /\ ~(m = "shutdown" /\ server.disposed)
               /\ tasks' = [tasks EXCEPT ![sent'] =
                                [method |-> m, at |-> FirstAwait(m), on |-> WaitsOn(FirstAwait(m))]]
               /\ serving' = sent'
               /\ server' = IF m = "reset" THEN [server EXCEPT !.disposed = FALSE] ELSE server
      <3> DEFINE t == [method |-> m, at |-> FirstAwait(m), on |-> WaitsOn(FirstAwait(m))]
      <3>1. sent' \in 1 .. MaxRequests
        BY <1>1, HostAssumption DEF Request, HostTypeOK, Ids
      <3>2. tasks'[sent'] = t /\ \A n \in 1 .. MaxRequests \ {sent'} : tasks'[n] = NoTask
        BY <2>2, <2>4, <3>1 DEF HostTypeOK
      <3>3. ~server'.disposed
        BY <2>4 DEF Refused, HostTypeOK
      <3>4. contexts = {} \/ driver.context # 0
        BY DEF Orderly, HostTypeOK
      <3>5. /\ t.at = "close" => t.on = driver.context
            /\ t.at \in {"context", "quit"} => t.on = driver.browser
            /\ t.at \in {"launch", "leave"} => driver.browser = 0
            /\ t.at \in {"launch", "context", "quit", "leave"} => contexts = {}
        BY <2>4, <3>4 DEF FirstAwait, AfterClose, WaitsOn
      <3>6. NoTask.at = "none"
        BY DEF NoTask
      <3> HIDE DEF t
      <3>7. OneTask'
        BY <2>4, <3>2
      <3>8. Held' /\ Released'
        BY <2>1, <3>3 DEF Orderly
      <3>9. Awaited'
        BY <2>1, <3>2, <3>5, <3>6
      <3> QED BY <3>7, <3>8, <3>9 DEF Orderly
    <2> QED BY <1>1, <2>3, <2>4 DEF Request, Asked, HostTypeOK
  <1>2. ASSUME TimesOut
        PROVE  Orderly'
    BY <1>2 DEF TimesOut
  <1>3. ASSUME NEW n \in 1 .. MaxRequests, Closed(n)
        PROVE  Orderly'
    <2> DEFINE at == AfterClose(tasks[n].method)
    <2>1. tasks[n].at = "close" /\ UNCHANGED <<server, serving, driver, browsers>>
          /\ contexts' = {c \in contexts : c.id # tasks[n].on} /\ Goes(n, at, WaitsOn(at))
      BY <1>3 DEF Closed
    <2>2. tasks[n] # NoTask /\ n = serving /\ tasks[n].on = driver.context
      BY <2>1, AtIsTask DEF Orderly
    <2>3. contexts' = {}
      BY <2>1, <2>2 DEF Orderly
    <2>4. at \in Awaits /\ WaitsOn(at) \in Ids
      BY HostAssumption DEF HostTypeOK, AfterClose, WaitsOn, Awaits, Ids
    <2>5. /\ tasks'[n].at = at /\ tasks'[n].on = WaitsOn(at)
          /\ \A m \in 1 .. MaxRequests \ {n} : tasks'[m] = tasks[m]
      BY <2>1, <2>4, GoesType DEF HostTypeOK, Tasks
    <2>6. at # "close" /\ (at \in {"context", "quit"} => WaitsOn(at) = driver.browser)
          /\ (at \in {"launch", "leave"} => driver.browser = 0)
      BY DEF AfterClose, WaitsOn
    <2>7. ~server.disposed
      BY <2>2 DEF Orderly
    <2> HIDE DEF at
    <2> QED BY <2>1, <2>2, <2>3, <2>5, <2>6, <2>7 DEF Orderly
  <1>4. ASSUME NEW n \in 1 .. MaxRequests, Launched(n)
        PROVE  Orderly'
    <2>1. tasks[n].at = "launch" /\ UNCHANGED <<server, serving, contexts>>
          /\ browsers' = browsers \cup {n} /\ driver' = [driver EXCEPT !.browser = n]
          /\ Goes(n, "context", n)
      BY <1>4 DEF Launched, TaskAt
    <2>2. tasks[n] # NoTask /\ n = serving /\ driver.browser = 0 /\ contexts = {}
      BY <2>1, AtIsTask DEF Orderly
    <2>3. browsers' = {n} /\ driver'.browser = n
      BY <2>1, <2>2 DEF Orderly, HostTypeOK
    <2>4. n \in Ids /\ "context" \in Awaits
      BY HostAssumption DEF Ids, Awaits
    <2>5. /\ tasks'[n].at = "context" /\ tasks'[n].on = n
          /\ \A m \in 1 .. MaxRequests \ {n} : tasks'[m] = tasks[m]
      BY <2>1, <2>4, GoesType DEF HostTypeOK, Tasks
    <2>6. ~server.disposed
      BY <2>2 DEF Orderly
    <2>7. \A m \in 1 .. MaxRequests \ {n} : tasks'[m] = NoTask /\ NoTask.at = "none"
      BY <2>2, <2>5 DEF Orderly, NoTask
    <2> QED BY <2>1, <2>2, <2>3, <2>5, <2>6, <2>7 DEF Orderly
  <1>5. ASSUME NEW n \in 1 .. MaxRequests, ContextMade(n)
        PROVE  Orderly'
    <2>1. tasks[n].at = "context" /\ UNCHANGED <<server, serving, browsers>>
          /\ contexts' = contexts \cup {[id |-> n, in |-> tasks[n].on]}
          /\ driver' = [driver EXCEPT !.context = n] /\ Goes(n, "page", n)
      BY <1>5 DEF ContextMade, TaskAt
    <2>2. tasks[n] # NoTask /\ n = serving /\ contexts = {}
      BY <2>1, AtIsTask DEF Orderly
    <2>3. driver'.context = n /\ driver'.browser = driver.browser
          /\ \A c \in contexts' : c.id = n
      BY <2>1, <2>2 DEF HostTypeOK
    <2>4. n \in Ids /\ "page" \in Awaits
      BY HostAssumption DEF Ids, Awaits
    <2>5. /\ tasks'[n].at = "page"
          /\ \A m \in 1 .. MaxRequests \ {n} : tasks'[m] = tasks[m]
      BY <2>1, <2>4, GoesType DEF HostTypeOK, Tasks
    <2>6. ~server.disposed
      BY <2>2 DEF Orderly
    <2>7. \A m \in 1 .. MaxRequests \ {n} : tasks'[m] = NoTask /\ NoTask.at = "none"
      BY <2>2, <2>5 DEF Orderly, NoTask
    <2> QED BY <2>1, <2>2, <2>3, <2>5, <2>6, <2>7 DEF Orderly
  <1>6. ASSUME NEW n \in 1 .. MaxRequests, tasks[n] # NoTask, NEW ok \in BOOLEAN, Ends(n, ok)
        PROVE  /\ \A m \in 1 .. MaxRequests : tasks'[m] = NoTask
               /\ OneTask' /\ Awaited' /\ ~server.disposed
    <2>1. n = serving
      BY <1>6 DEF Orderly
    <2>2. tasks'[n] = NoTask /\ \A m \in 1 .. MaxRequests \ {n} : tasks'[m] = tasks[m]
      BY <1>6, EndsType DEF HostTypeOK, Tasks
    <2>3. \A m \in 1 .. MaxRequests : tasks'[m] = NoTask
      BY <2>1, <2>2 DEF Orderly
    <2>4. ~server.disposed
      BY <1>6 DEF Orderly
    <2>5. NoTask.at = "none"
      BY DEF NoTask
    <2> QED BY <2>3, <2>4, <2>5
  <1>7. ASSUME NEW n \in 1 .. MaxRequests, PageReady(n)
        PROVE  Orderly'
    <2>1. tasks[n].at # "none" /\ Ends(n, TRUE) /\ UNCHANGED <<server, browsers, contexts>>
          /\ driver'.browser = driver.browser /\ driver'.context = driver.context
      BY <1>7 DEF PageReady, HostTypeOK
    <2> QED BY <1>6, <2>1, AtIsTask DEF Orderly
  <1>8. ASSUME NEW n \in 1 .. MaxRequests, Disposed(n)
        PROVE  Orderly'
    <2>1. tasks[n].at \in {"quit", "leave"} /\ Ends(n, TRUE) /\ driver' = NoSession
          /\ browsers' = browsers \ {tasks[n].on}
          /\ contexts' = {c \in contexts : c.in # tasks[n].on}
      BY <1>8 DEF Disposed, Quitting
    <2>2. contexts = {} /\ (tasks[n].on = driver.browser \/ driver.browser = 0)
      BY <2>1 DEF Orderly
    <2>3. contexts' = {} /\ browsers' = {}
      BY <2>1, <2>2 DEF Orderly, HostTypeOK
    <2> QED BY <1>6, <2>1, <2>3, AtIsTask DEF Orderly
  <1>9. ASSUME NEW n \in 1 .. MaxRequests, Rejected(n)
        PROVE  Orderly'
    <2>1. tasks[n] # NoTask /\ Ends(n, FALSE) /\ UNCHANGED <<server, browsers, contexts>>
          /\ driver'.browser = driver.browser /\ driver'.context = driver.context
      BY <1>9 DEF Rejected, HostTypeOK
    <2> QED BY <1>6, <2>1 DEF Orderly
  <1> HIDE DEF OneTask, Held, Released, Awaited
  <1> QED BY <1>1, <1>2, <1>3, <1>4, <1>5, <1>7, <1>8, <1>9 DEF HostNext, Asked

\* Every step keeps the invariant; that a request was answered early is never forgotten.
LEMMA HostStep == HostInv /\ [HostNext]_hostVars => HostInv'
  <1> SUFFICES ASSUME HostInv, [HostNext]_hostVars PROVE HostInv'
    OBVIOUS
  <1>1. HostTypeOK /\ HostTypeOK'
    BY HostTypeStep DEF HostInv
  <1>2. CASE UNCHANGED hostVars
    BY <1>1, <1>2 DEF HostInv, Orderly, OneTask, Held, Released, Awaited, hostVars
  <1>3. CASE HostNext /\ overran'
    BY <1>1, <1>3 DEF HostInv
  <1>4. CASE HostNext /\ ~overran'
    <2>1. ~overran
      BY <1>4 DEF HostNext, Request, TimesOut, Closed, Launched, ContextMade, PageReady, Disposed, Rejected
    <2> QED BY <1>1, <1>4, <2>1, OrderlyStep DEF HostInv
  <1> QED BY <1>2, <1>3, <1>4

\* For every number of requests: while none was answered ahead of its dispatch, what lives
\* is what the driver holds, whatever rejected on the way, and a disposed session leaves
\* neither browser nor context.
THEOREM SessionHolds == HostSpec => []OneSession
  <1>1. HostInv => OneSession
    BY DEF HostInv, Orderly, Held, Released, OneSession
  <1> QED BY <1>1, HostInitially, HostStep, PTL DEF HostSpec

-----------------------------------------------------------------------------
Kinds == {"none", "reset", "execute", "reload", "goBack", "restart"}
CallPlaces == {"none", "hook", "load", "before", "act", "settle", "sample", "snapshot"}
Calls == [kind : Kinds, at : CallPlaces, tries : Nat, samples : Nat, stable : Nat, last : Nat,
          pending : Nat, doc : Nat, traced : Nat]
Pages == [context : Nat, doc : Nat, shows : Nat, script : Seq(Steps), pending : Nat, idle : Nat]

SessionTypeOK ==
    /\ page \in Pages /\ console \in Seq(Nat) /\ traced \in Seq(Nat)
    /\ call \in Calls /\ calls \in Nat

\* What is left of the script answers what is pending, and asks before it is answered.
PageAnswers == \E after \in [0 .. Len(page.script) -> Nat] : Counts(page.pending, page.script, after)

\* A page that is as it was at the last of some stable samples, and has nothing pending, has
\* let that many fingerprints pass; past its slack it has nothing left to do.
Rested ==
    page.pending = 0 /\ call.last = page.shows =>
        /\ call.stable <= page.idle \/ Slack <= page.idle
        /\ call.stable > Slack => page.script = <<>>

AtRest == page.script = <<>> /\ page.pending = 0

\* What a settle has seen so far, and what it has shown at its end.
Settles ==
    /\ call.at \in {"settle", "sample"} => call.last <= page.shows /\ Rested
    /\ call.at = "sample" /\ call.pending = 0 /\ call.last = page.shows /\ call.stable > Slack => AtRest
    /\ call.at = "snapshot" /\ call.kind # "restart" /\ lastSettle = "settled" /\ Slack + 2 <= StableSamples =>
         AtRest

\* What is recorded is of this context, and since the action of this execute.
Recorded ==
    /\ \A i \in DOMAIN console : console[i] = page.context
    /\ call.kind = "execute" /\ call.at # "before" =>
         \A i \in DOMAIN traced : i > call.traced => traced[i] = calls

\* An answer is of the call before; it is forgotten when a call begins.
Answers ==
    /\ call.at = "none" => call = NoCall
    /\ call # NoCall => answer = NoAnswer

SessionInv ==
    /\ SessionTypeOK /\ PageAnswers /\ Settles /\ Recorded /\ Answers
    /\ SettledIsFinal /\ ErrorsAreOwn

-----------------------------------------------------------------------------
\* The first step of a script that counts leaves one that does.
LEMMA FirstStep ==
    ASSUME NEW script \in Seq(Steps), script # <<>>, NEW pending \in Nat,
           NEW after \in [0 .. Len(script) -> Nat], Counts(pending, script, after)
    PROVE  /\ Head(script) \in Steps /\ Tail(script) \in Seq(Steps)
           /\ Head(script) \in {"answer", "arrive"} => pending > 0
           /\ Pended(Head(script), pending) \in Nat
           /\ \E rest \in [0 .. Len(Tail(script)) -> Nat] : Counts(Pended(Head(script), pending), Tail(script), rest)
  <1>1. /\ Head(script) = script[1] /\ script[1] \in Steps /\ Tail(script) \in Seq(Steps)
        /\ Len(script) \in Nat /\ Len(script) >= 1 /\ Len(Tail(script)) = Len(script) - 1
        /\ \A i \in 1 .. Len(script) - 1 : Tail(script)[i] = script[i + 1]
        /\ DOMAIN script = 1 .. Len(script) /\ DOMAIN Tail(script) = 1 .. Len(script) - 1
    OBVIOUS
  <1>2. 1 \in DOMAIN script
    BY <1>1
  <1>3. after[0] = pending /\ after[1] = Pended(script[1], pending)
    BY <1>2 DEF Counts
  <1>4. after[1] \in Nat
    BY <1>1
  <1>5. script[1] \in {"answer", "arrive"} => pending > 0
    BY <1>2, <1>3 DEF Counts
  <1> DEFINE rest == [i \in 0 .. Len(Tail(script)) |-> after[i + 1]]
  <1>6. rest \in [0 .. Len(Tail(script)) -> Nat]
    BY <1>1
  <1>7. Counts(Pended(script[1], pending), Tail(script), rest)
    <2>1. rest[0] = Pended(script[1], pending)
      BY <1>1, <1>3
    <2>2. ASSUME NEW i \in DOMAIN Tail(script)
          PROVE  /\ rest[i] = Pended(Tail(script)[i], rest[i - 1])
                 /\ Tail(script)[i] \in {"answer", "arrive"} => rest[i - 1] > 0
      <3>1. i \in 1 .. Len(script) - 1 /\ i + 1 \in DOMAIN script
        BY <1>1
      <3>2. rest[i] = after[i + 1] /\ rest[i - 1] = after[i] /\ Tail(script)[i] = script[i + 1]
        BY <1>1, <3>1
      <3>3. /\ after[i + 1] = Pended(script[i + 1], after[(i + 1) - 1])
            /\ script[i + 1] \in {"answer", "arrive"} => after[(i + 1) - 1] > 0
        BY <3>1 DEF Counts
      <3>4. (i + 1) - 1 = i
        BY <3>1
      <3> QED BY <3>2, <3>3, <3>4
    <2> QED BY <2>1, <2>2 DEF Counts
  <1> QED BY <1>1, <1>3, <1>4, <1>5, <1>6, <1>7

\* A script of its own begins with nothing pending.
LEMMA ScriptCounts ==
    ASSUME NEW s \in Scripts
    PROVE  s \in Seq(Steps) /\ \E after \in [0 .. Len(s) -> Nat] : Counts(0, s, after)
  <1>1. s \in Seq(Steps)
    BY SessionAssumption
  <1>2. PICK after \in [0 .. Len(s) -> 0 .. Len(s)] : Counts(0, s, after)
    BY SessionAssumption
  <1>3. after \in [0 .. Len(s) -> Nat]
    BY <1>1, <1>2
  <1> QED BY <1>1, <1>2, <1>3

\* A script that is appended finds more pending than it would alone, up to its first arrival.
LEMMA AppendedCounts ==
    ASSUME NEW old \in Seq(Steps), NEW pending \in Nat,
           NEW before \in [0 .. Len(old) -> Nat], Counts(pending, old, before), NEW s \in Scripts
    PROVE  /\ old \o s \in Seq(Steps)
           /\ \E after \in [0 .. Len(old \o s) -> Nat] : Counts(pending, old \o s, after)
  <1>1. PICK own \in [0 .. Len(s) -> Nat] : Counts(0, s, own)
    BY ScriptCounts
  <1>2. s \in Seq(Steps)
    BY ScriptCounts
  <1> DEFINE n == Len(old)
             m == Len(s)
             both == old \o s
             Arrived(k) == \E j \in 1 .. k : s[j] = "arrive"
             joined == [k \in 0 .. m |-> IF Arrived(k) THEN own[k] ELSE before[n] + own[k]]
             after == [i \in 0 .. n + m |-> IF i <= n THEN before[i] ELSE joined[i - n]]
  <1>3. /\ n \in Nat /\ m \in Nat /\ both \in Seq(Steps) /\ Len(both) = n + m
        /\ DOMAIN both = 1 .. n + m /\ DOMAIN s = 1 .. m /\ DOMAIN old = 1 .. n
        /\ \A i \in 1 .. n : both[i] = old[i]
        /\ \A k \in 1 .. m : both[n + k] = s[k]
    BY <1>2
  <1>4. before[n] \in Nat /\ before[0] = pending /\ own[0] = 0
    <2>1. before[0] = pending /\ own[0] = 0
      BY <1>1 DEF Counts
    <2>2. n \in 0 .. Len(old)
      BY <1>3
    <2> QED BY <2>1, <2>2
  <1>5. joined \in [0 .. m -> Nat] /\ joined[0] = before[n]
    <2>1. \A k \in 0 .. m : own[k] \in Nat
      BY <1>1
    <2>2. ~Arrived(0)
      OBVIOUS
    <2> HIDE DEF Arrived
    <2>3. joined[0] = before[n] + own[0]
      BY <1>3, <2>2
    <2> QED BY <1>3, <1>4, <2>1, <2>3
  <1>6. ASSUME NEW k \in 1 .. m
        PROVE  /\ joined[k] = Pended(s[k], joined[k - 1])
               /\ s[k] \in {"answer", "arrive"} => joined[k - 1] > 0
    <2>1. k - 1 \in 0 .. m /\ k \in 0 .. m
      BY <1>3
    <2>2. /\ own[k] = Pended(s[k], own[k - 1]) /\ own[k] \in Nat /\ own[k - 1] \in Nat
          /\ s[k] \in {"answer", "arrive"} => own[k - 1] > 0
      BY <1>1, <1>3, <2>1 DEF Counts
    <2>3. Arrived(k) <=> Arrived(k - 1) \/ s[k] = "arrive"
      BY <1>3, <2>1
    <2> HIDE DEF Arrived
    <2>4. joined[k] = IF Arrived(k) THEN own[k] ELSE before[n] + own[k]
      BY <2>1
    <2>5. joined[k - 1] = IF Arrived(k - 1) THEN own[k - 1] ELSE before[n] + own[k - 1]
      BY <2>1
    <2> HIDE DEF joined, n, m
    <2> QED BY <1>4, <2>2, <2>3, <2>4, <2>5 DEF Pended
  <1>7. after \in [0 .. Len(both) -> Nat]
    <2> HIDE DEF joined
    <2> QED BY <1>3, <1>5
  <1>8. Counts(pending, both, after)
    <2>1. after[0] = pending
      BY <1>3, <1>4
    <2>2. ASSUME NEW i \in 1 .. n
          PROVE  /\ after[i] = Pended(both[i], after[i - 1])
                 /\ both[i] \in {"answer", "arrive"} => after[i - 1] > 0
      <3>1. after[i] = before[i] /\ after[i - 1] = before[i - 1] /\ both[i] = old[i] /\ i \in DOMAIN old
        BY <1>3
      <3> HIDE DEF after, both
      <3> QED BY <3>1 DEF Counts
    <2>3. ASSUME NEW k \in 1 .. m
          PROVE  /\ after[n + k] = Pended(both[n + k], after[(n + k) - 1])
                 /\ both[n + k] \in {"answer", "arrive"} => after[(n + k) - 1] > 0
      <3> HIDE DEF joined
      <3>1. after[n + k] = joined[k] /\ both[n + k] = s[k]
        BY <1>3
      <3>2. after[(n + k) - 1] = joined[k - 1]
        <4>1. CASE k = 1
          <5>1. (n + k) - 1 = n /\ k - 1 = 0
            BY <1>3, <4>1
          <5>2. after[n] = before[n]
            BY <1>3
          <5> QED BY <1>5, <5>1, <5>2
        <4>2. CASE k # 1
          <5>1. (n + k) - 1 \in 0 .. n + m /\ ~((n + k) - 1 <= n) /\ ((n + k) - 1) - n = k - 1
            BY <1>3, <4>2
          <5> QED BY <5>1
        <4> QED BY <4>1, <4>2
      <3> HIDE DEF after, both
      <3> QED BY <1>6, <3>1, <3>2
    <2>4. ASSUME NEW i \in DOMAIN both
          PROVE  /\ after[i] = Pended(both[i], after[i - 1])
                 /\ both[i] \in {"answer", "arrive"} => after[i - 1] > 0
      <3>1. CASE i <= n
        <4>1. i \in 1 .. n
          BY <1>3, <3>1
        <4> HIDE DEF after, both, n
        <4> QED BY <2>2, <4>1
      <3>2. CASE ~(i <= n)
        <4>1. i - n \in 1 .. m /\ n + (i - n) = i
          BY <1>3, <3>2
        <4> HIDE DEF after, both, n, m
        <4> QED BY <2>3, <4>1
      <3> QED BY <3>1, <3>2
    <2> HIDE DEF after, both
    <2> QED BY <2>1, <2>4 DEF Counts
  <1> QED BY <1>3, <1>7, <1>8

-----------------------------------------------------------------------------
LEMMA SessionInitially == SessionInit => SessionInv
  <1> SUFFICES ASSUME SessionInit PROVE SessionInv
    OBVIOUS
  <1> USE DEF SessionInit
  <1>1. SessionTypeOK
    BY DEF SessionTypeOK, Pages, Calls, Kinds, CallPlaces, NoCall
  <1>2. PageAnswers
    <2>1. [i \in 0 .. 0 |-> 0] \in [0 .. Len(page.script) -> Nat]
      OBVIOUS
    <2>2. Counts(page.pending, page.script, [i \in 0 .. 0 |-> 0])
      BY DEF Counts
    <2> QED BY <2>1, <2>2 DEF PageAnswers
  <1>3. Settles /\ Recorded /\ Answers
    BY DEF Settles, Recorded, Answers, NoCall
  <1>4. SettledIsFinal /\ ErrorsAreOwn
    BY DEF SettledIsFinal, ErrorsAreOwn, NoAnswer
  <1> QED BY <1>1, <1>2, <1>3, <1>4 DEF SessionInv

\* Nothing is claimed of a call that has not been answered.
LEMMA Unanswered == ASSUME answer' = NoAnswer PROVE SettledIsFinal' /\ ErrorsAreOwn'
  BY DEF NoAnswer, SettledIsFinal, ErrorsAreOwn

\* While the page does not change, what is known of it does not.
LEMMA SamePage ==
    ASSUME PageAnswers, page' = page PROVE PageAnswers'
  BY DEF PageAnswers

\* A call that is not over has no answer yet.
LEMMA OpenCall ==
    ASSUME Answers, call.at # "none"
    PROVE  call # NoCall /\ answer = NoAnswer
  BY DEF Answers, NoCall

\* A call that throws leaves nothing to claim.
LEMMA ThrowKeeps ==
    ASSUME SessionInv, ThrowCall, UNCHANGED <<page, console, traced, calls>>
    PROVE  SessionInv'
  <1>1. SessionTypeOK'
    BY DEF SessionInv, SessionTypeOK, ThrowCall, Calls, Kinds, CallPlaces, NoCall
  <1>2. PageAnswers'
    BY SamePage DEF SessionInv
  <1>3. Settles' /\ Recorded' /\ Answers'
    BY DEF SessionInv, Settles, Recorded, Answers, ThrowCall, NoCall
  <1>4. SettledIsFinal' /\ ErrorsAreOwn'
    BY Unanswered DEF ThrowCall
  <1> QED BY <1>1, <1>2, <1>3, <1>4 DEF SessionInv

\* A page that goes on by itself.
LEMMA PageKeeps == ASSUME SessionInv, PageStep PROVE SessionInv'
  <1> USE DEF SessionInv
  <1> DEFINE step == Head(page.script)
  <1>1. PICK before \in [0 .. Len(page.script) -> Nat] : Counts(page.pending, page.script, before)
    BY DEF PageAnswers
  <1>2. page \in Pages /\ page.script # <<>> /\ page.pending \in Nat /\ page.script \in Seq(Steps)
    BY DEF SessionTypeOK, Pages, PageStep
  <1>3. /\ step \in Steps /\ Tail(page.script) \in Seq(Steps)
        /\ step \in {"answer", "arrive"} => page.pending > 0
        /\ Pended(step, page.pending) \in Nat
        /\ \E rest \in [0 .. Len(Tail(page.script)) -> Nat] :
             Counts(Pended(step, page.pending), Tail(page.script), rest)
    BY <1>1, <1>2, FirstStep
  <1> HIDE DEF step
  <1>4. /\ page' = [page EXCEPT !.script = Tail(@), !.idle = 0,
                               !.doc = @ + IF step = "arrive" THEN 1 ELSE 0,
                               !.shows = @ + IF Visible(step) THEN 1 ELSE 0,
                               !.pending = Pended(step, @)]
        /\ IF step = "throw" /\ ~opaque
           THEN console' = Append(console, page.context) /\ traced' \in {traced, Append(traced, calls)}
           ELSE UNCHANGED <<console, traced>>
        /\ UNCHANGED <<lastSettle, opaque, call, calls, answer>>
    BY DEF PageStep, Diagnostics, step
  <1>5. /\ page'.script = Tail(page.script) /\ page'.idle = 0 /\ page'.context = page.context
        /\ page'.shows = page.shows + IF Visible(step) THEN 1 ELSE 0
        /\ page'.pending = Pended(step, page.pending) /\ page' \in Pages
    <2> DEFINE d == page.doc + IF step = "arrive" THEN 1 ELSE 0
               s == page.shows + IF Visible(step) THEN 1 ELSE 0
               p == Pended(step, page.pending)
               t == Tail(page.script)
    <2>1. d \in Nat /\ s \in Nat
      BY <1>2 DEF Pages
    <2>2. p \in Nat /\ t \in Seq(Steps)
      BY <1>3
    <2>3. page' = [page EXCEPT !.script = t, !.idle = 0, !.doc = d, !.shows = s, !.pending = p]
      BY <1>4
    <2> HIDE DEF d, s, p, t
    <2>4. /\ page'.script = t /\ page'.idle = 0 /\ page'.context = page.context
          /\ page'.shows = s /\ page'.pending = p /\ page' \in Pages
      BY <1>2, <2>1, <2>2, <2>3 DEF Pages
    <2> QED BY <2>4 DEF d, s, p, t
  <1>6. SessionTypeOK' /\ console' \in {console, Append(console, page.context)} /\ traced' \in {traced, Append(traced, calls)}
    <2>1. console' \in {console, Append(console, page.context)} /\ traced' \in {traced, Append(traced, calls)}
      BY <1>4
    <2>2. page.context \in Nat /\ calls \in Nat
      BY <1>2 DEF SessionTypeOK, Pages
    <2>3. console \in Seq(Nat) /\ traced \in Seq(Nat)
      BY DEF SessionTypeOK
    <2>4. Append(console, page.context) \in Seq(Nat) /\ Append(traced, calls) \in Seq(Nat)
      BY <2>2, <2>3, AppendProperties
    <2> QED BY <1>4, <1>5, <2>1, <2>3, <2>4 DEF SessionTypeOK
  <1>7. PageAnswers'
    BY <1>3, <1>5 DEF PageAnswers
  <1>8. page'.pending = 0 => page'.shows # page.shows
    BY <1>2, <1>3, <1>5 DEF Pended, Visible, Steps, Pages
  <1>9. page'.shows >= page.shows /\ page.shows \in Nat
    BY <1>2, <1>5 DEF Pages
  <1>10. Settles'
    <2>1. call'.last = call.last /\ call.last \in Nat /\ call' = call
      BY <1>4 DEF SessionTypeOK, Calls
    <2>2. call.at \in {"settle", "sample"} => call.last <= page'.shows /\ Rested'
      BY <1>8, <1>9, <2>1 DEF Settles, Rested
    <2>3. ~(call.at = "sample" /\ call.pending = 0 /\ call.last = page'.shows /\ call.stable > Slack)
      BY <1>2, <1>9, <1>5, <2>1 DEF Settles, AtRest
    <2>4. ~(call.at = "snapshot" /\ call.kind # "restart" /\ lastSettle = "settled" /\ Slack + 2 <= StableSamples)
      BY <1>2 DEF Settles, AtRest
    <2> QED BY <1>4, <2>1, <2>2, <2>3, <2>4 DEF Settles
  <1>11. Recorded'
    <2>1. \A i \in DOMAIN console' : console'[i] = page.context
      <3>1. console \in Seq(Nat) /\ \A i \in DOMAIN console : console[i] = page.context
        BY DEF Recorded, SessionTypeOK
      <3>2. CASE console' = console
        BY <3>1, <3>2
      <3>3. CASE console' = Append(console, page.context)
        <4>1. /\ Len(console) \in Nat /\ DOMAIN console = 1 .. Len(console)
              /\ DOMAIN console' = 1 .. Len(console) + 1 /\ console'[Len(console) + 1] = page.context
              /\ \A i \in 1 .. Len(console) : console'[i] = console[i]
          BY <3>1, <3>3
        <4> QED BY <3>1, <4>1
      <3> QED BY <1>6, <3>2, <3>3
    <2>2. ASSUME call.kind = "execute", call.at # "before", NEW i \in DOMAIN traced', i > call.traced
          PROVE  traced'[i] = calls
      <3>1. traced \in Seq(Nat) /\ \A j \in DOMAIN traced : j > call.traced => traced[j] = calls
        BY <2>2 DEF Recorded, SessionTypeOK
      <3>2. CASE traced' = traced
        BY <2>2, <3>1, <3>2
      <3>3. CASE traced' = Append(traced, calls)
        <4>1. /\ Len(traced) \in Nat /\ DOMAIN traced = 1 .. Len(traced)
              /\ DOMAIN traced' = 1 .. Len(traced) + 1 /\ traced'[Len(traced) + 1] = calls
              /\ \A j \in 1 .. Len(traced) : traced'[j] = traced[j]
          BY <3>1, <3>3
        <4> QED BY <2>2, <3>1, <4>1
      <3> QED BY <1>6, <3>2, <3>3
    <2> QED BY <1>4, <1>5, <2>1, <2>2 DEF Recorded
  <1>12. Answers'
    BY <1>4 DEF Answers
  <1>13. SettledIsFinal'
    BY <1>2, <1>4 DEF SettledIsFinal
  <1>14. ErrorsAreOwn'
    BY <1>4, <1>5 DEF ErrorsAreOwn
  <1> QED BY <1>6, <1>7, <1>10, <1>11, <1>12, <1>13, <1>14

\* While a call goes on, nothing is claimed of an answer.
LEMMA GoesOn ==
    ASSUME SessionInv, call.at # "none", call' \in Calls, call'.at # "none", answer' = answer
    PROVE  Answers' /\ SettledIsFinal' /\ ErrorsAreOwn'
  <1>1. answer' = NoAnswer
    BY OpenCall DEF SessionInv
  <1>2. Answers'
    BY <1>1 DEF Answers
  <1> QED BY <1>1, <1>2, Unanswered

\* A call begins, and the answer before it is forgotten.
LEMMA BeginKeeps == ASSUME SessionInv, NEW kind \in Kinds \ {"none"}, BeginCall(kind) PROVE SessionInv'
  <1> USE DEF SessionInv
  <1>1. call \in Calls /\ page \in Pages /\ page.doc \in Nat /\ calls \in Nat
    BY DEF SessionTypeOK, Pages
  <1>2. /\ UNCHANGED <<page, console, traced, lastSettle>> /\ answer' = NoAnswer /\ calls' = calls + 1
        /\ call' \in Calls /\ call'.at \in {"hook", "before", "load"} /\ (call'.kind = "execute" => call'.at = "before")
    <2> DEFINE at == CASE kind \in {"reset", "restart"} -> "hook"
                       [] kind = "execute" -> "before"
                       [] OTHER -> "load"
    <2>1. at \in {"hook", "before", "load"} /\ (kind = "execute" => at = "before")
      OBVIOUS
    <2>2. call' = [NoCall EXCEPT !.kind = kind, !.doc = page.doc, !.at = at]
      BY DEF BeginCall
    <2> HIDE DEF at
    <2>3. call' \in Calls /\ call'.kind = kind /\ call'.at = at
      BY <1>1, <2>1, <2>2 DEF Calls, NoCall, Kinds, CallPlaces
    <2> QED BY <2>1, <2>3 DEF BeginCall
  <1>3. SessionTypeOK' /\ PageAnswers'
    BY <1>1, <1>2, SamePage DEF SessionTypeOK
  <1>4. Settles' /\ Recorded' /\ Answers'
    BY <1>2 DEF Settles, Recorded, Answers
  <1> QED BY <1>2, <1>3, <1>4, Unanswered

\* A call goes on when the hook of the server returns.
LEMMA HookKeeps == ASSUME SessionInv, Hook PROVE SessionInv'
  <1>1. CASE ThrowCall
    BY <1>1, ThrowKeeps DEF Hook
  <1>2. CASE ~ThrowCall
    <2> USE DEF SessionInv
    <2>1. /\ call' = [call EXCEPT !.at = "load"] /\ answer' = answer /\ call.at = "hook"
          /\ UNCHANGED <<page, console, traced, lastSettle, calls>>
      BY <1>2 DEF Hook
    <2>2. call' \in Calls /\ call'.at = "load" /\ call'.kind = call.kind /\ call'.traced = call.traced
      BY <2>1 DEF SessionTypeOK, Calls, CallPlaces
    <2>3. SessionTypeOK' /\ PageAnswers'
      BY <2>1, <2>2, SamePage DEF SessionTypeOK
    <2>4. Settles'
      BY <2>2 DEF Settles
    <2>5. Recorded'
      BY <2>1, <2>2 DEF Recorded
    <2> QED BY <2>1, <2>2, <2>3, <2>4, <2>5, GoesOn
  <1> QED BY <1>1, <1>2

\* An execute counts what is recorded already.
LEMMA BeforeKeeps == ASSUME SessionInv, Before PROVE SessionInv'
  <1>1. CASE ThrowCall
    BY <1>1, ThrowKeeps DEF Before
  <1>2. CASE ~ThrowCall
    <2> USE DEF SessionInv
    <2>1. /\ call' = [call EXCEPT !.at = "act", !.traced = Len(traced)] /\ answer' = answer
          /\ call.at = "before" /\ UNCHANGED <<page, console, traced, lastSettle, calls>>
      BY <1>2 DEF Before, CallAt
    <2>2. Len(traced) \in Nat /\ DOMAIN traced = 1 .. Len(traced)
      BY DEF SessionTypeOK
    <2>3. call' \in Calls /\ call'.at = "act" /\ call'.traced = Len(traced)
      BY <2>1, <2>2 DEF SessionTypeOK, Calls, CallPlaces
    <2>4. SessionTypeOK' /\ PageAnswers'
      BY <2>1, <2>3, SamePage DEF SessionTypeOK
    <2>5. Settles'
      BY <2>3 DEF Settles
    <2>6. Recorded'
      BY <2>1, <2>2, <2>3 DEF Recorded
    <2> QED BY <2>1, <2>3, <2>4, <2>5, <2>6, GoesOn
  <1> QED BY <1>1, <1>2

-----------------------------------------------------------------------------
\* A settle begins with no sample.
LEMMA SettlingIs ==
    ASSUME NEW c \in Calls
    PROVE  /\ Settling(c) \in Calls /\ Settling(c).at = "settle" /\ Settling(c).kind = c.kind
           /\ Settling(c).stable = 0 /\ Settling(c).last = 0 /\ Settling(c).traced = c.traced
  BY DEF Settling, Calls, CallPlaces

\* Before its first sample a settle has seen nothing.
LEMMA SettlingKeeps ==
    ASSUME page' \in Pages, call'.at = "settle", call'.stable = 0, call'.last = 0
    PROVE  Settles'
  <1>1. page'.shows \in Nat /\ page'.idle \in Nat /\ Slack \in Nat
    BY SessionAssumption DEF Pages
  <1>2. Rested'
    BY <1>1 DEF Rested
  <1> QED BY <1>1, <1>2 DEF Settles

\* A page that has been loaded has its script before it.
LEMMA LoadedIs ==
    ASSUME page \in Pages, NEW s \in Scripts, NEW context \in Nat, page' = LoadedPage(s, context)
    PROVE  page' \in Pages /\ page'.context = context /\ PageAnswers'
  <1>1. page' \in Pages /\ page'.context = context /\ page'.pending = 0 /\ page'.script = s
    <2>1. s \in Seq(Steps)
      BY ScriptCounts
    <2>2. page.doc + 1 \in Nat /\ page.shows + 1 \in Nat
      BY DEF Pages
    <2> QED BY <2>1, <2>2 DEF LoadedPage, Pages
  <1> QED BY <1>1, ScriptCounts DEF PageAnswers

\* A reset forgets what was recorded with the context it was of.
LEMMA ResetKeeps == ASSUME SessionInv, ResetPage PROVE SessionInv'
  <1> USE DEF SessionInv
  <1>1. PICK s \in Scripts : CreateContext(s)
    BY DEF ResetPage
  <1>2. /\ call' = Settling(call) /\ answer' = answer /\ calls' = calls /\ call.kind = "reset" /\ call.at = "load"
        /\ call \in Calls /\ page \in Pages /\ page.context + 1 \in Nat
    BY DEF ResetPage, CallAt, SessionTypeOK, Pages
  <1>3. page' \in Pages /\ PageAnswers'
    BY <1>1, <1>2, LoadedIs DEF CreateContext
  <1>4. SessionTypeOK'
    BY <1>1, <1>2, <1>3, SettlingIs DEF SessionTypeOK, CreateContext
  <1>5. Settles'
    BY <1>2, <1>3, SettlingIs, SettlingKeeps
  <1>6. Recorded'
    BY <1>1, <1>2, SettlingIs DEF Recorded, CreateContext
  <1> QED BY <1>2, <1>3, <1>4, <1>5, <1>6, SettlingIs, GoesOn

\* Another document in the same context.
LEMMA LoadKeeps == ASSUME SessionInv, Load PROVE SessionInv'
  <1>1. CASE ThrowCall /\ UNCHANGED page
    BY <1>1, ThrowKeeps DEF Load
  <1>2. CASE ~(ThrowCall /\ UNCHANGED page)
    <2> USE DEF SessionInv
    <2>1. /\ call' = Settling(call) /\ call.at = "load" /\ UNCHANGED <<answer, calls, console, traced>>
          /\ call \in Calls /\ page \in Pages /\ page.context \in Nat
      BY <1>2 DEF Load, SessionTypeOK, Pages
    <2>2. PICK s \in Scripts : page' = LoadedPage(s, page.context)
      BY <1>2 DEF Load
    <2>3. page' \in Pages /\ PageAnswers' /\ page'.context = page.context
      BY <2>1, <2>2, LoadedIs
    <2>4. SessionTypeOK'
      BY <2>1, <2>3, SettlingIs DEF SessionTypeOK
    <2>5. Settles'
      BY <2>1, <2>3, SettlingIs, SettlingKeeps
    <2>6. Recorded'
      BY <2>1, <2>3, SettlingIs DEF Recorded
    <2> QED BY <2>1, <2>3, <2>4, <2>5, <2>6, SettlingIs, GoesOn
  <1> QED BY <1>1, <1>2

\* An action adds to what the page is still to do.
LEMMA ActKeeps == ASSUME SessionInv, Act PROVE SessionInv'
  <1>1. CASE ThrowCall /\ UNCHANGED page
    BY <1>1, ThrowKeeps DEF Act
  <1>2. CASE ~(ThrowCall /\ UNCHANGED page)
    <2> USE DEF SessionInv
    <2>1. /\ call' = Settling(call) /\ call.at = "act" /\ UNCHANGED <<answer, calls, console, traced>>
          /\ call \in Calls /\ page \in Pages /\ page.script \in Seq(Steps) /\ page.pending \in Nat
      BY <1>2 DEF Act, CallAt, SessionTypeOK, Pages
    <2>2. PICK s \in Scripts : page' = [page EXCEPT !.script = @ \o s, !.idle = 0]
      BY <1>2 DEF Act
    <2>3. PICK before \in [0 .. Len(page.script) -> Nat] : Counts(page.pending, page.script, before)
      BY DEF PageAnswers
    <2>4. /\ page.script \o s \in Seq(Steps)
          /\ \E after \in [0 .. Len(page.script \o s) -> Nat] : Counts(page.pending, page.script \o s, after)
      BY <2>1, <2>3, AppendedCounts
    <2>5. /\ page' \in Pages /\ page'.context = page.context /\ page'.pending = page.pending
          /\ page'.script = page.script \o s
      BY <2>1, <2>2, <2>4 DEF Pages
    <2>6. PageAnswers'
      BY <2>4, <2>5 DEF PageAnswers
    <2>7. SessionTypeOK'
      BY <2>1, <2>5, SettlingIs DEF SessionTypeOK
    <2>8. Settles'
      BY <2>1, <2>5, SettlingIs, SettlingKeeps
    <2>9. Recorded'
      BY <2>1, <2>5, SettlingIs DEF Recorded
    <2> QED BY <2>1, <2>6, <2>7, <2>8, <2>9, SettlingIs, GoesOn
  <1> QED BY <1>1, <1>2

-----------------------------------------------------------------------------
\* A sample begins with what is pending.
LEMMA BeginSampleKeeps == ASSUME SessionInv, BeginSample PROVE SessionInv'
  <1> USE DEF SessionInv
  <1>1. /\ call' = [call EXCEPT !.at = "sample", !.pending = page.pending, !.doc = page.doc]
        /\ call.at = "settle" /\ UNCHANGED <<page, console, traced, lastSettle, calls, answer>>
        /\ page.pending \in Nat /\ page.doc \in Nat
    BY DEF BeginSample, SessionTypeOK, Pages
  <1>2. /\ call' \in Calls /\ call'.at = "sample" /\ call'.kind = call.kind /\ call'.traced = call.traced
        /\ call'.pending = page.pending /\ call'.last = call.last /\ call'.stable = call.stable
    BY <1>1 DEF SessionTypeOK, Calls, CallPlaces
  <1>3. SessionTypeOK' /\ PageAnswers'
    BY <1>1, <1>2, SamePage DEF SessionTypeOK
  <1>4. Settles'
    BY <1>1, <1>2 DEF Settles, Rested, AtRest
  <1>5. Recorded'
    BY <1>1, <1>2 DEF Recorded
  <1> QED BY <1>1, <1>2, <1>3, <1>4, <1>5, GoesOn

\* At a sample that may end, a page with nothing pending has used up its slack or its script.
LEMMA PatientRests ==
    ASSUME SessionInv, Patient, page.pending = 0, Slack <= page.idle
    PROVE  page.script = <<>>
  <1> SUFFICES ASSUME page.script # <<>> PROVE FALSE
    OBVIOUS
  <1>1. PICK before \in [0 .. Len(page.script) -> Nat] : Counts(page.pending, page.script, before)
    BY DEF SessionInv, PageAnswers
  <1>2. page.script \in Seq(Steps) /\ page.pending \in Nat /\ page.idle \in Nat /\ Slack \in Nat
    BY SessionAssumption DEF SessionInv, SessionTypeOK, Pages
  <1>3. Head(page.script) \notin {"answer", "arrive"}
    BY <1>1, <1>2, FirstStep
  <1>4. ~(page.idle < Slack)
    BY <1>2
  <1> QED BY <1>3, <1>4 DEF Patient

\* One sample is lost to the step before, one to the pending count read ahead: two more than
\* the slack are enough.
LEMMA EndSampleKeeps == ASSUME SessionInv, EndSample PROVE SessionInv'
  <1> USE DEF SessionInv
  <1> DEFINE stable == Stable(call, page.shows)
             after == [call EXCEPT !.at = "settle", !.samples = @ + 1, !.last = page.shows, !.stable = stable]
             idle == IF page.idle < Slack THEN page.idle + 1 ELSE page.idle
  <1>1. /\ call \in Calls /\ page \in Pages /\ Slack \in Nat /\ StableSamples \in Nat \ {0}
        /\ page.shows \in Nat /\ page.idle \in Nat /\ page.pending \in Nat /\ page.doc \in Nat
        /\ call.stable \in Nat /\ call.pending \in Nat /\ call.last \in Nat /\ call.samples \in Nat
    BY SessionAssumption DEF SessionTypeOK, Pages, Calls
  <1>2. stable \in Nat
    BY <1>1 DEF Stable
  <1>3. idle \in Nat
    BY <1>1
  <1>4. /\ call.at = "sample" /\ Patient /\ page' = [page EXCEPT !.idle = idle]
        /\ UNCHANGED <<console, traced, opaque, calls, answer>>
    BY DEF EndSample
  <1>5. \/ call' = [after EXCEPT !.pending = 0, !.doc = 0] /\ UNCHANGED lastSettle
        \/ /\ after.stable >= StableSamples \/ MayTimeOut(after.samples)
           /\ lastSettle' = IF call.kind = "restart" THEN lastSettle
                            ELSE IF after.stable >= StableSamples THEN "settled" ELSE "timeout"
           /\ call' = Answering([after EXCEPT !.tries = 0])
    BY DEF EndSample, Fingerprint
  <1> HIDE DEF stable, idle
  <1>6. /\ after \in Calls /\ after.at = "settle" /\ after.stable = stable /\ after.last = page.shows
        /\ after.kind = call.kind /\ after.traced = call.traced
    <2>1. call.samples + 1 \in Nat
      BY <1>1
    <2> QED BY <1>1, <1>2, <2>1 DEF Calls, CallPlaces
  <1> HIDE DEF after
  <1>7. /\ page' \in Pages /\ page'.idle = idle /\ page'.shows = page.shows /\ page'.pending = page.pending
        /\ page'.script = page.script /\ page'.context = page.context /\ page'.doc = page.doc
    BY <1>1, <1>3, <1>4 DEF Pages
  <1>8. PageAnswers'
    BY <1>7 DEF PageAnswers
  <1>9. call.last = page.shows /\ page.pending = 0 =>
          (call.stable <= page.idle \/ Slack <= page.idle) /\ (call.stable > Slack => page.script = <<>>)
    BY <1>4 DEF Settles, Rested
  <1>10. page.pending = 0 => stable <= idle \/ Slack <= idle
    BY <1>1, <1>9 DEF stable, idle, Stable
  <1>11. page.pending = 0 /\ stable > Slack => page.script = <<>>
    <2> SUFFICES ASSUME page.pending = 0, stable > Slack, ~(Slack <= page.idle) PROVE page.script = <<>>
      BY <1>4, PatientRests
    <2> QED BY <1>1, <1>9 DEF stable, Stable
  <1>12. stable >= StableSamples /\ Slack + 2 <= StableSamples => AtRest
    <2> SUFFICES ASSUME stable >= StableSamples, Slack + 2 <= StableSamples PROVE AtRest
      OBVIOUS
    <2>1. call.pending = 0 /\ call.last = page.shows /\ call.stable > Slack
      BY <1>1 DEF stable, Stable
    <2> QED BY <1>4, <2>1 DEF Settles
  <1>13. CASE call' = [after EXCEPT !.pending = 0, !.doc = 0] /\ UNCHANGED lastSettle
    <2>1. /\ call' \in Calls /\ call'.at = "settle" /\ call'.stable = stable /\ call'.last = page.shows
          /\ call'.kind = call.kind /\ call'.traced = call.traced
      BY <1>6, <1>13 DEF Calls
    <2>2. SessionTypeOK'
      BY <1>4, <1>7, <2>1 DEF SessionTypeOK
    <2>3. Settles'
      BY <1>1, <1>7, <1>10, <1>11, <2>1 DEF Settles, Rested
    <2>4. Recorded'
      BY <1>4, <1>7, <2>1 DEF Recorded
    <2> QED BY <1>4, <1>8, <2>1, <2>2, <2>3, <2>4, GoesOn
  <1>14. CASE /\ lastSettle' = IF call.kind = "restart" THEN lastSettle
                               ELSE IF after.stable >= StableSamples THEN "settled" ELSE "timeout"
              /\ call' = Answering([after EXCEPT !.tries = 0])
    <2>1. [after EXCEPT !.tries = 0] \in Calls /\ page'.doc \in Nat
      BY <1>1, <1>6, <1>7 DEF Calls
    <2>2. /\ call' \in Calls /\ call'.at = "snapshot" /\ call'.kind = call.kind /\ call'.traced = call.traced
      BY <1>6, <1>14, <2>1 DEF Calls, Answering, CallPlaces
    <2>3. SessionTypeOK'
      BY <1>4, <1>7, <2>2 DEF SessionTypeOK
    <2>4. Settles'
      BY <1>6, <1>7, <1>12, <1>14, <2>2 DEF Settles, AtRest
    <2>5. Recorded'
      BY <1>4, <1>7, <2>2 DEF Recorded
    <2> QED BY <1>4, <1>8, <2>2, <2>3, <2>4, <2>5, GoesOn
  <1> QED BY <1>5, <1>13, <1>14

\* A settle that lost its document starts again, or the call throws.
LEMMA SampleRaceKeeps == ASSUME SessionInv, SampleRace PROVE SessionInv'
  <1>1. CASE ThrowCall
    BY <1>1, ThrowKeeps DEF SampleRace
  <1>2. CASE ~ThrowCall
    <2> USE DEF SessionInv
    <2> DEFINE again == [call EXCEPT !.tries = @ + 1]
    <2>1. /\ call' = Settling(again) /\ call.at = "sample" /\ answer' = answer
          /\ UNCHANGED <<page, console, traced, lastSettle, opaque, calls>>
      BY <1>2 DEF SampleRace
    <2>2. again \in Calls /\ again.kind = call.kind /\ again.traced = call.traced /\ page' \in Pages
      <3>1. call \in Calls /\ call.tries + 1 \in Nat
        BY DEF SessionTypeOK, Calls
      <3> QED BY <2>1, <3>1 DEF SessionTypeOK, Calls
    <2> HIDE DEF again
    <2>3. SessionTypeOK' /\ PageAnswers'
      BY <2>1, <2>2, SettlingIs, SamePage DEF SessionTypeOK
    <2>4. Settles'
      BY <2>1, <2>2, SettlingIs, SettlingKeeps
    <2>5. Recorded'
      BY <2>1, <2>2, SettlingIs DEF Recorded
    <2> QED BY <2>1, <2>2, <2>3, <2>4, <2>5, SettlingIs, GoesOn
  <1> QED BY <1>1, <1>2

\* The answer of a call.
LEMMA SnapshotKeeps == ASSUME SessionInv, Snapshot PROVE SessionInv'
  <1> USE DEF SessionInv
  <1>1. /\ answer' = [kind |-> call.kind, settle |-> lastSettle, shows |-> page.shows,
                      errors |-> console, provenance |-> Provenance]
        /\ call.at = "snapshot" /\ call' = NoCall /\ UNCHANGED <<page, console, traced, lastSettle, opaque, calls>>
    BY DEF Snapshot
  <1>2. SessionTypeOK' /\ PageAnswers'
    BY <1>1, SamePage DEF SessionTypeOK, NoCall, Calls, Kinds, CallPlaces
  <1>3. Settles' /\ Recorded' /\ Answers'
    BY <1>1 DEF Settles, Recorded, Answers, NoCall
  <1>4. SettledIsFinal'
    BY <1>1 DEF SettledIsFinal, Settles, AtRest
  <1>5. \A i \in DOMAIN answer'.errors : answer'.errors[i] = page'.context
    BY <1>1 DEF Recorded
  <1>6. Provenance # 0 => call.kind = "execute" /\ Provenance = calls
    <2> SUFFICES ASSUME call.kind = "execute", Len(traced) > call.traced PROVE Last(traced) = calls
      BY DEF Provenance
    <2>1. traced \in Seq(Nat) /\ call.traced \in Nat
      BY DEF SessionTypeOK, Calls
    <2>2. Len(traced) \in DOMAIN traced
      BY <2>1
    <2> QED BY <1>1, <2>2 DEF Recorded, Last
  <1> QED BY <1>1, <1>2, <1>3, <1>4, <1>5, <1>6 DEF ErrorsAreOwn

\* A snapshot that lost its document is taken again, or the call throws.
LEMMA SnapshotRaceKeeps == ASSUME SessionInv, SnapshotRace PROVE SessionInv'
  <1>1. CASE ThrowCall
    BY <1>1, ThrowKeeps DEF SnapshotRace
  <1>2. CASE ~ThrowCall
    <2> USE DEF SessionInv
    <2>1. /\ call' = [call EXCEPT !.tries = @ + 1, !.doc = page.doc] /\ call.at = "snapshot" /\ answer' = answer
          /\ UNCHANGED <<page, console, traced, lastSettle, opaque, calls>>
      BY <1>2 DEF SnapshotRace
    <2>2. call' \in Calls /\ call'.at = "snapshot" /\ call'.kind = call.kind /\ call'.traced = call.traced
      <3>1. call \in Calls /\ call.tries + 1 \in Nat /\ page.doc \in Nat
        BY DEF SessionTypeOK, Calls, Pages
      <3> QED BY <2>1, <3>1 DEF Calls
    <2>3. SessionTypeOK' /\ PageAnswers'
      BY <2>1, <2>2, SamePage DEF SessionTypeOK
    <2>4. Settles'
      BY <2>1, <2>2 DEF Settles, AtRest
    <2>5. Recorded'
      BY <2>1, <2>2 DEF Recorded
    <2> QED BY <2>1, <2>2, <2>3, <2>4, <2>5, GoesOn
  <1> QED BY <1>1, <1>2

LEMMA SessionStep == SessionInv /\ [SessionNext]_sessionVars => SessionInv'
  <1> SUFFICES ASSUME SessionInv, [SessionNext]_sessionVars PROVE SessionInv'
    OBVIOUS
  <1>1. CASE PageStep
    BY <1>1, PageKeeps
  <1>2. CASE DriverStep
    BY <1>2, HookKeeps, ResetKeeps, LoadKeeps, BeforeKeeps, ActKeeps, BeginSampleKeeps, EndSampleKeeps,
       SampleRaceKeeps, SnapshotKeeps, SnapshotRaceKeeps DEF DriverStep
  <1>3. CASE \E kind \in {"reset", "execute", "reload", "goBack", "restart"} : BeginCall(kind)
    BY <1>3, BeginKeeps DEF Kinds
  <1>4. CASE UNCHANGED sessionVars
    <2> USE DEF SessionInv
    <2>1. UNCHANGED <<page, console, traced, lastSettle, opaque, call, calls, answer>>
      BY <1>4 DEF sessionVars
    <2>2. SessionTypeOK' /\ PageAnswers'
      BY <2>1, SamePage DEF SessionTypeOK
    <2>3. Settles' /\ Recorded' /\ Answers'
      BY <2>1 DEF Settles, Rested, AtRest, Recorded, Answers
    <2>4. SettledIsFinal' /\ ErrorsAreOwn'
      BY <2>1 DEF SettledIsFinal, ErrorsAreOwn
    <2> QED BY <2>2, <2>3, <2>4
  <1> QED BY <1>1, <1>2, <1>3, <1>4 DEF SessionNext

LEMMA SessionAlways == SessionSpec => []SessionInv
  <1> QED BY SessionInitially, SessionStep, PTL DEF SessionSpec

\* For every page, whatever it does by itself, and every number of calls: where StableSamples
\* is more than the slack of the page by two, what is told of a page that settled stays true.
THEOREM SettledStays == SessionSpec => []SettledIsFinal
  <1>1. SessionInv => SettledIsFinal
    BY DEF SessionInv
  <1> QED BY <1>1, SessionAlways, PTL

\* For every page and every number of calls: a snapshot carries the errors of its own context,
\* and a violation is explained by an error thrown during its own execute.
THEOREM ErrorsAlwaysOwn == SessionSpec => []ErrorsAreOwn
  <1>1. SessionInv => ErrorsAreOwn
    BY DEF SessionInv
  <1> QED BY <1>1, SessionAlways, PTL

-----------------------------------------------------------------------------
\* A managed server command.
Gone == {"init", "spawn", "stopped", "failed"}

\* The launch that is stopped next.
Managed == IF awaits \in Polling \cup {"abandon", "abandonKill"} THEN launch ELSE handed

\* How far the launches and the server handed out have come.
Counted ==
    /\ awaits = "init" <=> launch = 0
    /\ awaits \in {"restartKill", "spawn"} => launch < MaxLaunches
    /\ awaits \in Polling \cup {"abandon", "abandonKill"} => handed < launch /\ generation < launch

\* What exists is of a launch made, and a root that has exited is dead.
Known ==
    /\ \A p \in alive : p[1] <= launch
    /\ \A l \in exited : l <= launch /\ Root(l) \notin alive

\* While the managed launch is being stopped, whatever lives of it is its root, will be killed
\* by its pid, or has come loose.
Accounted ==
    awaits \in Stopping => \A p \in alive : p[1] = Managed => p \in {Root(Managed)} \cup targets \cup loose

ServerInv == ServerTypeOK /\ Counted /\ Known /\ Accounted /\ OnlyLooseSurvive /\ AnswerIsFresh

-----------------------------------------------------------------------------
\* A process knows its launch; the roots of the launches are processes, one of each.
LEMMA ProcessFacts ==
    /\ \A p \in Process : p[1] \in Launches
    /\ \A l \in Launches : Root(l) \in Process /\ Root(l)[1] = l /\ Group(l) \subseteq Process
    /\ \A l \in Launches : Root(l) \in Group(l) /\ \A p \in Group(l) : p[1] = l
    /\ Nobody \notin Process
  BY ServerAssumption DEF Process, Root, Group, Nobody, Launches

\* What dies is dead and on no list, all else stays as it was.
LEMMA DieFacts ==
    ASSUME ServerTypeOK, NEW dead, Die(dead)
    PROVE  /\ alive' = alive \ dead /\ loose' = loose \ dead /\ port' \in alive' \cup {Nobody}
           /\ announced' \subseteq Launches /\ parent' \in [Process -> Process \cup {Nobody}]
  BY DEF ServerTypeOK, Die

\* Whose stop has begun or is over depends on the caller's state alone.
LEMMA StoppedStays ==
    ASSUME UNCHANGED <<awaits, launch, handed>>
    PROVE  /\ Managed' = Managed
           /\ \A l : (Stopped(l)' <=> Stopped(l)) /\ (StopBegun(l)' <=> StopBegun(l))
  BY DEF Managed, Stopped, StopBegun

-----------------------------------------------------------------------------
\* A command's own step: whatever is started since a stop began is loose, and the group is
\* entered from within only.
LEMMA CommandKeeps ==
    ASSUME ServerInv, CommandStep
    PROVE  ServerInv'
  <1> USE DEF ServerInv
  <1>0. UNCHANGED <<awaits, launch, handed, generation, selected, expired, targets>>
    BY DEF CommandStep, Starts, Listens, Leaves, Announces, manager
  <1>1. Managed' = Managed /\ \A l : Stopped(l)' <=> Stopped(l)
    BY <1>0, StoppedStays
  <1>2. Counted'
    BY <1>0 DEF Counted
  <1>3. ASSUME NEW p \in alive, NEW q \in Process, Starts(p, q)
        PROVE  ServerInv'
    <2>1. /\ q \notin alive /\ q[1] = p[1] /\ q # Root(q[1]) /\ (q \in Group(q[1]) => p \in Group(q[1]))
          /\ alive' = alive \cup {q} /\ parent' = [parent EXCEPT ![q] = p]
          /\ loose' = IF StopBegun(q[1]) THEN loose \cup {q} ELSE loose
          /\ UNCHANGED <<exited, port, announced>>
      BY <1>3 DEF Starts
    <2>2. p \in Process /\ q[1] \in Launches /\ q[1] <= launch
      BY <2>1, ProcessFacts DEF Known, ServerTypeOK
    <2>3. ServerTypeOK'
      BY <1>0, <2>1, <2>2 DEF ServerTypeOK
    <2>4. Known'
      <3>1. \A l \in exited : q # Root(l)
        BY <2>1, ProcessFacts DEF ServerTypeOK
      <3> QED BY <1>0, <2>1, <2>2, <3>1 DEF Known
    <2>5. loose \subseteq loose' /\ (StopBegun(q[1]) => q \in loose')
      BY <2>1
    <2>6. Accounted'
      BY <1>0, <1>1, <2>1, <2>5 DEF Accounted, StopBegun
    <2>7. OnlyLooseSurvive'
      <3> SUFFICES ASSUME NEW r \in alive', Stopped(r[1])'
                   PROVE  r \in loose' /\ (r \in Group(r[1]) => r[1] \in exited')
        BY DEF OnlyLooseSurvive
      <3>1. Stopped(r[1])
        BY <1>1
      <3>2. CASE r \in alive
        BY <2>1, <2>5, <3>1, <3>2 DEF OnlyLooseSurvive
      <3>3. CASE r = q
        BY <2>1, <2>5, <3>1, <3>3 DEF OnlyLooseSurvive, StopBegun
      <3> QED BY <2>1, <3>2, <3>3
    <2>8. AnswerIsFresh'
      <3> SUFFICES ASSUME awaits = "up", handed = launch, selected \in alive', selected[1] # handed
                   PROVE  selected \in loose'
        BY <1>0 DEF AnswerIsFresh
      <3>1. CASE selected \in alive
        BY <2>5, <3>1 DEF AnswerIsFresh
      <3>2. CASE selected = q
        <4>1. q[1] < launch
          BY <2>2, <3>2 DEF ServerTypeOK, Launches
        <4> QED BY <2>5, <3>2, <4>1 DEF StopBegun, Stopped
      <3> QED BY <2>1, <3>1, <3>2
    <2> QED BY <1>2, <2>3, <2>4, <2>6, <2>7, <2>8
  <1>4. ASSUME NEW p \in alive, Leaves(p)
        PROVE  ServerInv'
    <2>1. /\ alive' = alive \ {p} /\ loose' = loose \ {p} /\ port' \in alive' \cup {Nobody}
          /\ announced' \subseteq Launches /\ parent' \in [Process -> Process \cup {Nobody}]
          /\ exited' = exited \/ (p = Root(p[1]) /\ exited' = exited \cup {p[1]})
      BY <1>4, DieFacts DEF Leaves
    <2>2. p[1] \in Launches /\ p[1] <= launch
      BY ProcessFacts DEF Known, ServerTypeOK
    <2>3. ServerTypeOK' /\ Known'
      BY <1>0, <2>1, <2>2 DEF ServerTypeOK, Known
    <2>4. Accounted' /\ OnlyLooseSurvive' /\ AnswerIsFresh'
      BY <1>0, <1>1, <2>1 DEF Accounted, OnlyLooseSurvive, AnswerIsFresh
    <2> QED BY <1>2, <2>3, <2>4
  <1>5. ASSUME NEW p \in alive, NEW l \in Launches, Listens(p) \/ Announces(l)
        PROVE  ServerInv'
    <2>1. /\ UNCHANGED <<alive, parent, exited, loose>> /\ port' \in alive \cup {Nobody}
          /\ announced' \subseteq Launches
      BY <1>5 DEF Listens, Announces, ServerTypeOK
    <2>2. ServerTypeOK' /\ Known'
      BY <1>0, <2>1 DEF ServerTypeOK, Known
    <2>3. Accounted' /\ OnlyLooseSurvive' /\ AnswerIsFresh'
      BY <1>0, <1>1, <2>1 DEF Accounted, OnlyLooseSurvive, AnswerIsFresh
    <2> QED BY <1>2, <2>2, <2>3
  <1>6. CASE \E p \in alive : Listens(p) \/ Leaves(p) \/ \E q \in Process : Starts(p, q)
    <2>1. 1 \in Launches
      BY ServerAssumption DEF Launches
    <2> QED BY <1>3, <1>4, <1>5, <1>6, <2>1
  <1>7. CASE \E l \in Launches : Announces(l)
    <2>1. PICK l \in Launches : Announces(l)
      BY <1>7
    <2>2. Root(l) \in alive
      BY <2>1 DEF Announces
    <2> QED BY <1>5, <2>1, <2>2
  <1> QED BY <1>6, <1>7 DEF CommandStep

-----------------------------------------------------------------------------
\* A new command is started where nothing lives but what came loose from others.
LEMMA SpawnKeeps ==
    ASSUME ServerInv, Spawn, awaits \in {"init", "spawn"}, launch < MaxLaunches
    PROVE  ServerInv'
  <1> USE DEF ServerInv
  <1>1. /\ launch' = launch + 1 /\ alive' = alive \cup {Root(launch + 1)} /\ awaits' = "check"
        /\ UNCHANGED <<parent, exited, port, announced, loose, handed, generation, selected, targets>>
        /\ expired' = FALSE
    BY DEF Spawn
  <1>2. launch \in Nat /\ launch + 1 \in Launches /\ handed <= launch /\ generation <= launch
        /\ handed \in Nat /\ generation \in Nat
    BY ServerAssumption DEF ServerTypeOK, Launches
  <1>3. Root(launch + 1) \in Process /\ Root(launch + 1)[1] = launch + 1
    BY <1>2, ProcessFacts
  <1>4. ServerTypeOK'
    <2>1. launch' \in 0 .. MaxLaunches /\ handed' \in 0 .. launch' /\ generation' \in 0 .. launch'
      BY <1>1, <1>2 DEF Launches
    <2>2. expired' \in BOOLEAN /\ awaits' \in Places
      BY <1>1 DEF Places
    <2>3. alive' \subseteq Process
      BY <1>1, <1>3 DEF ServerTypeOK
    <2> QED BY <1>1, <2>1, <2>2, <2>3 DEF ServerTypeOK
  <1>5. Counted'
    BY <1>1, <1>2 DEF Counted, Polling
  <1>6. Known'
    <2>1. \A p \in alive : p[1] \in Nat
      BY ProcessFacts DEF ServerTypeOK, Launches
    <2>2. \A l \in exited : l # launch + 1 /\ Root(l) # Root(launch + 1)
      <3> TAKE l \in exited
      <3>1. l <= launch /\ l \in Launches
        BY DEF Known, ServerTypeOK
      <3> QED BY <1>2, <1>3, <3>1, ProcessFacts
    <2> QED BY <1>1, <1>2, <1>3, <2>1, <2>2 DEF Known, ServerTypeOK, Launches
  <1>7. OnlyLooseSurvive'
    <2> SUFFICES ASSUME NEW p \in alive', Stopped(p[1])'
                 PROVE  p \in loose /\ (p \in Group(p[1]) => p[1] \in exited)
      BY <1>1 DEF OnlyLooseSurvive
    <2>1. p[1] < launch + 1
      BY <1>1 DEF Stopped
    <2>2. p \in alive
      BY <1>1, <1>2, <1>3, <2>1
    <2>3. awaits = "spawn"
      <3>1. p[1] \in Launches /\ p[1] <= launch
        BY <2>2, ProcessFacts DEF Known, ServerTypeOK
      <3> QED BY <1>2, <3>1 DEF Counted, Launches
    <2> QED BY <2>2, <2>3 DEF OnlyLooseSurvive, Stopped
  <1>8. Accounted' /\ AnswerIsFresh'
    BY <1>1 DEF Accounted, AnswerIsFresh, Stopping
  <1> QED BY <1>4, <1>5, <1>6, <1>7, <1>8

\* What stopChild does not find below the root has come loose.
LEMMA TerminateKeeps ==
    ASSUME ServerInv, NEW place \in Stopping, Terminate(Managed, place),
           awaits \in {"abandon", "up"}, place = "abandonKill" <=> awaits = "abandon",
           place = "restartKill" => launch < MaxLaunches
    PROVE  ServerInv'
  <1> USE DEF ServerInv
  <1>1. PICK listed \in BOOLEAN :
          /\ targets' = IF listed THEN Descendants(Managed) ELSE {}
          /\ loose' = loose \cup
               {p \in alive : p[1] = Managed /\ p # Root(Managed) /\ (listed => ~Descends(p, Managed))}
          /\ awaits' = place /\ expired' = FALSE
          /\ UNCHANGED <<alive, parent, exited, port, announced, launch, handed, generation, selected>>
    BY DEF Terminate
  <1>2. Managed' = Managed
    BY <1>1 DEF Managed, Stopping, Polling
  <1>3. loose \subseteq loose' /\ loose' \subseteq loose \cup alive
    BY <1>1
  <1>4. targets' \subseteq alive
    BY <1>1 DEF Descendants
  <1>5. ServerTypeOK' /\ Counted' /\ Known'
    BY <1>1, <1>3, <1>4 DEF ServerTypeOK, Counted, Known, Places, Stopping, Polling
  <1>6. Accounted'
    <2> SUFFICES ASSUME NEW p \in alive, p[1] = Managed, p # Root(Managed)
                 PROVE  p \in targets' \cup loose'
      BY <1>1, <1>2 DEF Accounted
    <2>1. CASE listed /\ Descends(p, Managed)
      BY <1>1, <2>1 DEF Descendants
    <2>2. CASE ~(listed /\ Descends(p, Managed))
      BY <1>1, <2>2
    <2> QED BY <2>1, <2>2
  <1>7. \A l : Stopped(l)' => Stopped(l)
    BY <1>1 DEF Stopped, Stopping
  <1>8. OnlyLooseSurvive'
    BY <1>1, <1>3, <1>7 DEF OnlyLooseSurvive
  <1>9. AnswerIsFresh'
    BY <1>1 DEF AnswerIsFresh, Stopping
  <1> QED BY <1>5, <1>6, <1>8, <1>9

\* What survives the kill has come loose, and is in the group only where that could not be
\* signalled any more.
LEMMA KillKeeps ==
    ASSUME ServerInv, awaits \in Stopping,
           NEW place \in {"spawn", "stopped", "failed", "up"}, Kill(Managed, place),
           place = "up" => awaits = "abandonKill" /\ handed # launch,
           place = "spawn" => awaits = "restartKill"
    PROVE  ServerInv'
  <1> USE DEF ServerInv
  <1> DEFINE Dead == targets \cup GroupOf(Managed)
  <1>1. /\ alive' = alive \ Dead /\ loose' = loose \ Dead /\ port' \in alive' \cup {Nobody}
        /\ announced' \subseteq Launches /\ parent' \in [Process -> Process \cup {Nobody}]
    BY DieFacts DEF Kill
  <1>2. targets' = {} /\ awaits' = place
        /\ UNCHANGED <<exited, launch, handed, generation, selected, expired>>
    BY DEF Kill
  <1>3. ServerTypeOK' /\ Counted' /\ Known'
    BY <1>1, <1>2 DEF ServerTypeOK, Counted, Known, Places, Stopping, Polling
  <1>4. ASSUME NEW p \in alive', p[1] = Managed
        PROVE  p \in loose' /\ (p \in Group(Managed) => Managed \in exited)
    <2>1. p \in alive /\ p \notin targets /\ p \notin GroupOf(Managed) /\ Managed \in Launches
      BY <1>1, <1>4, ProcessFacts DEF ServerTypeOK
    <2>2. p \in Group(Managed) => Managed \in exited
      BY <2>1 DEF GroupOf
    <2>3. p # Root(Managed)
      BY <2>1, <2>2, ProcessFacts DEF Known
    <2>4. p \in loose
      BY <1>4, <2>1, <2>3 DEF Accounted
    <2> QED BY <1>1, <2>2, <2>4
  <1>5. ASSUME NEW p \in alive', p[1] # Managed, Stopped(p[1])'
        PROVE  Stopped(p[1])
    <2>1. p[1] \in Nat /\ p[1] <= launch /\ launch \in Nat
      BY <1>1, ProcessFacts DEF Known, ServerTypeOK, Launches
    <2> QED BY <1>2, <1>5, <2>1 DEF Stopped, Managed, Stopping, Polling
  <1>6. OnlyLooseSurvive'
    <2> SUFFICES ASSUME NEW p \in alive', Stopped(p[1])'
                 PROVE  p \in loose' /\ (p \in Group(p[1]) => p[1] \in exited)
      BY <1>2 DEF OnlyLooseSurvive
    <2>1. CASE p[1] = Managed
      BY <1>4, <2>1
    <2>2. CASE p[1] # Managed
      BY <1>1, <1>5, <2>2 DEF OnlyLooseSurvive
    <2> QED BY <2>1, <2>2
  <1>7. Accounted' /\ AnswerIsFresh'
    BY <1>2 DEF Accounted, AnswerIsFresh, Stopping
  <1> QED BY <1>3, <1>6, <1>7

\* The loop's own steps: the server that answers is the one launched, or what came loose.
LEMMA PollKeeps ==
    ASSUME ServerInv, Poll
    PROVE  ServerInv'
  <1> USE DEF ServerInv
  <1>0. awaits \in Polling /\ launch \in Launches /\ launch \in Nat /\ launch > 0
    BY DEF Poll, Check, FetchRequested, FetchAnnounced, Counted, ServerTypeOK, Launches, Polling
  <1>1. ASSUME NEW place \in Polling \cup {"abandon"}, Await(place)
        PROVE  ServerInv'
    <2>1. awaits' = place /\ UNCHANGED <<alive, parent, exited, port, announced, loose>>
          /\ UNCHANGED <<launch, handed, generation, selected, expired, targets>>
      BY <1>1 DEF Await, commands
    <2>2. ServerTypeOK' /\ Counted' /\ Known'
      BY <1>0, <2>1 DEF ServerTypeOK, Counted, Known, Places, Polling
    <2>3. \A l : Stopped(l)' => Stopped(l)
      BY <1>0, <2>1 DEF Stopped, Polling
    <2>4. OnlyLooseSurvive'
      BY <2>1, <2>3 DEF OnlyLooseSurvive
    <2>5. Accounted' /\ AnswerIsFresh'
      BY <2>1 DEF Accounted, AnswerIsFresh, Polling, Stopping
    <2> QED BY <2>2, <2>4, <2>5
  <1>2. ASSUME NEW p \in alive, Ready(p)
        PROVE  ServerInv'
    <2>1. /\ handed' = launch /\ generation' = generation + 1 /\ selected' = p /\ awaits' = "up"
          /\ expired' = FALSE
          /\ UNCHANGED <<alive, parent, exited, port, announced, loose, launch, targets>>
      BY <1>2 DEF Ready, commands
    <2>2. generation < launch /\ generation \in Nat
      BY <1>0 DEF Counted, ServerTypeOK
    <2>3. ServerTypeOK' /\ Counted' /\ Known'
      <3>1. launch' \in 0 .. MaxLaunches /\ handed' \in 0 .. launch' /\ generation' \in 0 .. launch'
        BY <1>0, <2>1, <2>2 DEF ServerTypeOK
      <3>2. awaits' \in Places /\ expired' \in BOOLEAN /\ selected' \in Process \cup {Nobody}
        BY <2>1 DEF ServerTypeOK, Places
      <3>3. ServerTypeOK'
        BY <2>1, <3>1, <3>2 DEF ServerTypeOK
      <3>4. Counted' /\ Known'
        BY <1>0, <2>1 DEF Counted, Known, Polling
      <3> QED BY <3>3, <3>4
    <2>4. \A l : Stopped(l)' => Stopped(l)
      BY <1>0, <2>1 DEF Stopped, Polling
    <2>5. OnlyLooseSurvive'
      BY <2>1, <2>4 DEF OnlyLooseSurvive
    <2>6. AnswerIsFresh'
      <3>1. p[1] # launch => p[1] < launch
        BY <1>0, ProcessFacts DEF Known, ServerTypeOK, Launches
      <3> QED BY <2>1, <3>1 DEF AnswerIsFresh, OnlyLooseSurvive, Stopped
    <2>7. Accounted'
      BY <2>1 DEF Accounted, Stopping
    <2> QED BY <2>3, <2>5, <2>6, <2>7
  <1>3. CASE Check
    BY <1>1, <1>3 DEF Check, Polling
  <1>4. CASE FetchRequested
    <2>1. port # Nobody => port \in alive
      BY DEF ServerTypeOK
    <2> QED BY <1>1, <1>2, <1>4, <2>1 DEF FetchRequested, Polling
  <1>5. CASE FetchAnnounced
    BY <1>1, <1>2, <1>5 DEF FetchAnnounced, Polling
  <1> QED BY <1>3, <1>4, <1>5 DEF Poll

\* Every step keeps the invariant.
LEMMA ServerStep == ServerInv /\ [ServerNext]_serverVars => ServerInv'
  <1> SUFFICES ASSUME ServerInv, [ServerNext]_serverVars PROVE ServerInv'
    OBVIOUS
  <1>1. CASE StartServer
    <2>1. awaits = "init" /\ Spawn /\ launch = 0
      BY <1>1 DEF StartServer, ServerInv, Counted
    <2> QED BY <2>1, ServerAssumption, SpawnKeeps
  <1>2. CASE Expire
    <2>1. UNCHANGED <<commands, awaits, launch, handed, generation, selected, targets>> /\ expired' = TRUE
      BY <1>2 DEF Expire
    <2> QED BY <2>1 DEF ServerInv, ServerTypeOK, Counted, Known, Accounted, AnswerIsFresh, OnlyLooseSurvive,
                        Stopped, Managed, commands
  <1>3. CASE Abandon
    <2>1. CASE awaits = "abandon" /\ Terminate(launch, "abandonKill")
      <3>1. Managed = launch
        BY <2>1 DEF Managed
      <3> QED BY <2>1, <3>1, TerminateKeeps DEF Stopping
    <2>2. CASE awaits = "abandonKill" /\ Kill(launch, IF handed = 0 THEN "failed" ELSE "up")
      <3>1. Managed = launch /\ handed # launch
        BY <2>2 DEF Managed, ServerInv, Counted, ServerTypeOK
      <3> QED BY <2>2, <3>1, KillKeeps DEF Stopping
    <2> QED BY <1>3, <2>1, <2>2 DEF Abandon
  <1>4. CASE Restart
    <2>1. CASE awaits = "up" /\ launch < MaxLaunches /\ Terminate(handed, "restartKill")
      <3>1. Managed = handed
        BY <2>1 DEF Managed, Polling
      <3> QED BY <2>1, <3>1, TerminateKeeps DEF Stopping
    <2>2. CASE awaits = "restartKill" /\ Kill(handed, "spawn")
      <3>1. Managed = handed
        BY <2>2 DEF Managed, Polling
      <3> QED BY <2>2, <3>1, KillKeeps DEF Stopping
    <2>3. CASE awaits = "spawn" /\ Spawn
      BY <2>3, SpawnKeeps DEF ServerInv, Counted
    <2> QED BY <1>4, <2>1, <2>2, <2>3 DEF Restart
  <1>5. CASE Stop
    <2>0. awaits \in {"up", "finalKill"} /\ Managed = handed
      BY <1>5 DEF Stop, Managed, Polling
    <2>1. CASE awaits = "up" /\ Terminate(handed, "finalKill")
      BY <2>0, <2>1, TerminateKeeps DEF Stopping
    <2>2. CASE awaits = "finalKill" /\ Kill(handed, "stopped")
      BY <2>0, <2>2, KillKeeps DEF Stopping
    <2> QED BY <1>5, <2>1, <2>2 DEF Stop
  <1>6. CASE UNCHANGED serverVars
    BY <1>6 DEF serverVars, commands, manager, ServerInv, ServerTypeOK, Counted, Known, Accounted,
                AnswerIsFresh, OnlyLooseSurvive, Stopped, Managed
  <1> QED BY <1>1, <1>2, <1>3, <1>4, <1>5, <1>6, CommandKeeps, PollKeeps DEF ServerNext

\* Before the call nothing runs.
LEMMA ServerInitially == ServerInit => ServerInv
  <1> SUFFICES ASSUME ServerInit PROVE ServerInv
    OBVIOUS
  <1>1. ServerTypeOK
    <2>1. launch \in 0 .. MaxLaunches /\ handed \in 0 .. launch /\ generation \in 0 .. launch
      BY ServerAssumption DEF ServerInit
    <2>2. expired \in BOOLEAN /\ awaits \in Places
      BY DEF ServerInit, Places
    <2> QED BY <2>1, <2>2 DEF ServerInit, ServerTypeOK
  <1>2. Counted /\ Known /\ Accounted /\ OnlyLooseSurvive /\ AnswerIsFresh
    BY DEF ServerInit, Counted, Known, Accounted, OnlyLooseSurvive, AnswerIsFresh, Polling, Stopping
  <1> QED BY <1>1, <1>2 DEF ServerInv

\* However a server is restarted, fails to come up, exits, starts processes in or out of its
\* group before, during and after a stop, loses those between it and others, or hands its port
\* on: what lives on after the stop of a launch, at every later moment, is what ps did not show
\* below the root or was started since, in the root's group only where the root has an exit
\* code, and what answers as the new server is the new one or such a survivor.
THEOREM OneServerAlways == ServerSpec => []OneServer
  <1>1. ServerInv => OneServer
    BY DEF ServerInv, OneServer
  <1> QED BY <1>1, ServerInitially, ServerStep, PTL DEF ServerSpec

\* The reported generation moves exactly when another server is handed out, and that is then
\* the one launched last: a restart that fails keeps both.
THEOREM GenerationsMove == ServerSpec => GenerationMoves
  <1> DEFINE Moves == (generation' # generation <=> handed' # handed)
                      /\ (handed' # handed => handed' = launch /\ handed' > handed)
  <1>1. ServerInv /\ [ServerNext]_serverVars => [Moves]_serverVars
    <2> SUFFICES ASSUME ServerInv, ServerNext PROVE Moves
      OBVIOUS
    <2>1. CASE UNCHANGED <<generation, handed>>
      BY <2>1
    <2>2. ASSUME NEW p, Ready(p), awaits \in Polling PROVE Moves
      <3>1. handed' = launch /\ generation' = generation + 1 /\ handed < launch /\ generation \in Nat
            /\ handed \in Nat /\ launch \in Nat
        BY <2>2 DEF Ready, ServerInv, ServerTypeOK, Counted
      <3> QED BY <3>1
    <2>3. ASSUME NEW k, NEW place, Terminate(k, place) \/ Kill(k, place)
          PROVE  UNCHANGED <<generation, handed>>
      BY <2>3 DEF Terminate, Kill
    <2>4. CommandStep \/ StartServer \/ Expire => UNCHANGED <<generation, handed>>
      BY DEF CommandStep, Starts, Listens, Leaves, Announces, manager, StartServer,
             Spawn, Expire
    <2>5. Abandon \/ Stop => UNCHANGED <<generation, handed>>
      BY <2>3 DEF Abandon, Stop
    <2>6. Restart => UNCHANGED <<generation, handed>>
      BY <2>3 DEF Restart, Spawn
    <2>7. CASE Poll
      <3>1. awaits \in Polling
        BY <2>7 DEF Poll, Check, FetchRequested, FetchAnnounced, Polling
      <3>2. UNCHANGED <<generation, handed>> \/ \E p \in {port, Root(launch)} : Ready(p)
        BY <2>7 DEF Poll, Check, FetchRequested, FetchAnnounced, Await
      <3> QED BY <2>1, <2>2, <3>1, <3>2
    <2> HIDE DEF Moves
    <2> QED BY <2>1, <2>4, <2>5, <2>6, <2>7 DEF ServerNext
  <1>2. GenerationMoves <=> [][Moves]_serverVars
    BY DEF GenerationMoves
  <1> HIDE DEF Moves
  <1> QED BY <1>1, <1>2, ServerInitially, ServerStep, PTL DEF ServerSpec
=============================================================================
