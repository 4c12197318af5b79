------------------------------ MODULE CoreProofs ------------------------------
(***************************************************************************)
(* What holds of the core, for any client whose functions are total: the   *)
(* shrinker keeps a counterexample, ends, and ends at local minima; what   *)
(* the report shows of a walk is there, and no later case loses it.        *)
(***************************************************************************)
EXTENDS CoreRunner, SequenceTheorems, FiniteSetTheorems, WellFoundedInduction, TLAPS

-----------------------------------------------------------------------------
\* A set of naturals that is not empty has a smallest element, ...
LEMMA SmallestIs ==
    ASSUME NEW S \in SUBSET Nat, S # {}
    PROVE  Min(S) \in S /\ \A y \in S : Min(S) <= y
  <1>0. \A x \in S : x \in Nat
    OBVIOUS
  <1> DEFINE less == OpToRel(<, Nat)
  <1>1. PICK x \in S : \A y \in S : ~(<<y, x>> \in less)
    BY NatLessThanWellFounded, WFMin
  <1>2. \A y \in S : <<y, x>> \in less <=> y < x
    BY DEF OpToRel
  <1> HIDE DEF less
  <1>3. ASSUME NEW y \in S PROVE x <= y
    <2>1. ~(y < x)
      BY <1>1, <1>2
    <2> QED BY <1>0, <2>1
  <1> QED BY <1>3 DEF Min

\* ... and holds all numbers up to n where it holds 0 and, with one, the next.
LEMMA UpTo ==
    ASSUME NEW n \in Nat, NEW S, 0 \in S, \A k \in 0 .. n - 1 : k \in S => k + 1 \in S
    PROVE  \A k \in 0 .. n : k \in S
  <1> SUFFICES ASSUME NEW j \in 0 .. n, j \notin S PROVE FALSE
    OBVIOUS
  <1> DEFINE T == {k \in 0 .. n : k \notin S}
  <1>1. T \in SUBSET Nat /\ T # {}
    OBVIOUS
  <1>2. Min(T) \in T /\ \A i \in T : Min(T) <= i
    BY <1>1, SmallestIs
  <1> DEFINE k == Min(T)
  <1>3. k \in 0 .. n /\ k # 0 /\ k \notin S
    BY <1>2
  <1> HIDE DEF k
  <1>4. k - 1 \in 0 .. n - 1 /\ k - 1 \in 0 .. n /\ (k - 1) + 1 = k /\ ~(k <= k - 1)
    BY <1>3
  <1>5. k - 1 \in S
    BY <1>2, <1>4 DEF k
  <1> QED BY <1>3, <1>4, <1>5

-----------------------------------------------------------------------------
\* A machine's models, messages, and traces of them.
ModelsOf(m) == DOMAIN m.fingerprint
MessagesOf(m) == DOMAIN m.id
TracesOf(m) == Seq(MessagesOf(m))

LEMMA MachineIs ==
    ASSUME NEW m, IsMachine(m)
    PROVE  /\ m.initial \in ModelsOf(m) /\ m.update \in [ModelsOf(m) \X MessagesOf(m) -> ModelsOf(m)]
           /\ m.actions \in [ModelsOf(m) -> TracesOf(m)] /\ m.shrink \in [MessagesOf(m) -> TracesOf(m)]
  BY DEF IsMachine, ModelsOf, MessagesOf, TracesOf

\* The message offered under an id, ...
LEMMA AvailableIs ==
    ASSUME NEW m, IsMachine(m), NEW x \in ModelsOf(m), NEW a
    PROVE  \/ /\ AvailableAction(m, x, a) = <<>>
              /\ \A b \in ToSet(m.actions[x]) : m.id[b] # m.id[a]
           \/ \E b \in ToSet(m.actions[x]) : b \in MessagesOf(m) /\ m.id[b] = m.id[a] /\ AvailableAction(m, x, a) = <<b>>
  <1> DEFINE s == m.actions[x]
             I == {i \in 1 .. Len(s) : m.id[s[i]] = m.id[a]}
  <1>1. s \in TracesOf(m) /\ DOMAIN s = 1 .. Len(s) /\ Len(s) \in Nat /\ \A i \in 1 .. Len(s) : s[i] \in MessagesOf(m)
    <2>1. s \in TracesOf(m)
      BY MachineIs
    <2> HIDE DEF s
    <2> QED BY <2>1 DEF TracesOf
  <1>2. AvailableAction(m, x, a) = IF I # {} THEN IF Min(I) = 0 THEN <<>> ELSE <<s[Min(I)]>> ELSE <<>>
    BY DEF AvailableAction, SelectInSeq
  <1>3. ToSet(s) = {s[i] : i \in 1 .. Len(s)}
    BY <1>1 DEF ToSet
  <1> HIDE DEF s
  <1>4. CASE I = {}
    BY <1>1, <1>2, <1>3, <1>4 DEF s
  <1>5. CASE I # {}
    <2>1. I \in SUBSET Nat
      OBVIOUS
    <2>2. Min(I) \in I
      BY <1>5, <2>1, SmallestIs
    <2> DEFINE i == Min(I)
    <2>3. i \in 1 .. Len(s) /\ m.id[s[i]] = m.id[a]
      BY <2>2
    <2> HIDE DEF i
    <2>4. i # 0 /\ s[i] \in ToSet(s) /\ s[i] \in MessagesOf(m)
      BY <1>1, <1>3, <2>3
    <2>5. AvailableAction(m, x, a) = IF i = 0 THEN <<>> ELSE <<s[i]>>
      BY <1>2, <1>5 DEF i
    <2>6. AvailableAction(m, x, a) = <<s[i]>>
      BY <2>4, <2>5
    <2> QED BY <2>3, <2>4, <2>6 DEF s
  <1> QED BY <1>4, <1>5

\* ... which is the one asked for where no other has its id.
LEMMA AvailableIsIt ==
    ASSUME NEW m, IsMachine(m), NEW x \in ModelsOf(m), NEW a \in ToSet(m.actions[x]), a \in MessagesOf(m),
           \A b, c \in MessagesOf(m) : m.id[b] = m.id[c] => b = c
    PROVE  AvailableAction(m, x, a) = <<a>>
  BY AvailableIs

\* Messages of one id are taken for one another.
LEMMA AvailableSame ==
    ASSUME NEW m, NEW x, NEW a, NEW b, m.id[a] = m.id[b]
    PROVE  AvailableAction(m, x, a) = AvailableAction(m, x, b)
  <1> DEFINE s == m.actions[x]
             Of(id) == LET I == {i \in 1 .. Len(s) : m.id[s[i]] = id}
                           i == IF I # {} THEN Min(I) ELSE 0
                       IN IF i = 0 THEN <<>> ELSE <<s[i]>>
  <1>1. \A c : AvailableAction(m, x, c) = Of(m.id[c])
    BY DEF AvailableAction, SelectInSeq
  <1> HIDE DEF Of
  <1> QED BY <1>1

-----------------------------------------------------------------------------
\* The results of a replay, message by message, are defined, ...
AreReplays(f, m, p, t, n) ==
    f = [k \in 0 .. n |-> IF k = 0 THEN ReplayStart(m, p) ELSE ReplayStep(m, p, f[k - 1], t[k])]

LEMMA ReplaysExist ==
    ASSUME NEW m, NEW p, NEW t, NEW n \in Nat
    PROVE  \E f : AreReplays(f, m, p, t, n)
  <1> DEFINE S == {k \in 0 .. n : \E f : AreReplays(f, m, p, t, k)}
  <1>1. 0 \in S
    <2> DEFINE f == [k \in 0 .. 0 |-> ReplayStart(m, p)]
    <2>1. f = [k \in 0 .. 0 |-> IF k = 0 THEN ReplayStart(m, p) ELSE ReplayStep(m, p, f[k - 1], t[k])]
      OBVIOUS
    <2>2. AreReplays(f, m, p, t, 0)
      BY <2>1 DEF AreReplays
    <2> QED BY <2>2
  <1>2. ASSUME NEW k \in 0 .. n - 1, k \in S PROVE k + 1 \in S
    <2>1. PICK f : AreReplays(f, m, p, t, k)
      BY <1>2
    <2> DEFINE g == [i \in 0 .. k + 1 |-> IF i = k + 1 THEN ReplayStep(m, p, f[k], t[k + 1]) ELSE f[i]]
    <2>2. \A i \in 0 .. k : f[i] = IF i = 0 THEN ReplayStart(m, p) ELSE ReplayStep(m, p, f[i - 1], t[i])
      BY <2>1 DEF AreReplays
    <2>3. ASSUME NEW i \in 0 .. k + 1
          PROVE  g[i] = IF i = 0 THEN ReplayStart(m, p) ELSE ReplayStep(m, p, g[i - 1], t[i])
      <3>1. CASE i = 0
        <4>1. i \in 0 .. k /\ i # k + 1
          BY <3>1
        <4> QED BY <2>2, <3>1, <4>1
      <3>2. CASE i = k + 1
        <4>1. i - 1 = k /\ k \in 0 .. k + 1 /\ k # k + 1 /\ i # 0
          BY <3>2
        <4> QED BY <3>2, <4>1
      <3>3. CASE i # 0 /\ i # k + 1
        <4>1. i \in 0 .. k /\ i - 1 \in 0 .. k + 1 /\ i - 1 # k + 1
          BY <3>3
        <4> QED BY <2>2, <3>3, <4>1
      <3> QED BY <3>1, <3>2, <3>3
    <2>4. g = [i \in 0 .. k + 1 |-> g[i]]
      OBVIOUS
    <2> HIDE DEF g
    <2>5. AreReplays(g, m, p, t, k + 1)
      BY <2>3, <2>4 DEF AreReplays
    <2>6. k + 1 \in 0 .. n
      OBVIOUS
    <2> QED BY <2>5, <2>6
  <1> HIDE DEF S
  <1>3. n \in S
    BY <1>1, <1>2, UpTo
  <1> QED BY <1>3 DEF S

\* ... each goes on from the one before, ...
LEMMA ReplaysAre ==
    ASSUME NEW m, NEW p, NEW t, Len(t) \in Nat
    PROVE  /\ ReplaysOf(m, p, t)[0] = ReplayStart(m, p)
           /\ \A k \in 1 .. Len(t) : ReplaysOf(m, p, t)[k] = ReplayStep(m, p, ReplaysOf(m, p, t)[k - 1], t[k])
  <1>1. \E f : AreReplays(f, m, p, t, Len(t))
    BY ReplaysExist
  <1>2. ReplaysOf(m, p, t) = CHOOSE f : AreReplays(f, m, p, t, Len(t))
    BY DEF ReplaysOf, AreReplays
  <1>3. AreReplays(ReplaysOf(m, p, t), m, p, t, Len(t))
    BY <1>1, <1>2
  <1> QED BY <1>3 DEF AreReplays

\* ... and so does a longer replay from a shorter one.
LEMMA ReplayGoesOn ==
    ASSUME NEW m, NEW p, NEW A, NEW t \in Seq(A), NEW a \in A
    PROVE  /\ Replay(m, p, <<>>) = ReplayStart(m, p)
           /\ Replay(m, p, Append(t, a)) = ReplayStep(m, p, Replay(m, p, t), a)
  <1> DEFINE u == Append(t, a)
             T == ReplaysOf(m, p, t)
             U == ReplaysOf(m, p, u)
             S == {k \in 0 .. Len(t) : U[k] = T[k]}
  <1>1. u \in Seq(A) /\ Len(u) = Len(t) + 1 /\ Len(t) \in Nat /\ u[Len(t) + 1] = a /\ \A k \in 1 .. Len(t) : u[k] = t[k]
    OBVIOUS
  <1>2. Replay(m, p, <<>>) = ReplayStart(m, p)
    <2>1. Len(<<>>) = 0 /\ Len(<<>>) \in Nat
      OBVIOUS
    <2> QED BY <2>1, ReplaysAre DEF Replay
  <1> HIDE DEF u
  <1>3. /\ T[0] = U[0]
        /\ \A k \in 1 .. Len(t) : T[k] = ReplayStep(m, p, T[k - 1], t[k])
        /\ \A k \in 1 .. Len(u) : U[k] = ReplayStep(m, p, U[k - 1], u[k])
    <2>1. Len(t) \in Nat /\ Len(u) \in Nat
      BY <1>1
    <2> QED BY <2>1, ReplaysAre
  <1>4. Replay(m, p, t) = T[Len(t)] /\ Replay(m, p, u) = U[Len(u)]
    BY DEF Replay
  <1> HIDE DEF T, U
  <1>5. 0 \in S
    BY <1>1, <1>3
  <1>6. ASSUME NEW k \in 0 .. Len(t) - 1, k \in S PROVE k + 1 \in S
    <2>1. k + 1 \in 1 .. Len(t) /\ k + 1 \in 1 .. Len(u) /\ (k + 1) - 1 = k
      BY <1>1
    <2>2. T[k + 1] = ReplayStep(m, p, T[k], t[k + 1]) /\ U[k + 1] = ReplayStep(m, p, U[k], u[k + 1])
      BY <1>3, <2>1
    <2> QED BY <1>1, <1>6, <2>1, <2>2
  <1> HIDE DEF S
  <1>7. Len(t) \in S
    <2>1. \A k \in 0 .. Len(t) : k \in S
      BY <1>1, <1>5, <1>6, UpTo
    <2> QED BY <1>1, <2>1
  <1>8. U[Len(u)] = ReplayStep(m, p, U[Len(t)], a)
    <2>1. Len(t) + 1 \in 1 .. Len(u) /\ (Len(t) + 1) - 1 = Len(t)
      BY <1>1
    <2> QED BY <1>1, <1>3, <2>1
  <1> QED BY <1>2, <1>4, <1>7, <1>8 DEF S, u

\* Sequences of one domain are of one length.
LEMMA SameLength == ASSUME NEW i \in Nat, NEW j \in Nat, 1 .. i = 1 .. j PROVE i = j
  <1>1. ~(i < j)
    <2> SUFFICES ASSUME i < j PROVE FALSE
      OBVIOUS
    <2>1. j \in 1 .. j /\ j \notin 1 .. i
      OBVIOUS
    <2> QED BY <2>1
  <1>2. ~(j < i)
    <2> SUFFICES ASSUME j < i PROVE FALSE
      OBVIOUS
    <2>1. i \in 1 .. i /\ i \notin 1 .. j
      OBVIOUS
    <2> QED BY <2>1
  <1> QED BY <1>1, <1>2

\* Traces whose messages have the same ids are replayed alike.
LEMMA ReplayOfKey ==
    ASSUME NEW m, NEW p, NEW t \in TracesOf(m), NEW u \in TracesOf(m), TraceKey(m, t) = TraceKey(m, u)
    PROVE  Replay(m, p, t) = Replay(m, p, u)
  <1> DEFINE T == ReplaysOf(m, p, t)
             U == ReplaysOf(m, p, u)
             S == {k \in 0 .. Len(t) : U[k] = T[k]}
  <1>1. Len(t) \in Nat /\ Len(u) = Len(t) /\ \A k \in 1 .. Len(t) : m.id[t[k]] = m.id[u[k]]
    <2>1. DOMAIN t = 1 .. Len(t) /\ DOMAIN u = 1 .. Len(u) /\ Len(t) \in Nat /\ Len(u) \in Nat
      BY DEF TracesOf
    <2>2. DOMAIN TraceKey(m, t) = 1 .. Len(t) /\ DOMAIN TraceKey(m, u) = 1 .. Len(u)
      BY <2>1 DEF TraceKey
    <2>3. Len(u) = Len(t)
      BY <2>1, <2>2, SameLength
    <2>4. \A k \in 1 .. Len(t) : TraceKey(m, t)[k] = m.id[t[k]] /\ TraceKey(m, u)[k] = m.id[u[k]]
      BY <2>1, <2>3 DEF TraceKey
    <2> QED BY <2>1, <2>3, <2>4
  <1>2. /\ T[0] = U[0]
        /\ \A k \in 1 .. Len(t) : T[k] = ReplayStep(m, p, T[k - 1], t[k])
        /\ \A k \in 1 .. Len(t) : U[k] = ReplayStep(m, p, U[k - 1], u[k])
    BY <1>1, ReplaysAre
  <1>3. Replay(m, p, t) = T[Len(t)] /\ Replay(m, p, u) = U[Len(t)]
    BY <1>1 DEF Replay
  <1> HIDE DEF T, U
  <1>4. 0 \in S
    BY <1>1, <1>2
  <1>5. ASSUME NEW k \in 0 .. Len(t) - 1, k \in S PROVE k + 1 \in S
    <2>1. k + 1 \in 1 .. Len(t) /\ (k + 1) - 1 = k
      BY <1>1
    <2>2. \A r : AvailableAction(m, Last(r.models), t[k + 1]) = AvailableAction(m, Last(r.models), u[k + 1])
      BY <1>1, <2>1, AvailableSame
    <2>3. ReplayStep(m, p, T[k], t[k + 1]) = ReplayStep(m, p, T[k], u[k + 1])
      BY <2>2 DEF ReplayStep
    <2>4. T[k + 1] = ReplayStep(m, p, T[k], t[k + 1]) /\ U[k + 1] = ReplayStep(m, p, U[k], u[k + 1])
      BY <1>2, <2>1
    <2> QED BY <1>1, <1>5, <2>1, <2>3, <2>4
  <1> HIDE DEF S
  <1>6. Len(t) \in S
    <2>1. \A k \in 0 .. Len(t) : k \in S
      BY <1>1, <1>4, <1>5, UpTo
    <2> QED BY <1>1, <2>1
  <1> QED BY <1>3, <1>6 DEF S

\* What a replay is: a path of the machine from its initial model.
StepsOf(m) == {Transition(m, x, a) : x \in ModelsOf(m), a \in MessagesOf(m)}
IsReplay(m, r, n) ==
    /\ r.models \in Seq(ModelsOf(m)) /\ r.steps \in Seq(StepsOf(m))
    /\ Len(r.models) = Len(r.steps) + 1 /\ Len(r.steps) <= n
    /\ r.models[1] = m.initial
    /\ \A k \in DOMAIN r.steps : \E a \in ToSet(m.actions[r.models[k]]) :
          r.steps[k] = Transition(m, r.models[k], a) /\ r.models[k + 1] = m.update[<<r.models[k], a>>]

LEMMA ReplayTakes ==
    ASSUME NEW m, IsMachine(m), NEW n \in Nat, NEW r, IsReplay(m, r, n), NEW x, x = Last(r.models),
           NEW b \in ToSet(m.actions[x]), b \in MessagesOf(m),
           NEW z, z.models = Append(r.models, m.update[<<x, b>>]), z.steps = Append(r.steps, Transition(m, x, b))
    PROVE  IsReplay(m, z, n + 1)
  <1> DEFINE k == Len(r.steps)
             A == StepsOf(m)
             X == ModelsOf(m)
             y == m.update[<<x, b>>]
             step == Transition(m, x, b)
             ms == r.models
             ss == r.steps
  <1>1. ms \in Seq(X) /\ ss \in Seq(A) /\ k \in Nat /\ k <= n /\ Len(ms) = k + 1 /\ ms[1] = m.initial
    BY DEF IsReplay
  <1>2. x = ms[k + 1] /\ x \in X
    <2> HIDE DEF k, ms
    <2> QED BY <1>1 DEF Last, ms
  <1>3. y \in X /\ step \in A
    <2>1. <<x, b>> \in ModelsOf(m) \X MessagesOf(m) /\ m.update \in [ModelsOf(m) \X MessagesOf(m) -> ModelsOf(m)]
      BY <1>2, MachineIs
    <2>2. y \in X
      BY <2>1
    <2> QED BY <1>2, <2>2 DEF StepsOf
  <1>4. \A i \in 1 .. k : \E c \in ToSet(m.actions[ms[i]]) :
           ss[i] = Transition(m, ms[i], c) /\ ms[i + 1] = m.update[<<ms[i], c>>]
    <2>1. DOMAIN ss = 1 .. k
      BY <1>1
    <2> HIDE DEF k
    <2> QED BY <2>1 DEF IsReplay
  <1> HIDE DEF k, A, X, y, step, ms, ss
  <1>5. Len(ss) = k /\ z.models = Append(ms, y) /\ z.steps = Append(ss, step)
    BY DEF k, y, step, ms, ss
  <1>6. /\ z.models \in Seq(X) /\ Len(z.models) = k + 2 /\ z.models[k + 2] = y
        /\ \A i \in 1 .. k + 1 : z.models[i] = ms[i]
    BY <1>1, <1>3, <1>5
  <1>7. /\ z.steps \in Seq(A) /\ Len(z.steps) = k + 1 /\ z.steps[k + 1] = step
        /\ \A i \in 1 .. k : z.steps[i] = ss[i]
    BY <1>1, <1>3, <1>5
  <1>8. ASSUME NEW i \in DOMAIN z.steps
        PROVE  \E c \in ToSet(m.actions[z.models[i]]) :
                  z.steps[i] = Transition(m, z.models[i], c) /\ z.models[i + 1] = m.update[<<z.models[i], c>>]
    <2>1. i \in 1 .. k + 1
      BY <1>1, <1>7
    <2>2. CASE i = k + 1
      <3>1. z.models[i] = x /\ z.models[i + 1] = y /\ z.steps[i] = step
        BY <1>1, <1>2, <1>6, <1>7, <2>2
      <3> QED BY <3>1 DEF y, step
    <2>3. CASE i # k + 1
      <3>1. i \in 1 .. k /\ i \in 1 .. k + 1 /\ i + 1 \in 1 .. k + 1
        BY <1>1, <2>1, <2>3
      <3>2. z.models[i] = ms[i] /\ z.models[i + 1] = ms[i + 1] /\ z.steps[i] = ss[i]
        BY <1>6, <1>7, <3>1
      <3> QED BY <1>4, <3>1, <3>2
    <2> QED BY <2>2, <2>3
  <1>9. z.models[1] = m.initial /\ k + 1 <= n + 1 /\ k + 2 = (k + 1) + 1
    <2>1. 1 \in 1 .. k + 1
      BY <1>1
    <2>2. z.models[1] = ms[1]
      BY <1>6, <2>1
    <2> QED BY <1>1, <2>2
  <1>10. Len(z.models) = Len(z.steps) + 1 /\ Len(z.steps) <= n + 1
    BY <1>6, <1>7, <1>9
  <1> QED BY <1>6, <1>7, <1>8, <1>9, <1>10 DEF IsReplay, A, X

LEMMA ReplayStepIs ==
    ASSUME NEW m, IsMachine(m), NEW p, NEW n \in Nat, NEW r, IsReplay(m, r, n), NEW a
    PROVE  IsReplay(m, ReplayStep(m, p, r, a), n + 1)
  <1> DEFINE x == Last(r.models)
             z == ReplayStep(m, p, r, a)
  <1>1. x \in ModelsOf(m)
    <2>1. r.models \in Seq(ModelsOf(m)) /\ Len(r.steps) \in Nat /\ Len(r.models) = Len(r.steps) + 1
      BY DEF IsReplay
    <2> QED BY <2>1 DEF Last
  <1>2. CASE z.models = r.models /\ z.steps = r.steps
    <2>1. Len(r.steps) <= n => Len(r.steps) <= n + 1
      BY DEF IsReplay
    <2> HIDE DEF z
    <2> QED BY <1>2, <2>1 DEF IsReplay, z
  <1>3. \/ z.models = r.models /\ z.steps = r.steps
        \/ /\ AvailableAction(m, x, a) # <<>>
           /\ z.models = Append(r.models, m.update[<<x, AvailableAction(m, x, a)[1]>>])
           /\ z.steps = Append(r.steps, Transition(m, x, AvailableAction(m, x, a)[1]))
    <2>1. z = r \/ z = [r EXCEPT !.verdict = "unavailable"]
           \/ /\ AvailableAction(m, x, a) # <<>>
              /\ z.models = Append(r.models, m.update[<<x, AvailableAction(m, x, a)[1]>>])
              /\ z.steps = Append(r.steps, Transition(m, x, AvailableAction(m, x, a)[1]))
      BY DEF ReplayStep
    <2> HIDE DEF z, x
    <2>2. z = [r EXCEPT !.verdict = "unavailable"] => z.models = r.models /\ z.steps = r.steps
      OBVIOUS
    <2> QED BY <2>1, <2>2 DEF x, z
  <1>4. CASE /\ AvailableAction(m, x, a) # <<>>
             /\ z.models = Append(r.models, m.update[<<x, AvailableAction(m, x, a)[1]>>])
             /\ z.steps = Append(r.steps, Transition(m, x, AvailableAction(m, x, a)[1]))
    <2>1. PICK b \in ToSet(m.actions[x]) : b \in MessagesOf(m) /\ AvailableAction(m, x, a) = <<b>>
      BY <1>1, <1>4, AvailableIs
    <2>2. z.models = Append(r.models, m.update[<<x, b>>]) /\ z.steps = Append(r.steps, Transition(m, x, b))
      BY <1>4, <2>1
    <2> HIDE DEF z, x
    <2> QED BY <2>1, <2>2, ReplayTakes DEF x, z
  <1> QED BY <1>2, <1>3, <1>4

LEMMA ReplayIs ==
    ASSUME NEW m, IsMachine(m), NEW p, NEW t \in TracesOf(m)
    PROVE  IsReplay(m, Replay(m, p, t), Len(t))
  <1> DEFINE T == ReplaysOf(m, p, t)
             S == {k \in 0 .. Len(t) : IsReplay(m, T[k], k)}
  <1>1. Len(t) \in Nat
    BY DEF TracesOf
  <1>2. T[0] = ReplayStart(m, p) /\ \A k \in 1 .. Len(t) : T[k] = ReplayStep(m, p, T[k - 1], t[k])
    BY <1>1, ReplaysAre
  <1>3. Replay(m, p, t) = T[Len(t)]
    BY DEF Replay
  <1> HIDE DEF T
  <1>4. IsReplay(m, ReplayStart(m, p), 0)
    <2>1. m.initial \in ModelsOf(m)
      BY MachineIs
    <2>2. ReplayStart(m, p).models = <<m.initial>> /\ ReplayStart(m, p).steps = <<>>
      BY DEF ReplayStart
    <2>3. /\ <<m.initial>> \in Seq(ModelsOf(m)) /\ Len(<<m.initial>>) = 1 /\ <<m.initial>>[1] = m.initial
          /\ <<>> \in Seq(StepsOf(m)) /\ Len(<<>>) = 0 /\ DOMAIN <<>> = {}
      BY <2>1
    <2> QED BY <2>2, <2>3 DEF IsReplay
  <1>5. 0 \in S
    BY <1>1, <1>2, <1>4
  <1>6. ASSUME NEW k \in 0 .. Len(t) - 1, k \in S PROVE k + 1 \in S
    <2>1. k + 1 \in 1 .. Len(t) /\ (k + 1) - 1 = k /\ k \in Nat /\ k + 1 \in 0 .. Len(t)
      BY <1>1
    <2>2. T[k + 1] = ReplayStep(m, p, T[k], t[k + 1])
      BY <1>2, <2>1
    <2>3. IsReplay(m, T[k + 1], k + 1)
      BY <1>6, <2>1, <2>2, ReplayStepIs
    <2> QED BY <2>1, <2>3
  <1> HIDE DEF S
  <1>7. Len(t) \in S
    <2>1. \A k \in 0 .. Len(t) : k \in S
      BY <1>1, <1>5, <1>6, UpTo
    <2> QED BY <1>1, <2>1
  <1> QED BY <1>3, <1>7 DEF S

-----------------------------------------------------------------------------
\* A trace with a message fewer, ...
LEMMA RemovedIs ==
    ASSUME NEW A, NEW t \in Seq(A), NEW i \in 1 .. Len(t)
    PROVE  RemoveAt(t, i) \in Seq(A) /\ Len(RemoveAt(t, i)) = Len(t) - 1
  <1> DEFINE s == SubSeq(t, 1, i - 1)
             u == SubSeq(t, i + 1, Len(t))
  <1>1. s \in Seq(A) /\ Len(s) = i - 1
    OBVIOUS
  <1>2. u \in Seq(A) /\ Len(u) = Len(t) - i
    OBVIOUS
  <1> HIDE DEF s, u
  <1>3. s \o u \in Seq(A) /\ Len(s \o u) = Len(s) + Len(u)
    BY <1>1, <1>2
  <1>4. RemoveAt(t, i) = s \o u
    BY DEF RemoveAt, s, u
  <1>5. Len(t) \in Nat /\ i \in Nat
    OBVIOUS
  <1>6. Len(s) + Len(u) = Len(t) - 1
    BY <1>1, <1>2, <1>5
  <1> QED BY <1>3, <1>4, <1>6

\* ... and with another message at one place.
LEMMA ReplacedIs ==
    ASSUME NEW A, NEW t \in Seq(A), NEW i \in 1 .. Len(t), NEW b \in A
    PROVE  /\ ReplaceAt(t, i, b) \in Seq(A) /\ Len(ReplaceAt(t, i, b)) = Len(t)
           /\ \A k \in 1 .. Len(t) : ReplaceAt(t, i, b)[k] = IF k = i THEN b ELSE t[k]
  BY DEF ReplaceAt

\* The key of a trace is as long as the trace.
KeysOf(m) == Seq(Range(m.id))
LEMMA KeyIs ==
    ASSUME NEW m, NEW t \in TracesOf(m)
    PROVE  /\ TraceKey(m, t) \in KeysOf(m) /\ Len(TraceKey(m, t)) = Len(t)
           /\ \A k \in 1 .. Len(t) : TraceKey(m, t)[k] = m.id[t[k]]
  <1>1. DOMAIN t = 1 .. Len(t) /\ Len(t) \in Nat /\ \A k \in 1 .. Len(t) : t[k] \in DOMAIN m.id
    BY DEF TracesOf, MessagesOf
  <1>2. TraceKey(m, t) \in [1 .. Len(t) -> Range(m.id)]
    BY <1>1 DEF TraceKey, Range
  <1>3. TraceKey(m, t) \in Seq(Range(m.id)) /\ Len(TraceKey(m, t)) = Len(t)
    BY <1>1, <1>2
  <1> QED BY <1>1, <1>3 DEF KeysOf, TraceKey

\* Traces of one key are of one length and one in their ids.
LEMMA SameKey ==
    ASSUME NEW m, NEW t \in TracesOf(m), NEW u \in TracesOf(m), TraceKey(m, t) = TraceKey(m, u)
    PROVE  Len(t) = Len(u) /\ \A k \in 1 .. Len(t) : m.id[t[k]] = m.id[u[k]]
  BY KeyIs

LEMMA TracesUpToAre ==
    ASSUME NEW n \in Nat
    PROVE  TracesUpTo(n) = {t \in TracesOf(machine) : Len(t) <= n}
  <1>1. ASSUME NEW t \in TracesUpTo(n) PROVE t \in TracesOf(machine) /\ Len(t) <= n
    <2>1. PICK k \in 0 .. n : t \in [1 .. k -> Message]
      BY DEF TracesUpTo
    <2>2. t \in Seq(Message) /\ Len(t) = k
      BY <2>1
    <2> QED BY <2>2 DEF TracesOf, MessagesOf, Message
  <1>2. ASSUME NEW t \in TracesOf(machine), Len(t) <= n PROVE t \in TracesUpTo(n)
    <2>1. t \in Seq(Message)
      BY DEF TracesOf, MessagesOf, Message
    <2>2. t \in [1 .. Len(t) -> Message] /\ Len(t) \in 0 .. n
      BY <1>2, <2>1
    <2> QED BY <2>2 DEF TracesUpTo
  <1> QED BY <1>1, <1>2

-----------------------------------------------------------------------------
\* A search, typed.
JobsOf(m) ==
    [phase : JobPhases, property : ToSet(Properties) \cup {""}, original : TracesOf(m),
     current : TracesOf(m), visited : SUBSET KeysOf(m), evaluations : Nat, exhausted : BOOLEAN,
     index : Nat \ {0}, candidate : Nat \ {0}]

Stays(j, k) == k.property = j.property /\ k.original = j.original

LEMMA JobFields ==
    ASSUME NEW m, NEW j \in JobsOf(m)
    PROVE  /\ j.phase \in JobPhases /\ j.property \in ToSet(Properties) \cup {""}
           /\ j.original \in TracesOf(m) /\ j.current \in TracesOf(m) /\ j.visited \in SUBSET KeysOf(m)
           /\ j.evaluations \in Nat /\ j.exhausted \in BOOLEAN
           /\ j.index \in Nat \ {0} /\ j.candidate \in Nat \ {0}
           /\ Len(j.current) \in Nat /\ Len(j.original) \in Nat
  <1>1. j.original \in TracesOf(m) /\ j.current \in TracesOf(m)
    BY DEF JobsOf
  <1>2. Len(j.current) \in Nat /\ Len(j.original) \in Nat
    BY <1>1 DEF TracesOf
  <1> QED BY <1>1, <1>2 DEF JobsOf

\* Its steps, field by field: cut short, a candidate replayed, or gone on to another place.
Stopped(j, k) ==
    /\ Stays(j, k) /\ k.current = j.current /\ k.visited = j.visited /\ k.evaluations = j.evaluations
    /\ k.phase = "done" /\ k.exhausted = TRUE /\ k.index = j.index /\ k.candidate = j.candidate
    /\ j.evaluations >= ShrinkBudget
Tried(m, j, k, t, i, c) ==
    /\ Stays(j, k) /\ k.phase = j.phase /\ k.exhausted = j.exhausted
    /\ k.visited = j.visited \cup {TraceKey(m, t)} /\ k.evaluations = j.evaluations + 1
    /\ j.evaluations < ShrinkBudget
    /\ \/ Reproduces(m, j.property, t) /\ k.current = t /\ k.index = 1 /\ k.candidate = 1
       \/ ~Reproduces(m, j.property, t) /\ k.current = j.current /\ k.index = i /\ k.candidate = c
Moved(j, k, phase, i, c) ==
    /\ Stays(j, k) /\ k.current = j.current /\ k.visited = j.visited /\ k.evaluations = j.evaluations
    /\ k.exhausted = j.exhausted /\ k.phase = phase /\ k.index = i /\ k.candidate = c

\* What evaluating writes: first the candidate replayed, then the place to go on at.
Spent(j, k, keys, e) ==
    /\ Stays(j, k) /\ k.current = j.current /\ k.phase = j.phase /\ k.exhausted = j.exhausted
    /\ k.visited = keys /\ k.evaluations = e
Placed(j, k, t, i, c) ==
    /\ Stays(j, k) /\ k.current = t /\ k.phase = j.phase /\ k.exhausted = j.exhausted
    /\ k.visited = j.visited /\ k.evaluations = j.evaluations /\ k.index = i /\ k.candidate = c

DeleteMove(m, j, k) ==
    /\ j.phase = "delete"
    /\ \/ j.index > Len(j.current) /\ Moved(j, k, "message", 1, j.candidate)
       \/ /\ j.index <= Len(j.current)
          /\ \/ /\ TraceKey(m, RemoveAt(j.current, j.index)) \in j.visited
                /\ Moved(j, k, "delete", j.index + 1, j.candidate)
             \/ /\ TraceKey(m, RemoveAt(j.current, j.index)) \notin j.visited
                /\ Stopped(j, k) \/ Tried(m, j, k, RemoveAt(j.current, j.index), j.index + 1, 1)

SmallerOf(m, j) == m.shrink[j.current[j.index]]
OtherOf(m, j) == ReplaceAt(j.current, j.index, SmallerOf(m, j)[j.candidate])
MessageMove(m, j, k) ==
    /\ j.phase = "message"
    /\ \/ j.index > Len(j.current) /\ Moved(j, k, "done", j.index, j.candidate)
       \/ /\ j.index <= Len(j.current) /\ j.candidate > Len(SmallerOf(m, j))
          /\ Moved(j, k, "message", j.index + 1, 1)
       \/ /\ j.index <= Len(j.current) /\ j.candidate <= Len(SmallerOf(m, j))
          /\ \/ /\ \/ m.id[SmallerOf(m, j)[j.candidate]] = m.id[j.current[j.index]]
                   \/ TraceKey(m, OtherOf(m, j)) \in j.visited
                /\ Moved(j, k, "message", j.index, j.candidate + 1)
             \/ /\ m.id[SmallerOf(m, j)[j.candidate]] # m.id[j.current[j.index]]
                /\ TraceKey(m, OtherOf(m, j)) \notin j.visited
                /\ Stopped(j, k) \/ Tried(m, j, k, OtherOf(m, j), j.index, j.candidate + 1)

\* What is written of a search changes that and nothing else.
LEMMA MovedIs ==
    ASSUME NEW m, NEW j \in JobsOf(m), NEW phase \in JobPhases, NEW i \in Nat \ {0}, NEW c \in Nat \ {0}, NEW k,
           k = [j EXCEPT !.phase = phase, !.index = i, !.candidate = c]
    PROVE  k \in JobsOf(m) /\ Moved(j, k, phase, i, c)
  BY DEF JobsOf, Moved, Stays

LEMMA StoppedIs ==
    ASSUME NEW m, NEW j \in JobsOf(m), j.evaluations >= ShrinkBudget, NEW k,
           k = [j EXCEPT !.phase = "done", !.exhausted = TRUE]
    PROVE  k \in JobsOf(m) /\ Stopped(j, k)
  BY DEF JobsOf, JobPhases, Stopped, Stays

LEMMA SpentIs ==
    ASSUME NEW m, NEW j \in JobsOf(m), NEW keys \in SUBSET KeysOf(m), NEW e \in Nat, NEW k,
           k = [j EXCEPT !.visited = keys, !.evaluations = e]
    PROVE  k \in JobsOf(m) /\ Spent(j, k, keys, e)
  BY DEF JobsOf, Spent, Stays

LEMMA PlacedIs ==
    ASSUME NEW m, NEW j \in JobsOf(m), NEW i \in Nat \ {0}, NEW c \in Nat \ {0}, NEW t \in TracesOf(m), NEW k,
           k = [j EXCEPT !.current = t, !.index = i, !.candidate = c]
    PROVE  k \in JobsOf(m) /\ Placed(j, k, t, i, c)
  BY DEF JobsOf, Placed, Stays

\* An evaluation is one of these, ...
LEMMA EvaluateIs ==
    ASSUME NEW t \in TracesOf(machine), job \in JobsOf(machine), NEW o,
           o.index \in Nat \ {0}, o.candidate \in Nat \ {0}, Evaluate(t, o)
    PROVE  /\ job' \in JobsOf(machine)
           /\ Stopped(job, job') \/ Tried(machine, job, job', t, o.index, o.candidate)
  <1> DEFINE m == machine
             s == Spend(t)
             i == o.index
             c == o.candidate
             keys == job.visited \cup {TraceKey(m, t)}
  <1>1. keys \in SUBSET KeysOf(m)
    BY KeyIs, JobFields
  <1>2. s = [job EXCEPT !.visited = keys, !.evaluations = job.evaluations + 1]
    BY DEF Spend
  <1> DEFINE e == job.evaluations + 1
  <1>0. e \in Nat
    <2>1. job.evaluations \in Nat
      BY JobFields
    <2> QED BY <2>1
  <1> HIDE DEF s, keys, e
  <1>3. s \in JobsOf(m) /\ Spent(job, s, keys, e)
    BY <1>0, <1>1, <1>2, SpentIs DEF e
  <1>4. job.evaluations \in Nat /\ ShrinkBudget \in Nat /\ job.current \in TracesOf(m) /\ i \in Nat \ {0} /\ c \in Nat \ {0}
    BY ShrinkAssumption, JobFields
  <1>5. CASE job.evaluations >= ShrinkBudget
    <2>1. job' = [job EXCEPT !.phase = "done", !.exhausted = TRUE]
      BY <1>5 DEF Evaluate, Exhaust
    <2> QED BY <1>5, <2>1, StoppedIs
  <1>6. CASE ~(job.evaluations >= ShrinkBudget) /\ Fails(t)
    <2>1. job' = [s EXCEPT !.current = t, !.index = 1, !.candidate = 1]
      BY <1>6 DEF Evaluate, s
    <2>2. job.evaluations < ShrinkBudget /\ 1 \in Nat \ {0}
      BY <1>4, <1>6
    <2>3. job' \in JobsOf(m) /\ Placed(s, job', t, 1, 1)
      BY <1>3, <2>1, <2>2, PlacedIs
    <2> QED BY <1>3, <1>6, <2>2, <2>3 DEF Tried, Stays, Fails, Spent, Placed, keys, e
  <1>7. CASE ~(job.evaluations >= ShrinkBudget) /\ ~Fails(t)
    <2>1. job' = [s EXCEPT !.index = i, !.candidate = c]
      BY <1>7 DEF Evaluate, s
    <2>2. job' = [s EXCEPT !.current = s.current, !.index = i, !.candidate = c]
      BY <1>3, <2>1 DEF JobsOf
    <2>3. job.evaluations < ShrinkBudget
      BY <1>4, <1>7
    <2>4. job' \in JobsOf(m) /\ Placed(s, job', s.current, i, c)
      <3>1. s.current \in TracesOf(m)
        BY <1>3, JobFields
      <3> QED BY <1>3, <1>4, <2>2, <3>1, PlacedIs
    <2> QED BY <1>3, <1>7, <2>3, <2>4 DEF Tried, Stays, Fails, Spent, Placed, keys, e
  <1> QED BY <1>5, <1>6, <1>7

\* ... and so is every step.
LEMMA DeleteStepIs ==
    ASSUME IsMachine(machine), job \in JobsOf(machine), DeleteStep
    PROVE  job' \in JobsOf(machine) /\ DeleteMove(machine, job, job')
  <1> DEFINE m == machine
             s == RemoveAt(job.current, job.index)
  <1>1. /\ job.phase = "delete" /\ job.current \in TracesOf(m) /\ Len(job.current) \in Nat
        /\ job.index \in Nat \ {0} /\ job.candidate \in Nat \ {0}
    BY JobFields DEF DeleteStep
  <1>2. CASE job.index > Len(job.current)
    <2>1. job' = [job EXCEPT !.phase = "message", !.index = 1]
      BY <1>2 DEF DeleteStep
    <2>2. job' \in JobsOf(m) /\ Moved(job, job', "message", 1, job.candidate)
      <3>1. "message" \in JobPhases /\ 1 \in Nat \ {0}
        BY DEF JobPhases
      <3>2. job' = [job EXCEPT !.phase = "message", !.index = 1, !.candidate = job.candidate]
        BY <2>1, JobFields DEF JobsOf
      <3> QED BY <1>1, <3>1, <3>2, MovedIs
    <2> QED BY <1>1, <1>2, <2>2 DEF DeleteMove
  <1>3. CASE ~(job.index > Len(job.current)) /\ TraceKey(m, s) \in job.visited
    <2>1. job' = [job EXCEPT !.index = @ + 1]
      BY <1>3 DEF DeleteStep, Seen
    <2>2. job.index + 1 \in Nat \ {0} /\ job.index <= Len(job.current)
      BY <1>1, <1>3
    <2>3. job' \in JobsOf(m) /\ Moved(job, job', "delete", job.index + 1, job.candidate)
      <3>1. "delete" \in JobPhases
        BY DEF JobPhases
      <3>2. job' = [job EXCEPT !.phase = "delete", !.index = job.index + 1, !.candidate = job.candidate]
        BY <1>1, <2>1, JobFields DEF JobsOf
      <3> QED BY <1>1, <2>2, <3>1, <3>2, MovedIs
    <2> QED BY <1>1, <1>3, <2>2, <2>3 DEF DeleteMove
  <1>4. CASE ~(job.index > Len(job.current)) /\ TraceKey(m, s) \notin job.visited
    <2>1. Evaluate(s, NextIndex)
      BY <1>4 DEF DeleteStep, Seen
    <2>2. job.index \in 1 .. Len(job.current) /\ job.index <= Len(job.current)
      BY <1>1, <1>4
    <2>3. s \in TracesOf(m)
      BY <1>1, <2>2, RemovedIs DEF TracesOf
    <2>4. NextIndex.index = job.index + 1 /\ NextIndex.candidate = 1 /\ job.index + 1 \in Nat \ {0}
      BY <1>1 DEF NextIndex
    <2> HIDE DEF s
    <2>5. job' \in JobsOf(m) /\ (Stopped(job, job') \/ Tried(m, job, job', s, job.index + 1, 1))
      BY <2>1, <2>3, <2>4, EvaluateIs
    <2> QED BY <1>1, <1>4, <2>2, <2>5 DEF DeleteMove, s
  <1> QED BY <1>2, <1>3, <1>4

LEMMA MessageStepIs ==
    ASSUME IsMachine(machine), job \in JobsOf(machine), MessageStep
    PROVE  job' \in JobsOf(machine) /\ MessageMove(machine, job, job')
  <1> DEFINE m == machine
             smaller == SmallerOf(m, job)
             other == OtherOf(m, job)
             b == smaller[job.candidate]
             same == m.id[b] = m.id[job.current[job.index]] \/ TraceKey(m, other) \in job.visited
  <1>1. /\ job.phase = "message" /\ job.current \in TracesOf(m) /\ Len(job.current) \in Nat
        /\ job.index \in Nat \ {0} /\ job.candidate \in Nat \ {0}
    BY JobFields DEF MessageStep
  <1>2. CASE job.index > Len(job.current)
    <2>1. job' = [job EXCEPT !.phase = "done"]
      BY <1>2 DEF MessageStep
    <2>2. job' \in JobsOf(m) /\ Moved(job, job', "done", job.index, job.candidate)
      <3>1. "done" \in JobPhases
        BY DEF JobPhases
      <3>2. job' = [job EXCEPT !.phase = "done", !.index = job.index, !.candidate = job.candidate]
        BY <2>1, JobFields DEF JobsOf
      <3> QED BY <1>1, <3>1, <3>2, MovedIs
    <2> QED BY <1>1, <1>2, <2>2 DEF MessageMove
  <1>3. CASE job.index <= Len(job.current)
    <2>1. ~(job.index > Len(job.current)) /\ job.index \in 1 .. Len(job.current)
      BY <1>1, <1>3
    <2>2. job.current[job.index] \in MessagesOf(m)
      BY <1>1, <2>1 DEF TracesOf
    <2>3. smaller \in TracesOf(m)
      BY <2>2, MachineIs DEF SmallerOf
    <2>4. Len(smaller) \in Nat
      BY <2>3 DEF TracesOf
    <2>5. IF job.candidate > Len(smaller)
          THEN job' = [job EXCEPT !.index = @ + 1, !.candidate = 1]
          ELSE IF same THEN job' = [job EXCEPT !.candidate = @ + 1]
               ELSE Evaluate(other, NextCandidate)
      BY <2>1 DEF MessageStep, SmallerOf, OtherOf, Seen
    <2> HIDE DEF same, smaller, other
    <2>6. CASE job.candidate > Len(smaller)
      <3>1. job' \in JobsOf(m) /\ Moved(job, job', "message", job.index + 1, 1)
        <4>1. "message" \in JobPhases /\ job.index + 1 \in Nat \ {0} /\ 1 \in Nat \ {0}
          BY <1>1 DEF JobPhases
        <4>2. job' = [job EXCEPT !.phase = "message", !.index = job.index + 1, !.candidate = 1]
          BY <1>1, <2>5, <2>6, JobFields DEF JobsOf
        <4> QED BY <4>1, <4>2, MovedIs
      <3> QED BY <1>1, <1>3, <2>6, <3>1 DEF MessageMove, smaller
    <2>7. CASE ~(job.candidate > Len(smaller)) /\ same
      <3>1. job' = [job EXCEPT !.candidate = @ + 1]
        BY <2>5, <2>7
      <3>2. job' \in JobsOf(m) /\ Moved(job, job', "message", job.index, job.candidate + 1)
        <4>1. "message" \in JobPhases /\ job.candidate + 1 \in Nat \ {0}
          BY <1>1 DEF JobPhases
        <4>2. job' = [job EXCEPT !.phase = "message", !.index = job.index, !.candidate = job.candidate + 1]
          BY <1>1, <3>1, JobFields DEF JobsOf
        <4> QED BY <1>1, <4>1, <4>2, MovedIs
      <3>3. job.candidate <= Len(smaller)
        BY <1>1, <2>4, <2>7
      <3> QED BY <1>1, <1>3, <2>7, <3>2, <3>3 DEF MessageMove, smaller, same, other
    <2>8. CASE ~(job.candidate > Len(smaller)) /\ ~same
      <3>1. job.candidate <= Len(smaller) /\ job.candidate \in 1 .. Len(smaller)
        BY <1>1, <2>4, <2>8
      <3>2. b \in MessagesOf(m)
        BY <2>3, <3>1 DEF TracesOf
      <3>3. other \in TracesOf(m)
        BY <1>1, <2>1, <3>2, ReplacedIs DEF TracesOf, other, OtherOf, smaller
      <3>4. NextCandidate.index = job.index /\ NextCandidate.candidate = job.candidate + 1 /\ job.candidate + 1 \in Nat \ {0}
        BY <1>1 DEF NextCandidate
      <3>5. job' \in JobsOf(m) /\ (Stopped(job, job') \/ Tried(m, job, job', other, job.index, job.candidate + 1))
        BY <1>1, <2>5, <2>8, <3>3, <3>4, EvaluateIs
      <3> QED BY <1>1, <1>3, <2>8, <3>1, <3>5 DEF MessageMove, smaller, same, other
    <2> QED BY <2>6, <2>7, <2>8
  <1>4. job.index > Len(job.current) \/ job.index <= Len(job.current)
    BY <1>1
  <1> QED BY <1>2, <1>3, <1>4

-----------------------------------------------------------------------------
\* A measure of the ids that every smaller message lowers.
MeasuresOf(m) ==
    {f \in [Range(m.id) -> Nat] : \A a \in MessagesOf(m) : \A b \in ToSet(m.shrink[a]) :
        m.id[b] # m.id[a] => f[m.id[b]] < f[m.id[a]]}

\* The search keeps a counterexample; the traces it saw that fail are those it came
\* through, none of which is shorter or, by any measure, smaller anywhere than the one at hand.
JobTyped(m, j) ==
    /\ j \in JobsOf(m) /\ j.phase # "idle" /\ j.property \in ToSet(Properties)
    /\ Len(j.original) <= MaxDepth /\ Len(j.current) <= Len(j.original)
    /\ \A key \in j.visited : Len(key) <= Len(j.original)
    /\ j.evaluations <= ShrinkBudget /\ (j.exhausted => j.evaluations = ShrinkBudget /\ j.phase = "done")
    /\ j.index <= Len(j.current) + 1
    /\ j.phase = "delete" => j.candidate = 1
Keeps(m, j) == Reproduces(m, j.property, j.original) => Reproduces(m, j.property, j.current)
NotBelow(m, t, u) ==
    /\ Len(u) <= Len(t)
    /\ Len(t) = Len(u) => \A f \in MeasuresOf(m), i \in 1 .. Len(u) : f[m.id[u[i]]] <= f[m.id[t[i]]]
CameThrough(m, j) ==
    \A t \in TracesOf(m) :
        TraceKey(m, t) \in j.visited /\ Reproduces(m, j.property, t) => NotBelow(m, t, j.current)
\* The deletions, and the smaller messages, behind the place of the search were seen.
Deleted(m, j) ==
    j.phase = "delete" => \A i \in 1 .. j.index - 1 : TraceKey(m, RemoveAt(j.current, i)) \in j.visited
Told(m, j, i, b) ==
    m.id[b] = m.id[j.current[i]] \/ TraceKey(m, ReplaceAt(j.current, i, b)) \in j.visited
Behind(j, i, c) ==
    \/ j.phase = "message" /\ (i < j.index \/ (i = j.index /\ c < j.candidate))
    \/ j.phase = "done" /\ ~j.exhausted
Replaced(m, j) ==
    \A i \in 1 .. Len(j.current) : \A c \in 1 .. Len(m.shrink[j.current[i]]) :
        Behind(j, i, c) => Told(m, j, i, m.shrink[j.current[i]][c])

JobInv(m, j) == JobTyped(m, j) /\ Keeps(m, j) /\ CameThrough(m, j) /\ Deleted(m, j) /\ Replaced(m, j)

\* A trace is not below one of its own key, nor below what is not below a third, ...
LEMMA NotBelowSame ==
    ASSUME NEW m, NEW t \in TracesOf(m), NEW u \in TracesOf(m), TraceKey(m, t) = TraceKey(m, u)
    PROVE  NotBelow(m, t, u)
  <1>1. Len(t) = Len(u) /\ Len(t) \in Nat /\ \A k \in 1 .. Len(t) : m.id[t[k]] = m.id[u[k]]
    BY SameKey DEF TracesOf
  <1>2. ASSUME NEW f \in MeasuresOf(m), NEW i \in 1 .. Len(u) PROVE f[m.id[u[i]]] <= f[m.id[t[i]]]
    <2>1. u[i] \in DOMAIN m.id
      BY DEF TracesOf, MessagesOf
    <2>2. m.id[u[i]] \in Range(m.id)
      BY <2>1 DEF Range
    <2>3. f[m.id[u[i]]] \in Nat
      BY <2>2 DEF MeasuresOf
    <2> QED BY <1>1, <2>3
  <1> QED BY <1>1, <1>2 DEF NotBelow

LEMMA MeasureIs ==
    ASSUME NEW m, NEW f \in MeasuresOf(m), NEW t \in TracesOf(m), NEW i \in 1 .. Len(t)
    PROVE  f[m.id[t[i]]] \in Nat
  <1>1. t[i] \in DOMAIN m.id
    BY DEF TracesOf, MessagesOf
  <1>2. m.id[t[i]] \in Range(m.id)
    BY <1>1 DEF Range
  <1> QED BY <1>2 DEF MeasuresOf

LEMMA NotBelowOnward ==
    ASSUME NEW m, NEW t \in TracesOf(m), NEW u \in TracesOf(m), NEW w \in TracesOf(m),
           NotBelow(m, t, u), NotBelow(m, u, w)
    PROVE  NotBelow(m, t, w)
  <1>1. Len(t) \in Nat /\ Len(u) \in Nat /\ Len(w) \in Nat /\ Len(w) <= Len(u) /\ Len(u) <= Len(t)
    BY DEF NotBelow, TracesOf
  <1>2. ASSUME Len(t) = Len(w), NEW f \in MeasuresOf(m), NEW i \in 1 .. Len(w)
        PROVE  f[m.id[w[i]]] <= f[m.id[t[i]]]
    <2>1. Len(u) = Len(w) /\ Len(t) = Len(u) /\ i \in 1 .. Len(u) /\ i \in 1 .. Len(t)
      BY <1>1, <1>2
    <2>2. f[m.id[w[i]]] <= f[m.id[u[i]]] /\ f[m.id[u[i]]] <= f[m.id[t[i]]]
      BY <2>1 DEF NotBelow
    <2>3. f[m.id[w[i]]] \in Nat /\ f[m.id[u[i]]] \in Nat /\ f[m.id[t[i]]] \in Nat
      BY <2>1, MeasureIs
    <2> QED BY <2>2, <2>3
  <1> QED BY <1>1, <1>2 DEF NotBelow

\* ... nor below one with a message fewer, or with a smaller one somewhere.
LEMMA NotBelowRemoved ==
    ASSUME NEW m, NEW t \in TracesOf(m), NEW i \in 1 .. Len(t)
    PROVE  NotBelow(m, t, RemoveAt(t, i)) /\ RemoveAt(t, i) \in TracesOf(m)
  <1>1. RemoveAt(t, i) \in TracesOf(m) /\ Len(RemoveAt(t, i)) = Len(t) - 1 /\ Len(t) \in Nat
    BY RemovedIs DEF TracesOf
  <1> QED BY <1>1 DEF NotBelow

LEMMA NotBelowReplaced ==
    ASSUME NEW m, IsMachine(m), NEW t \in TracesOf(m), NEW i \in 1 .. Len(t), NEW b \in ToSet(m.shrink[t[i]]),
           m.id[b] # m.id[t[i]]
    PROVE  /\ b \in MessagesOf(m) /\ ReplaceAt(t, i, b) \in TracesOf(m) /\ Len(ReplaceAt(t, i, b)) = Len(t)
           /\ ReplaceAt(t, i, b)[i] = b
           /\ NotBelow(m, t, ReplaceAt(t, i, b))
           /\ \A f \in MeasuresOf(m) : f[m.id[b]] < f[m.id[t[i]]]
  <1> DEFINE u == ReplaceAt(t, i, b)
  <1>1. t[i] \in MessagesOf(m) /\ Len(t) \in Nat
    BY DEF TracesOf
  <1>2. m.shrink[t[i]] \in TracesOf(m)
    BY <1>1, MachineIs
  <1>3. b \in MessagesOf(m)
    <2> DEFINE s == m.shrink[t[i]]
    <2>1. s \in Seq(MessagesOf(m)) /\ b \in ToSet(s)
      BY <1>2 DEF TracesOf
    <2> HIDE DEF s
    <2> QED BY <2>1 DEF ToSet
  <1>4. u \in TracesOf(m) /\ Len(u) = Len(t) /\ \A k \in 1 .. Len(t) : u[k] = IF k = i THEN b ELSE t[k]
    BY <1>3, ReplacedIs DEF TracesOf
  <1>5. \A f \in MeasuresOf(m) : f[m.id[b]] < f[m.id[t[i]]]
    BY <1>1 DEF MeasuresOf
  <1> HIDE DEF u
  <1>6. u[i] = b
    BY <1>4
  <1>7. ASSUME NEW f \in MeasuresOf(m), NEW k \in 1 .. Len(u) PROVE f[m.id[u[k]]] <= f[m.id[t[k]]]
    <2>1. f[m.id[u[k]]] \in Nat /\ f[m.id[t[k]]] \in Nat
      BY <1>4, MeasureIs
    <2>2. CASE k = i
      <3>1. f[m.id[u[k]]] < f[m.id[t[k]]]
        BY <1>5, <1>6, <2>2
      <3> QED BY <2>1, <3>1
    <2>3. CASE k # i
      <3>1. u[k] = t[k]
        BY <1>4, <2>3
      <3> QED BY <2>1, <3>1
    <2> QED BY <2>2, <2>3
  <1>8. NotBelow(m, t, u)
    BY <1>1, <1>4, <1>7 DEF NotBelow
  <1> QED BY <1>3, <1>4, <1>5, <1>6, <1>8 DEF u

\* A search begins so.
LEMMA IdleJobIs == ASSUME NEW m PROVE IdleJob \in JobsOf(m)
  <1>1. <<>> \in TracesOf(m)
    BY DEF TracesOf
  <1> QED BY <1>1 DEF IdleJob, JobsOf, JobPhases

LEMMA StartedIs ==
    ASSUME NEW m, NEW j \in JobsOf(m), NEW p \in ToSet(Properties), NEW t \in TracesOf(m),
           NEW keys \in SUBSET KeysOf(m), NEW k,
           k = [j EXCEPT !.phase = "delete", !.property = p, !.original = t, !.current = t, !.visited = keys]
    PROVE  k \in JobsOf(m)
  BY DEF JobsOf, JobPhases

LEMMA JobBegins ==
    ASSUME IsMachine(machine), NEW p \in ToSet(Properties), NEW t \in TracesOf(machine), Len(t) <= MaxDepth
    PROVE  JobInv(machine, StartJob(p, t))
  <1> DEFINE m == machine
             j == StartJob(p, t)
  <1>1. /\ j.phase = "delete" /\ j.property = p /\ j.original = t /\ j.current = t /\ j.visited = {TraceKey(m, t)}
        /\ j.evaluations = 0 /\ j.exhausted = FALSE /\ j.index = 1 /\ j.candidate = 1
    BY DEF StartJob, IdleJob
  <1>2. j \in JobsOf(m)
    <2>1. {TraceKey(m, t)} \in SUBSET KeysOf(m)
      BY KeyIs
    <2>2. j = [IdleJob EXCEPT !.phase = "delete", !.property = p, !.original = t, !.current = t,
                              !.visited = {TraceKey(m, t)}]
      BY DEF StartJob
    <2> HIDE DEF j
    <2> QED BY <2>1, <2>2, IdleJobIs, StartedIs
  <1> HIDE DEF j
  <1>3. Len(t) \in Nat /\ Len(TraceKey(m, t)) = Len(t) /\ ShrinkBudget \in Nat /\ 0 <= ShrinkBudget
    BY KeyIs, ShrinkAssumption DEF TracesOf
  <1>4. JobTyped(m, j)
    BY <1>1, <1>2, <1>3 DEF JobTyped
  <1>5. Keeps(m, j)
    BY <1>1 DEF Keeps
  <1>6. CameThrough(m, j)
    BY <1>1, NotBelowSame DEF CameThrough
  <1>7. Deleted(m, j)
    BY <1>1 DEF Deleted
  <1>8. Replaced(m, j)
    BY <1>1 DEF Replaced, Behind
  <1> QED BY <1>4, <1>5, <1>6, <1>7, <1>8 DEF JobInv, j

\* A candidate replayed: it is adopted where it fails.
LEMMA TriedKeeps ==
    ASSUME NEW m, IsMachine(m), NEW j, JobInv(m, j), NEW k \in JobsOf(m), NEW t \in TracesOf(m), NEW i \in Nat, NEW c \in Nat,
           NotBelow(m, j.current, t), i <= Len(j.current) + 1, Tried(m, j, k, t, i, c), j.phase # "done",
           k.phase = "delete" => c = 1
    PROVE  JobTyped(m, k) /\ Keeps(m, k) /\ CameThrough(m, k)
  <1>1. /\ j \in JobsOf(m) /\ j.current \in TracesOf(m) /\ Len(j.current) \in Nat /\ Len(j.original) \in Nat
        /\ j.evaluations \in Nat /\ ShrinkBudget \in Nat /\ Len(t) \in Nat
    <2>1. j \in JobsOf(m)
      BY DEF JobInv, JobTyped
    <2>2. ShrinkBudget \in Nat /\ Len(t) \in Nat
      BY ShrinkAssumption DEF TracesOf
    <2> QED BY <2>1, <2>2, JobFields
  <1>2. /\ Stays(j, k) /\ k.phase = j.phase /\ k.exhausted = j.exhausted
        /\ k.visited = j.visited \cup {TraceKey(m, t)} /\ k.evaluations = j.evaluations + 1
        /\ j.evaluations < ShrinkBudget
    BY DEF Tried
  <1>3. \/ Reproduces(m, j.property, t) /\ k.current = t /\ k.index = 1
        \/ ~Reproduces(m, j.property, t) /\ k.current = j.current /\ k.index = i
    BY DEF Tried
  <1>4. Len(t) <= Len(j.current)
    BY DEF NotBelow
  <1>5. JobTyped(m, k)
    <2>1. ~j.exhausted
      BY DEF JobInv, JobTyped
    <2>2. Len(k.current) <= Len(j.current) /\ k.index <= Len(k.current) + 1
      BY <1>1, <1>3, <1>4
    <2>3. \A key \in k.visited : Len(key) <= Len(k.original)
      <3>1. Len(TraceKey(m, t)) = Len(t)
        BY KeyIs
      <3> QED BY <1>1, <1>2, <1>4, <3>1 DEF JobInv, JobTyped, Stays
    <2>4. k.evaluations <= ShrinkBudget
      BY <1>1, <1>2
    <2>5. k.phase = "delete" => k.candidate = 1
      BY DEF Tried
    <2>6. Len(k.current) \in Nat
      BY JobFields
    <2> QED BY <1>1, <1>2, <2>1, <2>2, <2>3, <2>4, <2>5, <2>6 DEF JobInv, JobTyped, Stays
  <1>6. Keeps(m, k)
    BY <1>2, <1>3 DEF JobInv, Keeps, Stays
  <1>7. ASSUME NEW u \in TracesOf(m), TraceKey(m, u) \in k.visited, Reproduces(m, k.property, u)
        PROVE  NotBelow(m, u, k.current)
    <2>1. k.property = j.property
      BY <1>2 DEF Stays
    <2>2. CASE TraceKey(m, u) \in j.visited
      <3>1. NotBelow(m, u, j.current)
        BY <1>7, <2>1, <2>2 DEF JobInv, CameThrough
      <3> QED BY <1>1, <1>3, <3>1, NotBelowOnward
    <2>3. CASE TraceKey(m, u) = TraceKey(m, t)
      <3>1. Reproduces(m, j.property, t)
        BY <1>7, <2>1, <2>3, ReplayOfKey DEF Reproduces
      <3> QED BY <1>3, <2>3, <3>1, NotBelowSame
    <2> QED BY <1>2, <1>7, <2>2, <2>3
  <1> QED BY <1>5, <1>6, <1>7 DEF CameThrough

\* Where no candidate is replayed the trace at hand and the traces seen stay.
LEMMA QuietKeeps ==
    ASSUME NEW m, NEW j, JobInv(m, j), NEW k \in JobsOf(m), Stays(j, k), k.current = j.current,
           k.visited = j.visited, k.evaluations = j.evaluations, k.phase # "idle",
           k.exhausted => k.evaluations = ShrinkBudget /\ k.phase = "done",
           k.index <= Len(k.current) + 1, k.phase = "delete" => k.candidate = 1
    PROVE  JobTyped(m, k) /\ Keeps(m, k) /\ CameThrough(m, k)
  BY DEF JobInv, JobTyped, Keeps, CameThrough, Stays

\* The deletion loop.
LEMMA DeleteKeeps ==
    ASSUME NEW m, IsMachine(m), NEW j, JobInv(m, j), NEW k \in JobsOf(m), DeleteMove(m, j, k)
    PROVE  JobInv(m, k)
  <1> DEFINE s == RemoveAt(j.current, j.index)
  <1>1. /\ j \in JobsOf(m) /\ j.phase = "delete" /\ ~j.exhausted /\ j.candidate = 1 /\ j.index <= Len(j.current) + 1
        /\ j.evaluations <= ShrinkBudget
    BY DEF JobInv, JobTyped, DeleteMove
  <1>2. /\ j.current \in TracesOf(m) /\ Len(j.current) \in Nat /\ j.index \in Nat \ {0}
        /\ j.evaluations \in Nat /\ ShrinkBudget \in Nat
    BY <1>1, JobFields, ShrinkAssumption
  <1>3. \A i \in 1 .. j.index - 1 : TraceKey(m, RemoveAt(j.current, i)) \in j.visited
    BY <1>1 DEF JobInv, Deleted
  <1>4. CASE j.index > Len(j.current) /\ Moved(j, k, "message", 1, j.candidate)
    <2>1. /\ Stays(j, k) /\ k.current = j.current /\ k.visited = j.visited /\ k.evaluations = j.evaluations
          /\ k.phase = "message" /\ k.exhausted = j.exhausted /\ k.index = 1 /\ k.candidate = 1
      BY <1>1, <1>4 DEF Moved
    <2>2. JobTyped(m, k) /\ Keeps(m, k) /\ CameThrough(m, k)
      <3>1. k.index <= Len(k.current) + 1
        BY <1>2, <2>1
      <3> QED BY <1>1, <2>1, <3>1, QuietKeeps
    <2>3. Deleted(m, k)
      BY <2>1 DEF Deleted
    <2>4. Replaced(m, k)
      BY <2>1 DEF Replaced, Behind
    <2> QED BY <2>2, <2>3, <2>4 DEF JobInv
  <1>5. CASE /\ j.index <= Len(j.current) /\ TraceKey(m, s) \in j.visited
             /\ Moved(j, k, "delete", j.index + 1, j.candidate)
    <2>1. /\ Stays(j, k) /\ k.current = j.current /\ k.visited = j.visited /\ k.evaluations = j.evaluations
          /\ k.phase = "delete" /\ k.exhausted = j.exhausted /\ k.index = j.index + 1 /\ k.candidate = 1
      BY <1>1, <1>5 DEF Moved
    <2>2. JobTyped(m, k) /\ Keeps(m, k) /\ CameThrough(m, k)
      <3>1. k.index <= Len(k.current) + 1
        BY <1>2, <1>5, <2>1
      <3> QED BY <1>1, <2>1, <3>1, QuietKeeps
    <2>3. ASSUME NEW i \in 1 .. k.index - 1 PROVE TraceKey(m, RemoveAt(k.current, i)) \in k.visited
      <3>1. i = j.index \/ i \in 1 .. j.index - 1
        BY <1>2, <2>1
      <3> QED BY <1>3, <1>5, <2>1, <3>1
    <2>4. Replaced(m, k)
      BY <2>1 DEF Replaced, Behind
    <2> QED BY <2>2, <2>3, <2>4 DEF JobInv, Deleted
  <1>6. CASE Stopped(j, k)
    <2>1. /\ Stays(j, k) /\ k.current = j.current /\ k.visited = j.visited /\ k.evaluations = j.evaluations
          /\ k.phase = "done" /\ k.exhausted = TRUE /\ k.index = j.index /\ k.candidate = j.candidate
          /\ k.evaluations = ShrinkBudget
      BY <1>1, <1>2, <1>6 DEF Stopped
    <2>2. JobTyped(m, k) /\ Keeps(m, k) /\ CameThrough(m, k)
      BY <1>1, <2>1, QuietKeeps
    <2> QED BY <2>1, <2>2 DEF JobInv, Deleted, Replaced, Behind
  <1>7. CASE j.index <= Len(j.current) /\ Tried(m, j, k, s, j.index + 1, 1)
    <2>1. j.index \in 1 .. Len(j.current) /\ j.index + 1 \in Nat /\ j.index + 1 <= Len(j.current) + 1
      BY <1>2, <1>7
    <2>2. NotBelow(m, j.current, s) /\ s \in TracesOf(m) /\ Len(s) \in Nat
      BY <1>2, <2>1, NotBelowRemoved DEF TracesOf
    <2>3. k.phase = "delete" /\ k.visited = j.visited \cup {TraceKey(m, s)}
      BY <1>1, <1>7 DEF Tried
    <2>4. JobTyped(m, k) /\ Keeps(m, k) /\ CameThrough(m, k)
      <3> HIDE DEF s
      <3> QED BY <1>1, <1>7, <2>1, <2>2, TriedKeeps
    <2>5. \/ k.current = s /\ k.index = 1
          \/ k.current = j.current /\ k.index = j.index + 1
      BY <1>7 DEF Tried
    <2>6. ASSUME NEW i \in 1 .. k.index - 1 PROVE TraceKey(m, RemoveAt(k.current, i)) \in k.visited
      <3>1. k.index # 1
        OBVIOUS
      <3>2. k.current = j.current /\ k.index = j.index + 1
        BY <2>5, <3>1
      <3>3. i = j.index \/ i \in 1 .. j.index - 1
        BY <1>2, <3>2
      <3> QED BY <1>3, <2>3, <3>2, <3>3
    <2>7. Replaced(m, k)
      BY <2>3 DEF Replaced, Behind
    <2> QED BY <2>4, <2>6, <2>7 DEF JobInv, Deleted
  <1> QED BY <1>4, <1>5, <1>6, <1>7 DEF DeleteMove

\* The message loop.
LEMMA MessageKeeps ==
    ASSUME NEW m, IsMachine(m), NEW j, JobInv(m, j), NEW k \in JobsOf(m), MessageMove(m, j, k)
    PROVE  JobInv(m, k)
  <1> DEFINE smaller(i) == m.shrink[j.current[i]]
             b == SmallerOf(m, j)[j.candidate]
             other == OtherOf(m, j)
  <1>1. /\ j \in JobsOf(m) /\ j.phase = "message" /\ ~j.exhausted /\ j.index <= Len(j.current) + 1
        /\ j.evaluations <= ShrinkBudget
    BY DEF JobInv, JobTyped, MessageMove
  <1>2. /\ j.current \in TracesOf(m) /\ Len(j.current) \in Nat /\ j.index \in Nat \ {0} /\ j.candidate \in Nat \ {0}
        /\ j.evaluations \in Nat /\ ShrinkBudget \in Nat
    BY <1>1, JobFields, ShrinkAssumption
  <1>3. \A i \in 1 .. Len(j.current) : smaller(i) \in TracesOf(m) /\ Len(smaller(i)) \in Nat
    <2>1. \A i \in 1 .. Len(j.current) : j.current[i] \in MessagesOf(m)
      BY <1>2 DEF TracesOf
    <2>2. \A a \in MessagesOf(m) : m.shrink[a] \in TracesOf(m)
      BY MachineIs
    <2> QED BY <2>1, <2>2 DEF TracesOf
  <1>4. \A i \in 1 .. Len(j.current) : \A c \in 1 .. Len(smaller(i)) :
           i < j.index \/ (i = j.index /\ c < j.candidate) => Told(m, j, i, smaller(i)[c])
    <2>1. Replaced(m, j)
      BY DEF JobInv
    <2> SUFFICES ASSUME NEW i \in 1 .. Len(j.current), NEW c \in 1 .. Len(smaller(i)),
                        i < j.index \/ (i = j.index /\ c < j.candidate)
                 PROVE  Told(m, j, i, smaller(i)[c])
      OBVIOUS
    <2> QED BY <1>1, <2>1 DEF Replaced, Behind
  <1> HIDE DEF smaller
  <1>5. CASE j.index > Len(j.current) /\ Moved(j, k, "done", j.index, j.candidate)
    <2>1. /\ Stays(j, k) /\ k.current = j.current /\ k.visited = j.visited /\ k.evaluations = j.evaluations
          /\ k.phase = "done" /\ k.exhausted = j.exhausted /\ k.index = j.index
      BY <1>1, <1>5 DEF Moved
    <2>2. JobTyped(m, k) /\ Keeps(m, k) /\ CameThrough(m, k)
      BY <1>1, <2>1, QuietKeeps
    <2>3. \A i \in 1 .. Len(j.current) : i < j.index
      BY <1>2, <1>5
    <2>4. ASSUME NEW i \in 1 .. Len(k.current), NEW c \in 1 .. Len(m.shrink[k.current[i]])
          PROVE  Told(m, k, i, m.shrink[k.current[i]][c])
      <3>1. i \in 1 .. Len(j.current) /\ c \in 1 .. Len(smaller(i)) /\ m.shrink[k.current[i]] = smaller(i)
        BY <2>1 DEF smaller
      <3>2. Told(m, j, i, smaller(i)[c])
        BY <1>4, <2>3, <3>1
      <3> QED BY <2>1, <3>1, <3>2 DEF Told
    <2>5. Replaced(m, k)
      BY <2>4 DEF Replaced, Behind
    <2> QED BY <2>1, <2>2, <2>5 DEF JobInv, Deleted
  <1>6. CASE /\ j.index <= Len(j.current) /\ j.candidate > Len(smaller(j.index))
             /\ Moved(j, k, "message", j.index + 1, 1)
    <2>1. /\ Stays(j, k) /\ k.current = j.current /\ k.visited = j.visited /\ k.evaluations = j.evaluations
          /\ k.phase = "message" /\ k.exhausted = j.exhausted /\ k.index = j.index + 1 /\ k.candidate = 1
      BY <1>1, <1>6 DEF Moved
    <2>2. JobTyped(m, k) /\ Keeps(m, k) /\ CameThrough(m, k)
      <3>1. k.index <= Len(k.current) + 1
        BY <1>2, <1>6, <2>1
      <3> QED BY <1>1, <2>1, <3>1, QuietKeeps
    <2>3. ASSUME NEW i \in 1 .. Len(j.current), NEW c \in 1 .. Len(smaller(i)),
                 i < j.index + 1 \/ (i = j.index + 1 /\ c < 1)
          PROVE  Told(m, j, i, smaller(i)[c])
      <3>1. Len(smaller(i)) \in Nat
        BY <1>3
      <3>2. i < j.index \/ (i = j.index /\ c < j.candidate)
        BY <1>2, <1>6, <2>3, <3>1
      <3> QED BY <1>4, <3>2
    <2>4. Replaced(m, k)
      <3>1. ASSUME NEW i \in 1 .. Len(k.current), NEW c \in 1 .. Len(m.shrink[k.current[i]]), Behind(k, i, c)
            PROVE  Told(m, k, i, m.shrink[k.current[i]][c])
        <4>1. i \in 1 .. Len(j.current) /\ c \in 1 .. Len(smaller(i))
          BY <2>1 DEF smaller
        <4>2. i < j.index + 1 \/ (i = j.index + 1 /\ c < 1)
          BY <2>1, <3>1 DEF Behind
        <4>3. Told(m, j, i, smaller(i)[c])
          BY <2>3, <4>1, <4>2
        <4> QED BY <2>1, <4>3 DEF Told, smaller
      <3> QED BY <3>1 DEF Replaced
    <2> QED BY <2>1, <2>2, <2>4 DEF JobInv, Deleted
  <1>7. CASE /\ j.index <= Len(j.current) /\ j.candidate <= Len(smaller(j.index))
             /\ m.id[b] = m.id[j.current[j.index]] \/ TraceKey(m, other) \in j.visited
             /\ Moved(j, k, "message", j.index, j.candidate + 1)
    <2>1. /\ Stays(j, k) /\ k.current = j.current /\ k.visited = j.visited /\ k.evaluations = j.evaluations
          /\ k.phase = "message" /\ k.exhausted = j.exhausted /\ k.index = j.index /\ k.candidate = j.candidate + 1
      BY <1>1, <1>7 DEF Moved
    <2>2. JobTyped(m, k) /\ Keeps(m, k) /\ CameThrough(m, k)
      BY <1>1, <2>1, QuietKeeps
    <2>3. ASSUME NEW i \in 1 .. Len(j.current), NEW c \in 1 .. Len(smaller(i)),
                 i < j.index \/ (i = j.index /\ c < j.candidate + 1)
          PROVE  Told(m, j, i, smaller(i)[c])
      <3>1. CASE i < j.index \/ (i = j.index /\ c < j.candidate)
        BY <1>4, <3>1
      <3>2. CASE i = j.index /\ c = j.candidate
        BY <1>7, <3>2 DEF Told, SmallerOf, OtherOf, smaller
      <3>3. c \in Nat
        BY <1>3
      <3>4. c < j.candidate + 1 => c < j.candidate \/ c = j.candidate
        BY <1>2, <3>3
      <3> QED BY <2>3, <3>1, <3>2, <3>4
    <2>4. Replaced(m, k)
      <3>1. ASSUME NEW i \in 1 .. Len(k.current), NEW c \in 1 .. Len(m.shrink[k.current[i]]), Behind(k, i, c)
            PROVE  Told(m, k, i, m.shrink[k.current[i]][c])
        <4>1. i \in 1 .. Len(j.current) /\ c \in 1 .. Len(smaller(i))
          BY <2>1 DEF smaller
        <4>2. i < j.index \/ (i = j.index /\ c < j.candidate + 1)
          BY <2>1, <3>1 DEF Behind
        <4>3. Told(m, j, i, smaller(i)[c])
          BY <2>3, <4>1, <4>2
        <4> QED BY <2>1, <4>3 DEF Told, smaller
      <3> QED BY <3>1 DEF Replaced
    <2> QED BY <2>1, <2>2, <2>4 DEF JobInv, Deleted
  <1>8. CASE Stopped(j, k)
    <2>1. /\ Stays(j, k) /\ k.current = j.current /\ k.visited = j.visited /\ k.evaluations = j.evaluations
          /\ k.phase = "done" /\ k.exhausted = TRUE /\ k.index = j.index /\ k.candidate = j.candidate
          /\ k.evaluations = ShrinkBudget
      BY <1>1, <1>2, <1>8 DEF Stopped
    <2>2. JobTyped(m, k) /\ Keeps(m, k) /\ CameThrough(m, k)
      BY <1>1, <2>1, QuietKeeps
    <2> QED BY <2>1, <2>2 DEF JobInv, Deleted, Replaced, Behind
  <1>9. CASE /\ j.index <= Len(j.current) /\ j.candidate <= Len(smaller(j.index))
             /\ m.id[b] # m.id[j.current[j.index]]
             /\ Tried(m, j, k, other, j.index, j.candidate + 1)
    <2>1. j.index \in 1 .. Len(j.current) /\ j.index \in Nat /\ j.candidate + 1 \in Nat
      BY <1>2, <1>9
    <2>2. b \in ToSet(m.shrink[j.current[j.index]])
      <3> DEFINE z == smaller(j.index)
      <3>1. DOMAIN z = 1 .. Len(z) /\ j.candidate \in 1 .. Len(z)
        BY <1>2, <1>3, <1>9, <2>1 DEF TracesOf
      <3>2. b = z[j.candidate]
        BY DEF SmallerOf, smaller
      <3>3. m.shrink[j.current[j.index]] = z
        BY DEF smaller
      <3> HIDE DEF z
      <3> QED BY <3>1, <3>2, <3>3 DEF ToSet
    <2>3. NotBelow(m, j.current, other) /\ other \in TracesOf(m)
      BY <1>2, <1>9, <2>1, <2>2, NotBelowReplaced DEF OtherOf
    <2>4. k.phase = "message" /\ k.visited = j.visited \cup {TraceKey(m, other)}
      BY <1>1, <1>9 DEF Tried
    <2>5. \/ k.current = other /\ k.index = 1 /\ k.candidate = 1
          \/ k.current = j.current /\ k.index = j.index /\ k.candidate = j.candidate + 1
      BY <1>9 DEF Tried
    <2>6. JobTyped(m, k) /\ Keeps(m, k) /\ CameThrough(m, k)
      <3> HIDE DEF other
      <3> QED BY <1>1, <1>9, <2>1, <2>3, <2>4, TriedKeeps
    <2>7. ASSUME NEW i \in 1 .. Len(k.current), NEW c \in 1 .. Len(m.shrink[k.current[i]]),
                 i < k.index \/ (i = k.index /\ c < k.candidate)
          PROVE  Told(m, k, i, m.shrink[k.current[i]][c])
      <3>1. Len(k.current) \in Nat
        BY JobFields
      <3>2. k.current = j.current /\ k.index = j.index /\ k.candidate = j.candidate + 1
        <4>1. m.shrink[k.current[i]] \in TracesOf(m)
          <5>1. k.current \in TracesOf(m)
            BY JobFields
          <5>2. k.current[i] \in MessagesOf(m)
            BY <5>1 DEF TracesOf
          <5> QED BY <5>2, MachineIs
        <4>2. Len(m.shrink[k.current[i]]) \in Nat
          BY <4>1 DEF TracesOf
        <4>3. ~(k.index = 1 /\ k.candidate = 1)
          BY <2>7, <3>1, <4>2
        <4> QED BY <2>5, <4>3
      <3>3. i \in 1 .. Len(j.current) /\ c \in 1 .. Len(smaller(i)) /\ m.shrink[k.current[i]] = smaller(i)
        BY <3>2 DEF smaller
      <3>4. CASE i < j.index \/ (i = j.index /\ c < j.candidate)
        <4>1. Told(m, j, i, smaller(i)[c])
          BY <1>4, <3>3, <3>4
        <4> QED BY <2>4, <3>2, <3>3, <4>1 DEF Told
      <3>5. CASE i = j.index /\ c = j.candidate
        BY <2>4, <3>2, <3>5 DEF Told, SmallerOf, OtherOf
      <3>6. c \in Nat
        BY <1>3, <3>3
      <3>7. c < j.candidate + 1 => c < j.candidate \/ c = j.candidate
        BY <1>2, <3>6
      <3> QED BY <2>7, <3>2, <3>4, <3>5, <3>7
    <2>8. Replaced(m, k)
      BY <2>4, <2>7 DEF Replaced, Behind
    <2> QED BY <2>4, <2>6, <2>8 DEF JobInv, Deleted
  <1> QED BY <1>5, <1>6, <1>7, <1>8, <1>9 DEF MessageMove, SmallerOf, smaller

-----------------------------------------------------------------------------
\* What the invariant says of a search at rest, of its end, and of its steps.
SearchInv == machine \in Machine /\ (job.phase = "idle" \/ JobInv(machine, job)) /\ job \in JobsOf(machine)

LEMMA SearchStep ==
    ASSUME SearchInv, ShrinkStep, UNCHANGED machine
    PROVE  SearchInv' /\ job.phase \in {"delete", "message"} /\ job'.phase # "idle"
  <1>1. IsMachine(machine) /\ job \in JobsOf(machine) /\ machine' = machine
    BY MachineAssumption DEF SearchInv
  <1>2. CASE DeleteStep
    <2>1. job' \in JobsOf(machine) /\ DeleteMove(machine, job, job')
      BY <1>1, <1>2, DeleteStepIs
    <2>2. job.phase = "delete"
      BY <2>1 DEF DeleteMove
    <2>3. JobInv(machine, job')
      BY <1>1, <2>1, <2>2, DeleteKeeps DEF SearchInv
    <2>4. job'.phase # "idle"
      BY <2>3 DEF JobInv, JobTyped
    <2> QED BY <1>1, <2>1, <2>2, <2>3, <2>4 DEF SearchInv
  <1>3. CASE MessageStep
    <2>1. job' \in JobsOf(machine) /\ MessageMove(machine, job, job')
      BY <1>1, <1>3, MessageStepIs
    <2>2. job.phase = "message"
      BY <2>1 DEF MessageMove
    <2>3. JobInv(machine, job')
      BY <1>1, <2>1, <2>2, MessageKeeps DEF SearchInv
    <2>4. job'.phase # "idle"
      BY <2>3 DEF JobInv, JobTyped
    <2> QED BY <1>1, <2>1, <2>2, <2>3, <2>4 DEF SearchInv
  <1> QED BY <1>2, <1>3 DEF ShrinkStep

LEMMA SearchStarts ==
    ASSUME machine \in Machine, NEW p \in ToSet(Properties), NEW t \in TracesOf(machine), Len(t) <= MaxDepth
    PROVE  JobInv(machine, StartJob(p, t)) /\ StartJob(p, t) \in JobsOf(machine)
  BY MachineAssumption, JobBegins DEF JobInv, JobTyped

LEMMA CounterexampleHeld == ASSUME SearchInv PROVE CurrentIsCounterexample
  <1> SUFFICES ASSUME job.phase # "idle"
               PROVE  ShrinkTypeOK /\ (Fails(job.original) => CurrentFails /\ CurrentReachable)
    BY DEF CurrentIsCounterexample
  <1>1. IsMachine(machine) /\ JobInv(machine, job) /\ job \in JobsOf(machine)
    BY MachineAssumption DEF SearchInv
  <1>2. /\ job.phase \in JobPhases /\ job.original \in TracesOf(machine) /\ job.current \in TracesOf(machine)
        /\ job.evaluations \in Nat /\ job.exhausted \in BOOLEAN /\ job.index \in Nat \ {0} /\ job.candidate \in Nat \ {0}
        /\ Len(job.current) \in Nat /\ Len(job.original) \in Nat /\ ShrinkBudget \in Nat
    BY <1>1, JobFields, ShrinkAssumption
  <1>3. JobTyped(machine, job) /\ Keeps(machine, job)
    BY <1>1 DEF JobInv
  <1>4. ShrinkTypeOK
    <2>1. job.current \in TracesUpTo(Len(job.original))
      BY <1>2, <1>3, TracesUpToAre DEF JobTyped
    <2>2. job.evaluations \in 0 .. ShrinkBudget /\ job.index \in 1 .. Len(job.original) + 1
      BY <1>2, <1>3 DEF JobTyped
    <2> QED BY <1>2, <1>3, <2>1, <2>2 DEF ShrinkTypeOK, JobTyped
  <1>5. Fails(job.original) => CurrentFails
    BY <1>3 DEF Keeps, Fails, CurrentFails
  <1>6. CurrentReachable
    <2> DEFINE r == Replay(machine, job.property, job.current)
    <2>1. IsReplay(machine, r, Len(job.current))
      BY <1>1, <1>2, ReplayIs
    <2> HIDE DEF r
    <2>2. \A k \in DOMAIN r.steps : \E a \in ToSet(machine.actions[r.models[k]]) :
             r.steps[k] = Transition(machine, r.models[k], a) /\ r.models[k + 1] = machine.update[<<r.models[k], a>>]
      BY <2>1 DEF IsReplay
    <2> QED BY <2>2 DEF CurrentReachable, r
  <1> QED BY <1>4, <1>5, <1>6

LEMMA MessageMinimumHeld == ASSUME SearchInv PROVE MessageMinimal
  <1> SUFFICES ASSUME job.phase = "done", ~job.exhausted, NEW i \in DOMAIN job.current,
                      NEW b \in ToSet(machine.shrink[job.current[i]]),
                      machine.id[b] # machine.id[job.current[i]],
                      Fails(ReplaceAt(job.current, i, b))
               PROVE  Seen(ReplaceAt(job.current, i, b)) /\ ~ShrinksDescend
    BY DEF MessageMinimal
  <1> DEFINE m == machine
             other == ReplaceAt(job.current, i, b)
  <1>1. IsMachine(m) /\ JobInv(m, job) /\ job.current \in TracesOf(m)
    BY MachineAssumption, JobFields DEF SearchInv
  <1>2. i \in 1 .. Len(job.current) /\ job.current[i] \in MessagesOf(m) /\ Len(job.current) \in Nat
    BY <1>1 DEF TracesOf
  <1>3. Seen(other)
    <2> DEFINE s == m.shrink[job.current[i]]
    <2>1. s \in TracesOf(m)
      BY <1>1, <1>2, MachineIs
    <2>2. DOMAIN s = 1 .. Len(s)
      BY <2>1 DEF TracesOf
    <2> HIDE DEF s
    <2>3. PICK c \in 1 .. Len(s) : b = s[c]
      BY <2>2 DEF ToSet, s
    <2>4. Told(m, job, i, s[c])
      BY <1>1, <1>2, <2>3 DEF JobInv, Replaced, Behind, s
    <2> QED BY <2>3, <2>4 DEF Told, Seen
  <1>4. ASSUME ShrinksDescend PROVE FALSE
    <2>1. PICK f \in [Range(m.id) -> 1 .. Cardinality(Range(m.id))] : Lowers(f)
      BY <1>4 DEF ShrinksDescend
    <2>2. Cardinality(Range(m.id)) \in Nat
      BY <1>4, FS_CardinalityType DEF ShrinksDescend
    <2>3. f \in [Range(m.id) -> Nat]
      BY <2>1, <2>2
    <2>4. f \in MeasuresOf(m)
      BY <2>1, <2>3 DEF MeasuresOf, Lowers, MessagesOf, Message
    <2>5. /\ other \in TracesOf(m) /\ Len(other) = Len(job.current) /\ other[i] = b
          /\ f[m.id[b]] < f[m.id[job.current[i]]]
      BY <1>1, <1>2, <2>4, NotBelowReplaced
    <2>6. NotBelow(m, other, job.current)
      BY <1>1, <1>3, <2>5 DEF JobInv, CameThrough, Seen, Fails
    <2>7. f[m.id[job.current[i]]] <= f[m.id[other[i]]]
      BY <1>2, <2>4, <2>5, <2>6 DEF NotBelow
    <2>8. f[m.id[job.current[i]]] \in Nat /\ f[m.id[other[i]]] \in Nat
      BY <1>1, <1>2, <2>4, <2>5, MeasureIs
    <2> QED BY <2>5, <2>7, <2>8
  <1> QED BY <1>3, <1>4

DeletedAll ==
    job.phase = "delete" /\ job'.phase = "message" =>
        \A i \in DOMAIN job.current : ~Fails(RemoveAt(job.current, i))
LEMMA DeletionMinimumHeld == ASSUME SearchInv, ShrinkStep PROVE DeletedAll
  <1> SUFFICES ASSUME job.phase = "delete", job'.phase = "message", NEW i \in DOMAIN job.current,
                      Fails(RemoveAt(job.current, i))
               PROVE  FALSE
    BY DEF DeletedAll
  <1> DEFINE m == machine
             s == RemoveAt(job.current, i)
  <1>1. IsMachine(m) /\ JobInv(m, job) /\ job \in JobsOf(m)
    BY MachineAssumption DEF SearchInv
  <1>2. job.current \in TracesOf(m) /\ Len(job.current) \in Nat /\ job.index \in Nat \ {0}
    BY <1>1, JobFields
  <1>3. i \in 1 .. Len(job.current)
    BY <1>2 DEF TracesOf
  <1>4. DeleteMove(m, job, job')
    <2>1. DeleteStep
      BY DEF ShrinkStep, MessageStep
    <2> QED BY <1>1, <2>1, DeleteStepIs
  <1>5. job.index > Len(job.current)
    BY <1>4 DEF DeleteMove, Moved, Stopped, Tried
  <1>6. i \in 1 .. job.index - 1
    BY <1>2, <1>3, <1>5
  <1>7. TraceKey(m, s) \in job.visited
    BY <1>1, <1>6 DEF JobInv, Deleted
  <1>8. s \in TracesOf(m) /\ Len(s) = Len(job.current) - 1
    BY <1>2, <1>3, RemovedIs DEF TracesOf
  <1>9. NotBelow(m, s, job.current)
    BY <1>1, <1>7, <1>8 DEF JobInv, CameThrough, Fails
  <1> QED BY <1>2, <1>8, <1>9 DEF NotBelow

Nearer ==
    \/ job.phase \in {"idle", "done"}
    \/ job'.evaluations > job.evaluations
    \/ /\ job'.evaluations = job.evaluations /\ job'.current = job.current
       /\ \/ Later(job'.phase) > Later(job.phase)
          \/ /\ job'.phase = job.phase
             /\ \/ job'.index > job.index
                \/ job'.index = job.index /\ job'.candidate > job.candidate
LEMMA NearerHeld == ASSUME SearchInv, ShrinkStep PROVE Nearer
  <1>1. IsMachine(machine) /\ job \in JobsOf(machine)
    BY MachineAssumption DEF SearchInv
  <1>2. job.evaluations \in Nat /\ job.index \in Nat /\ job.candidate \in Nat
    BY <1>1, JobFields
  <1>3. Later("delete") = 0 /\ Later("message") = 1 /\ Later("done") = 2
    BY DEF Later
  <1>4. CASE DeleteStep
    <2>1. DeleteMove(machine, job, job')
      BY <1>1, <1>4, DeleteStepIs
    <2> QED BY <1>2, <1>3, <2>1 DEF DeleteMove, Moved, Stopped, Tried, Nearer
  <1>5. CASE MessageStep
    <2>1. MessageMove(machine, job, job')
      BY <1>1, <1>5, MessageStepIs
    <2> QED BY <1>2, <1>3, <2>1 DEF MessageMove, Moved, Stopped, Tried, Nearer
  <1> QED BY <1>4, <1>5 DEF ShrinkStep

\* shrink_trace, given any trace that fails: it keeps a counterexample that a user can reach,
\* ends its deletions where none is left that still fails, and its search for smaller messages
\* likewise, as far as the shrink functions do not run in circles; and each of its steps takes
\* it nearer to its end.
THEOREM ShrinkerEndsMinimal == ShrinkSpec => LocalMinima /\ SearchEnds
  <1>1. ShrinkInit => SearchInv
    <2> SUFFICES ASSUME ShrinkInit PROVE SearchInv
      OBVIOUS
    <2>1. PICK p \in ToSet(Properties), t \in TracesUpTo(MaxDepth) : job = StartJob(p, t)
      BY DEF ShrinkInit
    <2>2. t \in TracesOf(machine) /\ Len(t) <= MaxDepth
      BY TracesUpToAre, ShrinkAssumption
    <2>3. machine \in Machine
      BY DEF ShrinkInit
    <2> QED BY <2>1, <2>2, <2>3, SearchStarts DEF SearchInv
  <1>2. SearchInv /\ [ShrinkNext]_<<machine, job>> => SearchInv'
    BY SearchStep DEF ShrinkNext, SearchInv
  <1>3. SearchInv => CurrentIsCounterexample /\ MessageMinimal
    BY CounterexampleHeld, MessageMinimumHeld
  <1>4. SearchInv /\ [ShrinkNext]_<<machine, job>> => [DeletedAll]_<<machine, job>> /\ [Nearer]_<<machine, job>>
    BY DeletionMinimumHeld, NearerHeld DEF ShrinkNext
  <1> QED BY <1>1, <1>2, <1>3, <1>4, PTL
          DEF ShrinkSpec, LocalMinima, DeletionMinimal, SearchEnds, DeletedAll, Nearer

-----------------------------------------------------------------------------
\* The graph: one sequence goes on from another, and shows what it showed.
GoesOn(s, u) == Len(s) <= Len(u) /\ \A i \in 1 .. Len(s) : u[i] = s[i]
ShownIn(s, id) == \E o \in ToSet(s) : o.id = id

LEMMA GoesOnHolds ==
    ASSUME NEW A, NEW s \in Seq(A), NEW u \in Seq(A), GoesOn(s, u)
    PROVE  ToSet(s) \subseteq ToSet(u) /\ \A id : ShownIn(s, id) => ShownIn(u, id)
  <1>1. ToSet(s) \subseteq ToSet(u)
    <2> SUFFICES ASSUME NEW i \in DOMAIN s PROVE s[i] \in ToSet(u)
      BY DEF ToSet
    <2>1. i \in DOMAIN u /\ u[i] = s[i]
      BY DEF GoesOn
    <2> QED BY <2>1 DEF ToSet
  <1> QED BY <1>1 DEF ShownIn

LEMMA GoesOnward ==
    ASSUME NEW A, NEW s \in Seq(A), NEW u \in Seq(A), NEW w \in Seq(A), GoesOn(s, u), GoesOn(u, w)
    PROVE  GoesOn(s, w)
  <1>1. Len(s) \in Nat /\ Len(u) \in Nat /\ Len(w) \in Nat /\ Len(s) <= Len(u) /\ Len(u) <= Len(w)
    BY DEF GoesOn
  <1>2. ASSUME NEW i \in 1 .. Len(s) PROVE w[i] = s[i]
    <2>1. i \in 1 .. Len(u)
      BY <1>1
    <2> QED BY <2>1 DEF GoesOn
  <1> QED BY <1>1, <1>2 DEF GoesOn

LEMMA AppendedIs ==
    ASSUME NEW A, NEW s \in Seq(A), NEW a \in A
    PROVE  /\ Append(s, a) \in Seq(A) /\ Len(Append(s, a)) = Len(s) + 1 /\ GoesOn(s, Append(s, a))
           /\ ToSet(Append(s, a)) = ToSet(s) \cup {a}
  <1> DEFINE u == Append(s, a)
  <1>1. /\ u \in Seq(A) /\ Len(u) = Len(s) + 1 /\ u[Len(s) + 1] = a /\ \A i \in 1 .. Len(s) : u[i] = s[i]
        /\ Len(s) \in Nat /\ DOMAIN s = 1 .. Len(s) /\ DOMAIN u = 1 .. Len(s) + 1
    OBVIOUS
  <1> HIDE DEF u
  <1>2. GoesOn(s, u)
    BY <1>1 DEF GoesOn
  <1>3. ASSUME NEW b \in ToSet(u) PROVE b \in ToSet(s) \cup {a}
    <2>1. PICK i \in 1 .. Len(s) + 1 : b = u[i]
      BY <1>1 DEF ToSet
    <2>2. i = Len(s) + 1 \/ i \in 1 .. Len(s)
      BY <1>1
    <2> QED BY <1>1, <2>1, <2>2 DEF ToSet
  <1>4. a \in ToSet(u)
    <2>1. Len(s) + 1 \in DOMAIN u
      BY <1>1
    <2> QED BY <1>1, <2>1 DEF ToSet
  <1>5. ToSet(s) \subseteq ToSet(u)
    BY <1>1, <1>2, GoesOnHolds
  <1>6. ToSet(u) = ToSet(s) \cup {a}
    BY <1>3, <1>4, <1>5
  <1> QED BY <1>1, <1>2, <1>6 DEF u

SnapshotsType == {SnapshotOf(x, d) : x \in State, d \in 0 .. MaxDepth}

LEMMA SnapshotIs ==
    ASSUME NEW s \in Seq(SnapshotsType), NEW x \in State, NEW d \in 0 .. MaxDepth
    PROVE  /\ Snapshot(s, x, d) \in Seq(SnapshotsType) /\ GoesOn(s, Snapshot(s, x, d))
           /\ Len(Snapshot(s, x, d)) <= Len(s) + 1
           /\ ShownIn(Snapshot(s, x, d), machine.fingerprint[x])
           /\ ShownIn(s, machine.fingerprint[x]) => Snapshot(s, x, d) = s
  <1> DEFINE o == SnapshotOf(x, d)
             id == machine.fingerprint[x]
  <1>1. o \in SnapshotsType
    BY DEF SnapshotsType
  <1>2. o.id = id
    BY DEF SnapshotOf
  <1>3. ShownIn(s, id) <=> \E i \in DOMAIN s : s[i].id = id
    BY DEF ShownIn, ToSet
  <1>4. Snapshot(s, x, d) = IF ShownIn(s, id) THEN s ELSE Append(s, o)
    BY <1>3 DEF Snapshot
  <1> HIDE DEF o
  <1>5. /\ Append(s, o) \in Seq(SnapshotsType) /\ Len(Append(s, o)) = Len(s) + 1 /\ GoesOn(s, Append(s, o))
        /\ ToSet(Append(s, o)) = ToSet(s) \cup {o}
    BY <1>1, AppendedIs
  <1>6. ShownIn(Append(s, o), id)
    BY <1>2, <1>5 DEF ShownIn
  <1>7. GoesOn(s, s) /\ Len(s) <= Len(s) + 1
    BY DEF GoesOn
  <1> QED BY <1>4, <1>5, <1>6, <1>7

\* The snapshots of a counterexample, one model after the other.
AreSnapshots(f, s, models, n) ==
    f = [d \in 0 .. n |-> IF d = 0 THEN s ELSE Snapshot(f[d - 1], models[d], d - 1)]

LEMMA SnapshotsExist ==
    ASSUME NEW s, NEW models, NEW n \in Nat
    PROVE  \E f : AreSnapshots(f, s, models, n)
  <1> DEFINE S == {k \in 0 .. n : \E f : AreSnapshots(f, s, models, k)}
  <1>1. 0 \in S
    <2> DEFINE f == [d \in 0 .. 0 |-> s]
    <2>1. f = [d \in 0 .. 0 |-> IF d = 0 THEN s ELSE Snapshot(f[d - 1], models[d], d - 1)]
      OBVIOUS
    <2>2. AreSnapshots(f, s, models, 0)
      BY <2>1 DEF AreSnapshots
    <2> QED BY <2>2
  <1>2. ASSUME NEW k \in 0 .. n - 1, k \in S PROVE k + 1 \in S
    <2>1. PICK f : AreSnapshots(f, s, models, k)
      BY <1>2
    <2> DEFINE g == [d \in 0 .. k + 1 |-> IF d = k + 1 THEN Snapshot(f[k], models[k + 1], k) ELSE f[d]]
    <2>2. \A d \in 0 .. k : f[d] = IF d = 0 THEN s ELSE Snapshot(f[d - 1], models[d], d - 1)
      BY <2>1 DEF AreSnapshots
    <2>3. ASSUME NEW d \in 0 .. k + 1
          PROVE  g[d] = IF d = 0 THEN s ELSE Snapshot(g[d - 1], models[d], d - 1)
      <3>1. CASE d = 0
        <4>1. d \in 0 .. k /\ d # k + 1
          BY <3>1
        <4> QED BY <2>2, <3>1, <4>1
      <3>2. CASE d = k + 1
        <4>1. d - 1 = k /\ k \in 0 .. k + 1 /\ k # k + 1 /\ d # 0
          BY <3>2
        <4> QED BY <3>2, <4>1
      <3>3. CASE d # 0 /\ d # k + 1
        <4>1. d \in 0 .. k /\ d - 1 \in 0 .. k + 1 /\ d - 1 # k + 1
          BY <3>3
        <4> QED BY <2>2, <3>3, <4>1
      <3> QED BY <3>1, <3>2, <3>3
    <2>4. g = [d \in 0 .. k + 1 |-> g[d]]
      OBVIOUS
    <2> HIDE DEF g
    <2>5. AreSnapshots(g, s, models, k + 1)
      BY <2>3, <2>4 DEF AreSnapshots
    <2>6. k + 1 \in 0 .. n
      OBVIOUS
    <2> QED BY <2>5, <2>6
  <1> HIDE DEF S
  <1>3. \A k \in 0 .. n : k \in S
    BY <1>1, <1>2, UpTo
  <1>4. n \in S
    BY <1>3
  <1> QED BY <1>4 DEF S

LEMMA SnapshotsAre ==
    ASSUME NEW s \in Seq(SnapshotsType), NEW models \in Seq(State), Len(models) >= 1, Len(models) <= MaxDepth + 1,
           ShownIn(s, machine.fingerprint[models[1]])
    PROVE  /\ Snapshots(s, models) \in Seq(SnapshotsType) /\ GoesOn(s, Snapshots(s, models))
           /\ Len(Snapshots(s, models)) <= Len(s) + Len(models) - 1
           /\ \A x \in ToSet(models) : ShownIn(Snapshots(s, models), machine.fingerprint[x])
  <1> DEFINE K == SnapshotsOf(s, models)
             n == Len(models)
             A == SnapshotsType
             id(d) == machine.fingerprint[models[d]]
             Good(k) == /\ K[k] \in Seq(A) /\ GoesOn(s, K[k]) /\ Len(K[k]) + 1 <= Len(s) + k
                        /\ \A d \in 1 .. k : ShownIn(K[k], id(d))
             S == {k \in 0 .. n - 1 : Good(k + 1)}
  <1>1. n \in Nat /\ 1 <= n /\ \A d \in 1 .. n : models[d] \in State
    OBVIOUS
  <1>2. K[0] = s /\ \A d \in 1 .. n : K[d] = Snapshot(K[d - 1], models[d], d - 1)
    <2>1. \E f : AreSnapshots(f, s, models, n)
      BY <1>1, SnapshotsExist
    <2>2. K = CHOOSE f : AreSnapshots(f, s, models, n)
      BY DEF SnapshotsOf, AreSnapshots
    <2> HIDE DEF K, n
    <2>3. AreSnapshots(K, s, models, n)
      BY <2>1, <2>2
    <2> QED BY <1>1, <2>3 DEF AreSnapshots
  <1>3. Snapshots(s, models) = K[n]
    BY DEF Snapshots
  <1> HIDE DEF K
  <1>4. K[1] = s
    <2>1. 1 \in 1 .. n /\ 1 - 1 = 0 /\ 0 \in 0 .. MaxDepth
      BY <1>1, ShrinkAssumption
    <2>2. K[1] = Snapshot(s, models[1], 0)
      BY <1>2, <2>1
    <2> QED BY <1>1, <2>1, <2>2, SnapshotIs
  <1>5. 0 \in S
    <2>1. GoesOn(s, s) /\ Len(s) \in Nat /\ Len(s) + 1 <= Len(s) + (0 + 1) /\ 0 \in 0 .. n - 1 /\ 0 + 1 = 1
      BY <1>1 DEF GoesOn
    <2>2. \A d \in 1 .. 1 : ShownIn(s, id(d))
      OBVIOUS
    <2> QED BY <1>4, <2>1, <2>2
  <1>6. ASSUME NEW k \in 0 .. (n - 1) - 1, k \in S PROVE k + 1 \in S
    <2> DEFINE i == k + 1
    <2>1. /\ i \in 0 .. n - 1 /\ i + 1 \in 1 .. n /\ (i + 1) - 1 = i /\ i \in 0 .. MaxDepth /\ i \in Nat
      BY <1>1, ShrinkAssumption
    <2>2. K[i] \in Seq(A) /\ GoesOn(s, K[i]) /\ Len(K[i]) + 1 <= Len(s) + i /\ \A d \in 1 .. i : ShownIn(K[i], id(d))
      BY <1>6
    <2>3. K[i + 1] = Snapshot(K[i], models[i + 1], i)
      BY <1>2, <2>1
    <2> HIDE DEF i
    <2>4. /\ K[i + 1] \in Seq(A) /\ GoesOn(K[i], K[i + 1]) /\ Len(K[i + 1]) <= Len(K[i]) + 1
          /\ ShownIn(K[i + 1], id(i + 1))
      <3>1. models[i + 1] \in State
        BY <1>1, <2>1
      <3> DEFINE w == K[i]
                 x == models[i + 1]
                 v == Snapshot(w, x, i)
      <3>2. w \in Seq(SnapshotsType) /\ x \in State /\ i \in 0 .. MaxDepth
        BY <2>1, <2>2, <3>1
      <3> HIDE DEF w, x
      <3>3. /\ v \in Seq(SnapshotsType) /\ GoesOn(w, v) /\ Len(v) <= Len(w) + 1
            /\ ShownIn(v, machine.fingerprint[x])
        BY <3>2, SnapshotIs
      <3> QED BY <2>3, <3>3 DEF w, x
    <2>5. Len(K[i]) \in Nat /\ Len(K[i + 1]) \in Nat /\ Len(s) \in Nat
      BY <2>2, <2>4
    <2>6. GoesOn(s, K[i + 1])
      BY <2>2, <2>4, <2>5, GoesOnward
    <2>7. Len(K[i + 1]) + 1 <= Len(s) + (i + 1)
      BY <2>1, <2>2, <2>4, <2>5
    <2>8. ASSUME NEW d \in 1 .. i + 1 PROVE ShownIn(K[i + 1], id(d))
      <3>1. d = i + 1 \/ d \in 1 .. i
        BY <2>1
      <3> QED BY <2>2, <2>4, <3>1, GoesOnHolds
    <2>9. Good(i + 1)
      BY <2>4, <2>6, <2>7, <2>8
    <2> HIDE DEF Good
    <2> QED BY <2>1, <2>9 DEF i
  <1> HIDE DEF S
  <1>7. \A k \in 0 .. n - 1 : k \in S
    <2>1. n - 1 \in Nat
      BY <1>1
    <2> HIDE DEF n
    <2> QED BY <1>5, <1>6, <2>1, UpTo
  <1>8. Good(n)
    <2>1. n - 1 \in 0 .. n - 1 /\ (n - 1) + 1 = n
      BY <1>1
    <2>2. n - 1 \in S
      BY <1>7, <2>1
    <2> HIDE DEF Good, n
    <2> QED BY <2>1, <2>2 DEF S
  <1>9. ASSUME NEW x \in ToSet(models) PROVE ShownIn(K[n], machine.fingerprint[x])
    <2>1. PICK d \in DOMAIN models : x = models[d]
      BY DEF ToSet
    <2>2. d \in 1 .. n
      BY <2>1
    <2> QED BY <1>8, <2>1, <2>2
  <1>10. Len(K[n]) <= Len(s) + n - 1
    <2>1. Len(K[n]) \in Nat /\ Len(s) \in Nat
      BY <1>8
    <2> QED BY <1>1, <1>8, <2>1
  <1> QED BY <1>3, <1>8, <1>9, <1>10

-----------------------------------------------------------------------------
\* The failures of a report: one of a property, the shortest that came.
FailuresType == [property : ToSet(Properties), steps : Seq(StepsOf(machine)), state : Range(machine.fingerprint)]
OnePer(fs) == \A i \in DOMAIN fs, j \in DOMAIN fs : fs[i].property = fs[j].property => i = j

LEMMA RecordedIs ==
    ASSUME failures \in Seq(FailuresType), OnePer(failures), NEW f \in FailuresType
    PROVE  /\ Recorded(f) \in Seq(FailuresType) /\ Recorded(f) # <<>> /\ OnePer(Recorded(f))
           /\ ToSet(Recorded(f)) \subseteq ToSet(failures) \cup {f}
           /\ \E g \in ToSet(Recorded(f)) : g.property = f.property
           /\ \A i \in DOMAIN failures :
                 /\ i \in DOMAIN Recorded(f) /\ Recorded(f)[i].property = failures[i].property
                 /\ Len(Recorded(f)[i].steps) <= Len(failures[i].steps)
  <1> DEFINE A == FailuresType
             I == {i \in 1 .. Len(failures) : failures[i].property = f.property}
             i == IF I # {} THEN Min(I) ELSE 0
             u == Recorded(f)
             n == Len(failures)
  <1>1. /\ n \in Nat /\ DOMAIN failures = 1 .. n /\ \A k \in 1 .. n : failures[k] \in A
    OBVIOUS
  <1>2. \A g \in A : Len(g.steps) \in Nat
    BY DEF FailuresType
  <1>3. u = IF i = 0 THEN Append(failures, f)
            ELSE IF Len(f.steps) < Len(failures[i].steps) THEN ReplaceAt(failures, i, f) ELSE failures
    BY DEF Recorded, SelectInSeq
  <1>4. CASE I = {}
    <2>1. u = Append(failures, f)
      BY <1>3, <1>4
    <2> HIDE DEF u, n
    <2>2. /\ u \in Seq(A) /\ Len(u) = n + 1 /\ DOMAIN u = 1 .. n + 1 /\ u[n + 1] = f /\ u # <<>>
          /\ \A k \in 1 .. n : u[k] = failures[k]
      BY <1>1, <2>1 DEF n
    <2>3. ToSet(u) = ToSet(failures) \cup {f}
      BY <2>1, AppendedIs
    <2>4. ASSUME NEW k \in DOMAIN u, NEW l \in DOMAIN u, u[k].property = u[l].property PROVE k = l
      <3>1. k \in 1 .. n \/ k = n + 1
        BY <1>1, <2>2
      <3>2. l \in 1 .. n \/ l = n + 1
        BY <1>1, <2>2
      <3>3. \A j \in 1 .. n : failures[j].property # f.property
        BY <1>4 DEF n
      <3> QED BY <1>1, <2>2, <2>4, <3>1, <3>2, <3>3 DEF OnePer
    <2>5. ASSUME NEW k \in DOMAIN failures
          PROVE  k \in DOMAIN u /\ u[k].property = failures[k].property /\ Len(u[k].steps) <= Len(failures[k].steps)
      <3>1. k \in 1 .. n /\ k \in 1 .. n + 1 /\ u[k] = failures[k] /\ Len(failures[k].steps) \in Nat
        BY <1>1, <1>2, <2>2
      <3> QED BY <2>2, <3>1
    <2>6. f \in ToSet(u)
      BY <2>3
    <2>7. OnePer(u)
      BY <2>4 DEF OnePer
    <2> QED BY <2>2, <2>3, <2>5, <2>6, <2>7 DEF u
  <1>5. CASE I # {}
    <2>1. i \in I
      <3>1. I \in SUBSET Nat
        OBVIOUS
      <3> QED BY <1>5, <3>1, SmallestIs
    <2>2. i \in 1 .. n /\ failures[i].property = f.property /\ i # 0
      BY <2>1
    <2> HIDE DEF i
    <2>3. u = IF Len(f.steps) < Len(failures[i].steps) THEN ReplaceAt(failures, i, f) ELSE failures
      BY <1>3, <2>2
    <2> HIDE DEF u, n, I
    <2>4. CASE ~(Len(f.steps) < Len(failures[i].steps))
      <3>1. u = failures
        BY <2>3, <2>4
      <3>2. failures # <<>>
        BY <1>1, <2>2 DEF n
      <3>3. failures[i] \in ToSet(failures)
        BY <1>1, <2>2 DEF ToSet
      <3>4. \A k \in DOMAIN failures : Len(failures[k].steps) <= Len(failures[k].steps)
        <4>1. \A k \in DOMAIN failures : Len(failures[k].steps) \in Nat
          BY <1>1, <1>2
        <4> QED BY <4>1
      <3> QED BY <2>2, <3>1, <3>2, <3>3, <3>4 DEF u
    <2>5. CASE Len(f.steps) < Len(failures[i].steps)
      <3>1. u = ReplaceAt(failures, i, f)
        BY <2>3, <2>5
      <3>2. u \in Seq(A) /\ Len(u) = n /\ \A k \in 1 .. n : u[k] = IF k = i THEN f ELSE failures[k]
        <4>1. failures \in Seq(A) /\ i \in 1 .. Len(failures) /\ f \in A
          BY <2>2 DEF n
        <4> HIDE DEF A
        <4>2. /\ ReplaceAt(failures, i, f) \in Seq(A) /\ Len(ReplaceAt(failures, i, f)) = Len(failures)
              /\ \A k \in 1 .. Len(failures) : ReplaceAt(failures, i, f)[k] = IF k = i THEN f ELSE failures[k]
          BY <4>1 DEF ReplaceAt
        <4> QED BY <3>1, <4>2 DEF n
      <3>3. DOMAIN u = 1 .. n /\ u # <<>>
        BY <1>1, <2>2, <3>2
      <3>4. \A k \in 1 .. n : u[k].property = failures[k].property
        BY <2>2, <3>2
      <3>5. OnePer(u)
        BY <1>1, <3>3, <3>4 DEF OnePer
      <3>6. ToSet(u) \subseteq ToSet(failures) \cup {f}
        BY <1>1, <3>2, <3>3 DEF ToSet
      <3>7. f \in ToSet(u)
        BY <2>2, <3>2, <3>3 DEF ToSet
      <3>8. ASSUME NEW k \in 1 .. n PROVE Len(u[k].steps) <= Len(failures[k].steps)
        <4>1. Len(f.steps) \in Nat /\ Len(failures[k].steps) \in Nat
          BY <1>1, <1>2
        <4> QED BY <2>5, <3>2, <4>1
      <3> QED BY <1>1, <3>2, <3>3, <3>4, <3>5, <3>6, <3>7, <3>8 DEF u
    <2> QED BY <2>4, <2>5
  <1> QED BY <1>4, <1>5

-----------------------------------------------------------------------------
\* The invariant of a run.  First its walk: where it is, the trace it took, and the
\* number of its steps, which a case adds to by at most the depth.
WalkTyped ==
    /\ SearchInv /\ case \in 1 .. Cases + 1 /\ depth \in 0 .. MaxDepth /\ model \in ModelsOf(machine)
    /\ trace \in TracesOf(machine) /\ Len(trace) <= MaxDepth /\ at \in {"visit", "act", "shrink"}
    /\ (job.phase = "idle" <=> at # "shrink") /\ (at # "shrink" => Len(trace) = depth)
    /\ (at # "visit" => case <= Cases) /\ (at = "act" => depth < MaxDepth)
    /\ (case = Cases + 1 => depth = 0) /\ (depth = 0 /\ at = "visit" => model = machine.initial)
    /\ transitions \in Seq(StepsOf(machine)) /\ steps = Len(transitions)
    /\ steps <= (case - 1) * MaxDepth + Len(trace)

\* Then its graph: how many states it shows, and which, while a case goes on; a step leads to
\* a state it shows, or has failed, or leads to the model that is to be visited.
FailedStep(m, t) ==
    \E x \in ModelsOf(m), a \in MessagesOf(m), p \in ToSet(Properties) :
        Transition(m, x, a) = t /\ StepFails(m, p, x, a)
ToldOf(ts, ds) ==
    \A t \in ToSet(ts), u \in ToSet(ts) :
        t.from = u.from /\ t.actionId = u.actionId /\ t.to # u.to => ActionCollision(t.actionId) \in ds
GraphInv ==
    /\ states \in Seq(SnapshotsType) /\ Len(states) <= MaxStates + MaxDepth
    /\ (failures = <<>> \/ at = "shrink" => Len(states) <= MaxStates)
    /\ (at = "act" \/ (at = "visit" /\ depth > 0) => Len(states) < MaxStates)
    /\ (at # "visit" \/ depth > 0 => ShownIn(states, machine.fingerprint[machine.initial]))
    /\ (at = "act" => ShownIn(states, machine.fingerprint[model]))
    /\ \A t \in ToSet(transitions) :
          /\ ShownIn(states, t.from)
          /\ \/ ShownIn(states, t.to) \/ FailedStep(machine, t)
             \/ at = "visit" /\ depth > 0 /\ t.to = machine.fingerprint[model]
    /\ ToldOf(transitions, diagnostics)

\* Then its failures, each of which a trace of messages shows, by states that are shown.
Witnessed(m, ss, ds, f) ==
    /\ ShownIn(ss, f.state) /\ Len(f.steps) <= MaxDepth
    /\ \E t \in TracesOf(m) :
          /\ Len(t) <= MaxDepth /\ Reproduces(m, f.property, t) /\ Replay(m, f.property, t).steps = f.steps
          /\ \A x \in ToSet(Replay(m, f.property, t).models) :
                \E s \in ToSet(ss) :
                    s.id = m.fingerprint[x] /\ (s.view = m.view[x] \/ StateCollision(s.id) \in ds)
ReportInv ==
    /\ failures \in Seq(FailuresType) /\ OnePer(failures)
    /\ \A f \in ToSet(failures) : Witnessed(machine, states, diagnostics, f)

\* Last, where ids name one message each: the replay of its trace follows the walk.
IdsTell(m) == \A a, b \in MessagesOf(m) : m.id[a] = m.id[b] => a = b
Follows(m, t, x, p) ==
    /\ Last(Replay(m, p, t).models) = x
    /\ Replay(m, p, t).verdict = IF StateFails(m, p, x) THEN "fail" ELSE "open"
FollowInv ==
    IdsTell(machine) =>
        /\ at # "shrink" => \A p \in ToSet(Properties) : Follows(machine, trace, model, p)
        /\ at = "act" => \A p \in ToSet(Properties) : ~StateFails(machine, p, model)
        /\ at = "shrink" => Reproduces(machine, job.property, job.original)

RunInv == WalkTyped /\ GraphInv /\ ReportInv /\ FollowInv

-----------------------------------------------------------------------------
\* What each action does, as far as the invariant looks.
Starts == case' = case + 1 /\ depth' = 0 /\ model' = machine.initial /\ trace' = <<>> /\ at' = "visit"
Waits == case' = case /\ depth' = depth /\ model' = model /\ trace' = trace

LEMMA VisitIs ==
    ASSUME Visit
    PROVE  /\ case <= Cases /\ at = "visit" /\ Len(states) < MaxStates /\ states' = Snapshot(states, model, depth)
           /\ diagnostics \subseteq diagnostics' /\ machine' = machine
           /\ transitions' = transitions /\ steps' = steps /\ failures' = failures
           /\ \/ /\ Waits /\ at' = "shrink"
                 /\ \E p \in ToSet(Properties) : StateFails(machine, p, model) /\ job' = StartJob(p, trace)
              \/ /\ job' = job /\ \A p \in ToSet(Properties) : ~StateFails(machine, p, model)
                 /\ \/ Starts
                    \/ Waits /\ at' = "act" /\ depth # MaxDepth /\ ~(Len(states') >= MaxStates)
  <1>1. /\ case <= Cases /\ at = "visit" /\ Len(states) < MaxStates /\ states' = Snapshot(states, model, depth)
        /\ diagnostics \subseteq diagnostics' /\ machine' = machine
        /\ transitions' = transitions /\ steps' = steps /\ failures' = failures
    BY DEF Visit
  <1>2. CASE \E i \in PropertyIndex : /\ FailsFirst(StateFailures(model), i)
                                      /\ job' = StartJob(Properties[i], trace) /\ at' = "shrink"
                                      /\ UNCHANGED <<case, depth, model, trace>>
    <2>1. PICK i \in PropertyIndex : /\ FailsFirst(StateFailures(model), i)
                                     /\ job' = StartJob(Properties[i], trace) /\ at' = "shrink"
                                     /\ UNCHANGED <<case, depth, model, trace>>
      BY <1>2
    <2>2. Properties[i] \in ToSet(Properties) /\ StateFails(machine, Properties[i], model)
      BY <2>1 DEF FailsFirst, StateFailures
    <2> QED BY <1>1, <2>1, <2>2 DEF Waits
  <1>3. CASE /\ StateFailures(model) = {} /\ UNCHANGED job
             /\ IF depth = MaxDepth \/ Len(states') >= MaxStates \/ machine.actions[model] = <<>>
                THEN NextCase ELSE at' = "act" /\ UNCHANGED <<case, depth, model, trace>>
    <2>1. \A p \in ToSet(Properties) : ~StateFails(machine, p, model)
      BY <1>3 DEF StateFailures
    <2> QED BY <1>1, <1>3, <2>1 DEF NextCase, Starts, Waits
  <1> QED BY <1>2, <1>3 DEF Visit

LEMMA ActIs ==
    ASSUME NEW k, Act(k)
    PROVE  \E a \in ToSet(machine.actions[model]) :
           /\ at = "act" /\ transitions' = Append(transitions, Transition(machine, model, a)) /\ steps' = steps + 1
           /\ diagnostics \subseteq diagnostics' /\ StepCollisions(Transition(machine, model, a)) \subseteq diagnostics'
           /\ trace' = Append(trace, a) /\ model' = machine.update[<<model, a>>]
           /\ machine' = machine /\ states' = states /\ failures' = failures /\ case' = case
           /\ \/ /\ at' = "shrink" /\ depth' = depth
                 /\ \E p \in ToSet(Properties) : StepFails(machine, p, model, a) /\ job' = StartJob(p, trace')
              \/ /\ at' = "visit" /\ depth' = depth + 1 /\ job' = job
                 /\ \A p \in ToSet(Properties) : ~StepFails(machine, p, model, a)
  <1> DEFINE offered == machine.actions[model]
             a == offered[k]
             seen == [j \in DOMAIN offered |-> Transition(machine, model, offered[j])]
  <1>1. at = "act" /\ k \in DOMAIN offered
    BY DEF Act
  <1>2. a \in ToSet(offered) /\ seen[k] = Transition(machine, model, a)
    BY <1>1 DEF ToSet
  <1>3. /\ transitions' = Append(transitions, seen[k]) /\ steps' = steps + 1
        /\ diagnostics \subseteq diagnostics' /\ StepCollisions(seen[k]) \subseteq diagnostics'
        /\ trace' = Append(trace, a) /\ model' = machine.update[<<model, a>>]
        /\ machine' = machine /\ states' = states /\ failures' = failures /\ case' = case
    BY DEF Act
  <1>4. \/ \E i \in PropertyIndex : /\ FailsFirst(StepFailures(model, a), i)
                                    /\ job' = StartJob(Properties[i], trace') /\ at' = "shrink"
                                    /\ UNCHANGED depth
        \/ StepFailures(model, a) = {} /\ at' = "visit" /\ depth' = depth + 1 /\ UNCHANGED job
    BY DEF Act
  <1> HIDE DEF a, seen, offered
  <1>5. \/ /\ at' = "shrink" /\ depth' = depth
           /\ \E p \in ToSet(Properties) : StepFails(machine, p, model, a) /\ job' = StartJob(p, trace')
        \/ /\ at' = "visit" /\ depth' = depth + 1 /\ job' = job
           /\ \A p \in ToSet(Properties) : ~StepFails(machine, p, model, a)
    <2>1. CASE \E i \in PropertyIndex : /\ FailsFirst(StepFailures(model, a), i)
                                        /\ job' = StartJob(Properties[i], trace') /\ at' = "shrink"
                                        /\ UNCHANGED depth
      <3>1. PICK i \in PropertyIndex : /\ FailsFirst(StepFailures(model, a), i)
                                       /\ job' = StartJob(Properties[i], trace') /\ at' = "shrink"
                                       /\ UNCHANGED depth
        BY <2>1
      <3>2. Properties[i] \in ToSet(Properties) /\ StepFails(machine, Properties[i], model, a)
        BY <3>1 DEF FailsFirst, StepFailures
      <3> QED BY <3>1, <3>2
    <2>2. CASE StepFailures(model, a) = {} /\ at' = "visit" /\ depth' = depth + 1 /\ UNCHANGED job
      <3>1. \A p \in ToSet(Properties) : ~StepFails(machine, p, model, a)
        BY <2>2 DEF StepFailures
      <3> QED BY <2>2, <3>1
    <2> QED BY <1>4, <2>1, <2>2
  <1> QED BY <1>1, <1>2, <1>3, <1>5 DEF offered

FoundOf(r) == [property |-> job.property, steps |-> r.steps, state |-> machine.fingerprint[Last(r.models)]]

LEMMA AppendFailureIs ==
    ASSUME AppendFailure, NEW r, r = Replay(machine, job.property, job.current)
    PROVE  /\ at = "shrink" /\ job.phase = "done" /\ job' = IdleJob /\ Starts /\ machine' = machine
           /\ transitions' = transitions /\ steps' = steps /\ diagnostics \subseteq diagnostics'
           /\ \/ r.verdict # "fail" /\ states' = states /\ failures' = failures
              \/ /\ r.verdict = "fail" /\ states' = Snapshots(states, r.models)
                 /\ StateCollisions(states', r.models) \subseteq diagnostics'
                 /\ failures' = Recorded(FoundOf(r))
  BY DEF AppendFailure, NextCase, Starts, FoundOf

-----------------------------------------------------------------------------
\* A message offered in a model is a message, and leads to a model.
LEMMA OfferedIs ==
    ASSUME NEW m, IsMachine(m), NEW x \in ModelsOf(m), NEW a \in ToSet(m.actions[x])
    PROVE  a \in MessagesOf(m) /\ m.update[<<x, a>>] \in ModelsOf(m)
  <1> DEFINE s == m.actions[x]
  <1>1. s \in Seq(MessagesOf(m)) /\ a \in ToSet(s)
    BY MachineIs DEF TracesOf
  <1> HIDE DEF s
  <1>2. a \in MessagesOf(m)
    BY <1>1 DEF ToSet
  <1>3. <<x, a>> \in ModelsOf(m) \X MessagesOf(m) /\ m.update \in [ModelsOf(m) \X MessagesOf(m) -> ModelsOf(m)]
    BY <1>2, MachineIs
  <1> QED BY <1>2, <1>3

LEMMA Product ==
    ASSUME NEW c \in Nat \ {0}, NEW d \in Nat
    PROVE  (c - 1) * d + d = c * d /\ (c - 1) * d \in Nat
  <1>1. (c - 1) \in Nat
    OBVIOUS
  <1>2. (c - 1) * d + d = c * d
    OBVIOUS
  <1>3. (c - 1) * d \in Nat
    BY <1>1
  <1> QED BY <1>2, <1>3

LEMMA Products ==
    ASSUME NEW c \in Nat, NEW e \in Nat, c <= e, NEW d \in Nat
    PROVE  c * d <= e * d
  OBVIOUS

LEMMA WalkFacts ==
    ASSUME WalkTyped
    PROVE  /\ IsMachine(machine) /\ machine \in Machine /\ job \in JobsOf(machine)
           /\ case \in Nat \ {0} /\ Cases \in Nat /\ depth \in Nat /\ MaxDepth \in Nat /\ MaxStates \in Nat
           /\ Len(trace) \in Nat /\ Len(transitions) \in Nat /\ machine.initial \in ModelsOf(machine)
  <1>1. machine \in Machine /\ IsMachine(machine) /\ job \in JobsOf(machine)
    BY MachineAssumption DEF WalkTyped, SearchInv
  <1>2. machine.initial \in ModelsOf(machine)
    BY <1>1, MachineIs
  <1>3. Len(trace) \in Nat
    BY DEF WalkTyped, TracesOf
  <1>4. Len(transitions) \in Nat
    <2>1. transitions \in Seq(StepsOf(machine))
      BY DEF WalkTyped
    <2> QED BY <2>1
  <1>5. MaxDepth \in Nat /\ MaxStates \in Nat /\ Cases \in Nat
    BY ShrinkAssumption, RunAssumption
  <1>6. case \in Nat \ {0} /\ depth \in Nat
    BY <1>5 DEF WalkTyped
  <1> QED BY <1>1, <1>2, <1>3, <1>4, <1>5, <1>6

\* The case that starts has a walk of its own.
LEMMA StartsWalk ==
    ASSUME WalkTyped, Starts, case <= Cases, machine' = machine, transitions' = transitions, steps' = steps,
           SearchInv', job'.phase = "idle"
    PROVE  WalkTyped'
  <1>1. (case - 1) * MaxDepth + MaxDepth = case * MaxDepth /\ (case - 1) * MaxDepth \in Nat
    BY WalkFacts, Product
  <1>2. <<>> \in TracesOf(machine) /\ Len(<<>>) = 0
    BY DEF TracesOf
  <1>3. steps' <= (case' - 1) * MaxDepth + Len(trace')
    <2> DEFINE P == (case - 1) * MaxDepth
               Q == case * MaxDepth
    <2>1. P \in Nat /\ P + MaxDepth = Q /\ steps <= P + Len(trace) /\ Len(trace) <= MaxDepth
      BY <1>1 DEF WalkTyped
    <2>2. case' - 1 = case
      BY WalkFacts DEF Starts
    <2>3. steps' = steps /\ trace' = <<>> /\ steps \in Nat /\ Len(trace) \in Nat /\ MaxDepth \in Nat
      BY WalkFacts DEF Starts, WalkTyped
    <2>4. steps <= Q
      <3> HIDE DEF P, Q
      <3> QED BY <2>1, <2>3
    <2>5. Q \in Nat
      <3> HIDE DEF P, Q
      <3> QED BY <2>1, <2>3
    <2>6. steps' <= Q + Len(trace')
      <3> HIDE DEF Q
      <3> QED BY <1>2, <2>3, <2>4, <2>5
    <2> QED BY <2>2, <2>6
  <1>4. case' \in 1 .. Cases + 1 /\ depth' \in 0 .. MaxDepth
    BY WalkFacts DEF Starts
  <1> QED BY <1>2, <1>3, <1>4, WalkFacts DEF WalkTyped, Starts

LEMMA SearchInvIdle ==
    ASSUME machine \in Machine, machine' = machine, job' = IdleJob
    PROVE  SearchInv' /\ job'.phase = "idle"
  <1>1. IdleJob \in JobsOf(machine) /\ IdleJob.phase = "idle"
    BY IdleJobIs DEF IdleJob
  <1> QED BY <1>1 DEF SearchInv

LEMMA SearchInvStarts ==
    ASSUME machine \in Machine, machine' = machine, NEW p \in ToSet(Properties), NEW t \in TracesOf(machine),
           Len(t) <= MaxDepth, job' = StartJob(p, t)
    PROVE  /\ SearchInv' /\ job'.phase # "idle" /\ job'.property = p /\ job'.original = t
  <1>1. JobInv(machine, StartJob(p, t)) /\ StartJob(p, t) \in JobsOf(machine)
    BY SearchStarts
  <1>2. StartJob(p, t).phase # "idle" /\ StartJob(p, t).property = p /\ StartJob(p, t).original = t
    BY DEF StartJob, IdleJob
  <1> QED BY <1>1, <1>2 DEF SearchInv

LEMMA WalkKept == ASSUME WalkTyped, RunNext \/ UNCHANGED runVars PROVE WalkTyped'
  <1>1. CASE Visit
    <2>1. /\ case <= Cases /\ at = "visit" /\ machine' = machine /\ transitions' = transitions /\ steps' = steps
      BY <1>1, VisitIs
    <2>2. CASE /\ Waits /\ at' = "shrink"
               /\ \E p \in ToSet(Properties) : StateFails(machine, p, model) /\ job' = StartJob(p, trace)
      <3>1. SearchInv' /\ job'.phase # "idle"
        BY <2>1, <2>2, WalkFacts, SearchInvStarts DEF WalkTyped
      <3> QED BY <2>1, <2>2, <3>1, WalkFacts DEF WalkTyped, Waits
    <2>3. CASE job' = job /\ Starts
      <3>1. SearchInv' /\ job'.phase = "idle"
        BY <2>1, <2>3 DEF WalkTyped, SearchInv
      <3> QED BY <2>1, <2>3, <3>1, StartsWalk
    <2>4. CASE job' = job /\ Waits /\ at' = "act" /\ depth # MaxDepth
      <3>1. SearchInv' /\ job'.phase = "idle"
        BY <2>1, <2>4 DEF WalkTyped, SearchInv
      <3>2. depth < MaxDepth
        BY <2>4, WalkFacts DEF WalkTyped
      <3> QED BY <2>1, <2>4, <3>1, <3>2, WalkFacts DEF WalkTyped, Waits
    <2> QED BY <1>1, <2>2, <2>3, <2>4, VisitIs
  <1>2. CASE EndCase
    <2>1. Starts /\ case <= Cases /\ machine' = machine /\ transitions' = transitions /\ steps' = steps /\ job' = job
      BY <1>2 DEF EndCase, NextCase, Starts, reported
    <2>2. SearchInv' /\ job'.phase = "idle"
      BY <1>2, <2>1 DEF WalkTyped, SearchInv, EndCase
    <2> QED BY <2>1, <2>2, StartsWalk
  <1>3. CASE Shrink
    <2>1. at = "shrink" /\ machine' = machine /\ UNCHANGED reported /\ UNCHANGED walk /\ ShrinkStep
      BY <1>3 DEF Shrink
    <2>2. SearchInv' /\ job'.phase # "idle"
      BY <2>1, SearchStep DEF WalkTyped
    <2> QED BY <2>1, <2>2 DEF WalkTyped, reported, walk
  <1>4. CASE AppendFailure
    <2>1. /\ at = "shrink" /\ job' = IdleJob /\ Starts /\ machine' = machine /\ transitions' = transitions /\ steps' = steps
      BY <1>4, AppendFailureIs
    <2>2. SearchInv' /\ job'.phase = "idle"
      BY <2>1, WalkFacts, SearchInvIdle
    <2>3. case <= Cases
      BY <2>1 DEF WalkTyped
    <2> QED BY <2>1, <2>2, <2>3, StartsWalk
  <1>5. ASSUME NEW k, Act(k) PROVE WalkTyped'
    <2>1. PICK a \in ToSet(machine.actions[model]) :
           /\ at = "act" /\ transitions' = Append(transitions, Transition(machine, model, a)) /\ steps' = steps + 1
           /\ trace' = Append(trace, a) /\ model' = machine.update[<<model, a>>] /\ machine' = machine /\ case' = case
           /\ \/ /\ at' = "shrink" /\ depth' = depth
                 /\ \E p \in ToSet(Properties) : job' = StartJob(p, trace')
              \/ at' = "visit" /\ depth' = depth + 1 /\ job' = job
      BY <1>5, ActIs
    <2>2. a \in MessagesOf(machine) /\ model' \in ModelsOf(machine)
      BY <2>1, WalkFacts, OfferedIs DEF WalkTyped
    <2>3. Transition(machine, model, a) \in StepsOf(machine)
      BY <2>2 DEF WalkTyped, StepsOf
    <2>4. transitions' \in Seq(StepsOf(machine)) /\ Len(transitions') = Len(transitions) + 1
      BY <2>1, <2>3, AppendedIs DEF WalkTyped
    <2>5. trace' \in TracesOf(machine) /\ Len(trace') = Len(trace) + 1
      BY <2>1, <2>2, AppendedIs DEF WalkTyped, TracesOf
    <2>6. Len(trace) = depth /\ depth < MaxDepth /\ Len(trace') <= MaxDepth /\ depth + 1 \in 0 .. MaxDepth /\ depth + 1 # 0
      BY <2>1, <2>5, WalkFacts DEF WalkTyped
    <2>7. steps' <= (case' - 1) * MaxDepth + Len(trace')
      <3> DEFINE P == (case - 1) * MaxDepth
      <3>1. P \in Nat /\ steps <= P + Len(trace) /\ steps \in Nat /\ Len(trace) \in Nat
        BY WalkFacts, Product DEF WalkTyped
      <3>2. steps' = steps + 1 /\ case' = case
        BY <2>1
      <3>3. steps' <= P + Len(trace')
        <4> HIDE DEF P
        <4> QED BY <2>5, <3>1, <3>2
      <3> QED BY <3>2, <3>3
    <2>8. case <= Cases /\ case # Cases + 1
      BY <2>1, WalkFacts DEF WalkTyped
    <2>9. steps' = Len(transitions')
      BY <2>1, <2>4 DEF WalkTyped
    <2>10. CASE at' = "shrink" /\ depth' = depth /\ \E p \in ToSet(Properties) : job' = StartJob(p, trace')
      <3>1. SearchInv' /\ job'.phase # "idle"
        <4>1. PICK p \in ToSet(Properties) : job' = StartJob(p, trace')
          BY <2>10
        <4> DEFINE u == Append(trace, a)
        <4>2. job' = StartJob(p, u) /\ u \in TracesOf(machine) /\ Len(u) <= MaxDepth
          BY <2>1, <2>5, <2>6, <4>1
        <4> HIDE DEF u
        <4> QED BY <2>1, <4>2, WalkFacts, SearchInvStarts
      <3> QED BY <2>1, <2>2, <2>4, <2>5, <2>6, <2>7, <2>8, <2>9, <2>10, <3>1 DEF WalkTyped
    <2>11. CASE at' = "visit" /\ depth' = depth + 1 /\ job' = job
      <3>1. SearchInv' /\ job'.phase = "idle"
        BY <2>1, <2>11 DEF WalkTyped, SearchInv
      <3> QED BY <2>1, <2>2, <2>4, <2>5, <2>6, <2>7, <2>8, <2>9, <2>11, <3>1 DEF WalkTyped
    <2> QED BY <2>1, <2>10, <2>11
  <1>6. CASE UNCHANGED runVars
    BY <1>6 DEF runVars, reported, walk, WalkTyped, SearchInv
  <1> QED BY <1>1, <1>2, <1>3, <1>4, <1>5, <1>6 DEF RunNext

-----------------------------------------------------------------------------
\* The graph.  What is shown, or told of the walk, stays so.
LEMMA SameTypes ==
    ASSUME machine' = machine
    PROVE  SnapshotsType' = SnapshotsType /\ FailuresType' = FailuresType
  BY DEF SnapshotsType, SnapshotOf, State, FailuresType

LEMMA EndOfIt ==
    ASSUME NEW m, IsMachine(m), NEW x \in ModelsOf(m), NEW a \in MessagesOf(m)
    PROVE  /\ Transition(m, x, a).from = m.fingerprint[x]
           /\ Transition(m, x, a).to = m.fingerprint[m.update[<<x, a>>]]
           /\ Transition(m, x, a).actionId = m.id[a]
  BY DEF Transition

\* The case is over, or its search goes on: the graph is as it was, and every step
\* of the walk led to what is shown by then.
LEMMA GraphStays ==
    ASSUME GraphInv, machine' = machine, NEW s \in Seq(SnapshotsType), states' = s, GoesOn(states, s),
           Len(s) <= MaxStates + MaxDepth, failures' = <<>> => Len(s) <= MaxStates,
           at' = "visit", depth' = 0, transitions' = transitions, diagnostics \subseteq diagnostics',
           at = "visit" /\ depth > 0 => ShownIn(s, machine.fingerprint[model]), ~(0 > 0)
    PROVE  GraphInv'
  <1>1. \A id : ShownIn(states, id) => ShownIn(s, id)
    BY GoesOnHolds DEF GraphInv
  <1>2. ASSUME NEW t \in ToSet(transitions)
        PROVE  ShownIn(s, t.from) /\ (ShownIn(s, t.to) \/ FailedStep(machine, t))
    BY <1>1 DEF GraphInv
  <1>3. ToldOf(transitions, diagnostics')
    BY DEF GraphInv, ToldOf
  <1> QED BY <1>2, <1>3, SameTypes DEF GraphInv

\* The replay of the trace a search ends with.
LEMMA FoundIs ==
    ASSUME WalkTyped, at = "shrink", NEW r, r = Replay(machine, job.property, job.current)
    PROVE  /\ IsReplay(machine, r, MaxDepth) /\ FoundOf(r) \in FailuresType
           /\ job.current \in TracesOf(machine) /\ Len(job.current) <= MaxDepth
  <1>1. JobTyped(machine, job)
    BY DEF WalkTyped, SearchInv, JobInv
  <1>2. /\ job.current \in TracesOf(machine) /\ Len(job.current) \in Nat /\ Len(job.original) \in Nat
        /\ job.property \in ToSet(Properties) /\ Len(job.current) <= MaxDepth
    <2>1. job.current \in TracesOf(machine) /\ Len(job.current) \in Nat /\ Len(job.original) \in Nat
      BY WalkFacts, JobFields
    <2> QED BY <1>1, <2>1, WalkFacts DEF JobTyped
  <1>3. IsReplay(machine, r, Len(job.current))
    BY <1>2, WalkFacts, ReplayIs
  <1>4. IsReplay(machine, r, MaxDepth)
    <2>1. Len(r.steps) \in Nat
      BY <1>3 DEF IsReplay
    <2>2. Len(r.steps) <= MaxDepth
      BY <1>2, <1>3, <2>1, WalkFacts DEF IsReplay
    <2> QED BY <1>3, <2>2 DEF IsReplay
  <1>5. Last(r.models) \in ModelsOf(machine)
    <2>1. r.models \in Seq(ModelsOf(machine)) /\ Len(r.steps) \in Nat /\ Len(r.models) = Len(r.steps) + 1
      BY <1>4 DEF IsReplay
    <2> QED BY <2>1 DEF Last
  <1>6. FoundOf(r) \in FailuresType
    <2>1. machine.fingerprint[Last(r.models)] \in Range(machine.fingerprint)
      BY <1>5 DEF Range, ModelsOf
    <2>2. r.steps \in Seq(StepsOf(machine))
      BY <1>4 DEF IsReplay
    <2> QED BY <1>2, <2>1, <2>2 DEF FoundOf, FailuresType
  <1> QED BY <1>2, <1>4, <1>6

LEMMA ReplayShown ==
    ASSUME WalkTyped, GraphInv, at = "shrink", NEW r, IsReplay(machine, r, MaxDepth), NEW s, s = Snapshots(states, r.models)
    PROVE  /\ s \in Seq(SnapshotsType) /\ GoesOn(states, s) /\ Len(s) <= Len(states) + Len(r.models) - 1
           /\ \A x \in ToSet(r.models) : ShownIn(s, machine.fingerprint[x])
  <1> DEFINE ms == r.models
  <1>1. ms \in Seq(State) /\ Len(ms) >= 1 /\ Len(ms) <= MaxDepth + 1 /\ ms[1] = machine.initial
    <2>1. /\ ms \in Seq(ModelsOf(machine)) /\ Len(r.steps) \in Nat /\ Len(ms) = Len(r.steps) + 1
          /\ Len(r.steps) <= MaxDepth /\ ms[1] = machine.initial
      BY DEF IsReplay
    <2>2. ModelsOf(machine) = State
      BY DEF ModelsOf, State
    <2> HIDE DEF ms
    <2> QED BY <2>1, <2>2, WalkFacts
  <1>2. states \in Seq(SnapshotsType) /\ ShownIn(states, machine.fingerprint[ms[1]])
    BY <1>1 DEF GraphInv
  <1> HIDE DEF ms
  <1>3. /\ Snapshots(states, ms) \in Seq(SnapshotsType) /\ GoesOn(states, Snapshots(states, ms))
        /\ Len(Snapshots(states, ms)) <= Len(states) + Len(ms) - 1
        /\ \A x \in ToSet(ms) : ShownIn(Snapshots(states, ms), machine.fingerprint[x])
    BY <1>1, <1>2, SnapshotsAre
  <1> QED BY <1>3 DEF ms

LEMMA GraphKept == ASSUME WalkTyped, GraphInv, ReportInv, RunNext \/ UNCHANGED runVars PROVE GraphInv'
  <1>0. states \in Seq(SnapshotsType) /\ Len(states) \in Nat /\ ~(0 > 0)
    BY DEF GraphInv
  <1>1. CASE Visit
    <2>1. /\ at = "visit" /\ Len(states) < MaxStates /\ states' = Snapshot(states, model, depth)
          /\ diagnostics \subseteq diagnostics' /\ machine' = machine
          /\ transitions' = transitions /\ failures' = failures
      BY <1>1, VisitIs
    <2> DEFINE s == Snapshot(states, model, depth)
               now == machine.fingerprint[model]
               first == machine.fingerprint[machine.initial]
    <2>2. /\ s \in Seq(SnapshotsType) /\ GoesOn(states, s) /\ Len(s) <= Len(states) + 1 /\ ShownIn(s, now)
      <3>1. model \in State /\ depth \in 0 .. MaxDepth
        BY DEF WalkTyped, State, ModelsOf
      <3> QED BY <1>0, <3>1, SnapshotIs
    <2>3. Len(s) \in Nat
      BY <2>2
    <2>4. Len(s) <= MaxStates /\ Len(s) <= MaxStates + MaxDepth
      <3> HIDE DEF s
      <3> QED BY <1>0, <2>1, <2>2, <2>3, WalkFacts
    <2>5. \A id : ShownIn(states, id) => ShownIn(s, id)
      BY <1>0, <2>2, GoesOnHolds
    <2>6. ShownIn(s, first)
      <3>1. CASE depth = 0
        BY <2>1, <2>2, <3>1 DEF WalkTyped
      <3>2. CASE depth # 0
        <4>1. depth > 0
          BY <3>2, WalkFacts
        <4> QED BY <2>5, <4>1 DEF GraphInv
      <3> QED BY <3>1, <3>2
    <2>7. \A t \in ToSet(transitions) : ShownIn(s, t.from) /\ (ShownIn(s, t.to) \/ FailedStep(machine, t))
      BY <2>1, <2>2, <2>5 DEF GraphInv
    <2>8. ToldOf(transitions, diagnostics')
      BY <2>1 DEF GraphInv, ToldOf
    <2> HIDE DEF s
    <2>9. states' = s
      BY <2>1 DEF s
    <2>10. CASE Waits /\ at' = "shrink"
      BY <2>1, <2>2, <2>4, <2>6, <2>7, <2>8, <2>9, <2>10, SameTypes DEF GraphInv, Waits
    <2>11. CASE Starts
      BY <1>0, <2>1, <2>2, <2>4, <2>9, <2>11, GraphStays DEF Starts
    <2>12. CASE Waits /\ at' = "act" /\ ~(Len(states') >= MaxStates)
      <3>1. Len(s) < MaxStates
        BY <2>3, <2>9, <2>12, WalkFacts
      <3> QED BY <2>1, <2>2, <2>4, <2>6, <2>7, <2>8, <2>9, <2>12, <3>1, SameTypes DEF GraphInv, Waits
    <2> QED BY <1>1, <2>10, <2>11, <2>12, VisitIs
  <1>2. CASE EndCase
    <2>1. /\ Starts /\ machine' = machine /\ at = "visit" /\ Len(states) >= MaxStates
          /\ transitions' = transitions /\ diagnostics' = diagnostics /\ failures' = failures /\ states' = states
      BY <1>2 DEF EndCase, NextCase, Starts, reported
    <2>2. ~(depth > 0)
      BY <1>0, <2>1, WalkFacts DEF GraphInv
    <2>3. GoesOn(states, states)
      BY <1>0 DEF GoesOn
    <2> QED BY <1>0, <2>1, <2>2, <2>3, GraphStays DEF Starts, GraphInv
  <1>3. CASE Shrink
    <2>1. at = "shrink" /\ machine' = machine /\ UNCHANGED reported /\ UNCHANGED walk
      BY <1>3 DEF Shrink
    <2> QED BY <2>1, SameTypes DEF GraphInv, reported, walk
  <1>4. CASE AppendFailure
    <2> DEFINE r == Replay(machine, job.property, job.current)
    <2>1. /\ at = "shrink" /\ Starts /\ machine' = machine /\ transitions' = transitions /\ diagnostics \subseteq diagnostics'
          /\ \/ states' = states /\ failures' = failures
             \/ states' = Snapshots(states, r.models) /\ failures' = Recorded(FoundOf(r))
      BY <1>4, AppendFailureIs
    <2>2. GoesOn(states, states) /\ Len(states) <= MaxStates /\ Len(states) <= MaxStates + MaxDepth
      BY <1>0, <2>1, WalkFacts DEF GoesOn, GraphInv
    <2>3. CASE states' = states /\ failures' = failures
      BY <1>0, <2>1, <2>2, <2>3, GraphStays DEF Starts
    <2>4. CASE states' = Snapshots(states, r.models) /\ failures' = Recorded(FoundOf(r))
      <3>1. IsReplay(machine, r, MaxDepth) /\ FoundOf(r) \in FailuresType
        BY <2>1, FoundIs
      <3> HIDE DEF r
      <3> DEFINE s == Snapshots(states, r.models)
      <3>2. /\ s \in Seq(SnapshotsType) /\ GoesOn(states, s) /\ Len(s) <= Len(states) + Len(r.models) - 1
        BY <1>0, <2>1, <3>1, ReplayShown
      <3>3. Len(r.models) \in Nat /\ Len(r.models) <= MaxDepth + 1
        BY <3>1, WalkFacts DEF IsReplay
      <3>4. Len(s) \in Nat
        BY <3>2
      <3> HIDE DEF s
      <3>5. Len(s) <= MaxStates + MaxDepth
        BY <1>0, <2>2, <3>2, <3>3, <3>4, WalkFacts
      <3>6. failures' # <<>>
        BY <2>4, <3>1, RecordedIs DEF ReportInv
      <3> QED BY <1>0, <2>1, <2>4, <3>2, <3>5, <3>6, GraphStays DEF Starts, s
    <2> QED BY <2>1, <2>3, <2>4
  <1>5. ASSUME NEW k, Act(k) PROVE GraphInv'
    <2>1. PICK a \in ToSet(machine.actions[model]) :
           /\ at = "act" /\ transitions' = Append(transitions, Transition(machine, model, a))
           /\ diagnostics \subseteq diagnostics' /\ StepCollisions(Transition(machine, model, a)) \subseteq diagnostics'
           /\ model' = machine.update[<<model, a>>]
           /\ machine' = machine /\ states' = states /\ failures' = failures
           /\ \/ at' = "shrink" /\ depth' = depth /\ \E p \in ToSet(Properties) : StepFails(machine, p, model, a)
              \/ at' = "visit" /\ depth' = depth + 1
      BY <1>5, ActIs
    <2> DEFINE step == Transition(machine, model, a)
    <2>2. model \in ModelsOf(machine) /\ a \in MessagesOf(machine)
      BY <2>1, WalkFacts, OfferedIs DEF WalkTyped
    <2>3. step.from = machine.fingerprint[model] /\ step.to = machine.fingerprint[model']
      BY <2>1, <2>2, WalkFacts, EndOfIt
    <2>4. ToSet(transitions') = ToSet(transitions) \cup {step}
      <3>1. step \in StepsOf(machine)
        BY <2>2 DEF StepsOf
      <3> QED BY <2>1, <3>1, AppendedIs DEF WalkTyped
    <2>5. at' = "shrink" => FailedStep(machine, step)
      BY <2>1, <2>2 DEF FailedStep
    <2>6. Len(states) < MaxStates /\ Len(states) <= MaxStates
      BY <1>0, <2>1, WalkFacts DEF GraphInv
    <2>7. at' = "visit" => depth' > 0
      BY <2>1, WalkFacts
    <2> HIDE DEF step
    <2>8. ASSUME NEW t \in ToSet(transitions')
          PROVE  /\ ShownIn(states, t.from)
                 /\ \/ ShownIn(states, t.to) \/ FailedStep(machine, t)
                    \/ at' = "visit" /\ depth' > 0 /\ t.to = machine.fingerprint[model']
      <3>1. CASE t \in ToSet(transitions)
        BY <2>1, <3>1 DEF GraphInv
      <3>2. CASE t = step
        BY <2>1, <2>3, <2>5, <2>7, <3>2 DEF GraphInv
      <3> QED BY <2>4, <3>1, <3>2
    <2>9. ToldOf(transitions', diagnostics')
      <3> SUFFICES ASSUME NEW t \in ToSet(transitions'), NEW u \in ToSet(transitions'),
                          t.from = u.from, t.actionId = u.actionId, t.to # u.to
                   PROVE  ActionCollision(t.actionId) \in diagnostics'
        BY DEF ToldOf
      <3>1. CASE t \in ToSet(transitions) /\ u \in ToSet(transitions)
        BY <2>1, <3>1 DEF GraphInv, ToldOf
      <3>2. ASSUME NEW o \in ToSet(transitions), o.from = step.from, o.actionId = step.actionId, o.to # step.to
            PROVE  ActionCollision(step.actionId) \in diagnostics'
        <4>1. ActionCollision(step.actionId) \in StepCollisions(step)
          BY <3>2 DEF StepCollisions
        <4> QED BY <2>1, <4>1 DEF step
      <3> QED BY <2>4, <3>1, <3>2
    <2>10. at' \in {"shrink", "visit"}
      BY <2>1
    <2> QED BY <1>0, <2>1, <2>6, <2>8, <2>9, <2>10, SameTypes DEF GraphInv
  <1>6. CASE UNCHANGED runVars
    <2>1. machine' = machine /\ UNCHANGED reported /\ UNCHANGED walk
      BY <1>6 DEF runVars
    <2> QED BY <2>1, SameTypes DEF GraphInv, reported, walk
  <1> QED BY <1>1, <1>2, <1>3, <1>4, <1>5, <1>6 DEF RunNext

-----------------------------------------------------------------------------
\* The failures.  A counterexample stays shown by more states and more diagnostics.
LEMMA WitnessedStays ==
    ASSUME NEW m, NEW ss, NEW ds, NEW f, Witnessed(m, ss, ds, f), NEW su, NEW du,
           ToSet(ss) \subseteq ToSet(su), ds \subseteq du
    PROVE  Witnessed(m, su, du, f)
  <1>1. ShownIn(su, f.state)
    BY DEF Witnessed, ShownIn
  <1>2. PICK t \in TracesOf(m) :
          /\ Len(t) <= MaxDepth /\ Reproduces(m, f.property, t) /\ Replay(m, f.property, t).steps = f.steps
          /\ \A x \in ToSet(Replay(m, f.property, t).models) :
                \E s \in ToSet(ss) :
                    s.id = m.fingerprint[x] /\ (s.view = m.view[x] \/ StateCollision(s.id) \in ds)
    BY DEF Witnessed
  <1>3. ASSUME NEW x \in ToSet(Replay(m, f.property, t).models)
        PROVE  \E s \in ToSet(su) :
                    s.id = m.fingerprint[x] /\ (s.view = m.view[x] \/ StateCollision(s.id) \in du)
    BY <1>2
  <1> QED BY <1>1, <1>2, <1>3 DEF Witnessed

LEMMA ReportStays ==
    ASSUME ReportInv, machine' = machine, failures' = failures, ToSet(states) \subseteq ToSet(states'),
           diagnostics \subseteq diagnostics'
    PROVE  ReportInv'
  <1>1. ASSUME NEW f \in ToSet(failures) PROVE Witnessed(machine, states', diagnostics', f)
    BY WitnessedStays DEF ReportInv
  <1> QED BY <1>1, SameTypes DEF ReportInv

LEMMA ReportKept == ASSUME WalkTyped, GraphInv, ReportInv, RunNext \/ UNCHANGED runVars PROVE ReportInv'
  <1>1. CASE Visit
    <2>1. /\ states' = Snapshot(states, model, depth) /\ machine' = machine
          /\ diagnostics \subseteq diagnostics' /\ failures' = failures
      BY <1>1, VisitIs
    <2>2. states \in Seq(SnapshotsType) /\ states' \in Seq(SnapshotsType) /\ GoesOn(states, states')
      <3>1. model \in State /\ depth \in 0 .. MaxDepth /\ states \in Seq(SnapshotsType)
        BY DEF WalkTyped, GraphInv, State, ModelsOf
      <3> QED BY <2>1, <3>1, SnapshotIs
    <2>3. ToSet(states) \subseteq ToSet(states')
      BY <2>2, GoesOnHolds
    <2> QED BY <2>1, <2>3, ReportStays
  <1>2. CASE EndCase \/ Shrink \/ UNCHANGED runVars
    <2>1. machine' = machine /\ UNCHANGED reported
      BY <1>2 DEF EndCase, Shrink, runVars
    <2> QED BY <2>1, ReportStays DEF reported
  <1>3. CASE AppendFailure
    <2> DEFINE r == Replay(machine, job.property, job.current)
    <2>1. /\ at = "shrink" /\ machine' = machine /\ diagnostics \subseteq diagnostics'
          /\ \/ states' = states /\ failures' = failures
             \/ /\ r.verdict = "fail" /\ states' = Snapshots(states, r.models)
                /\ StateCollisions(states', r.models) \subseteq diagnostics'
                /\ failures' = Recorded(FoundOf(r))
      BY <1>3, AppendFailureIs
    <2>2. CASE states' = states /\ failures' = failures
      BY <2>1, <2>2, ReportStays
    <2>3. CASE /\ r.verdict = "fail" /\ states' = Snapshots(states, r.models)
               /\ StateCollisions(states', r.models) \subseteq diagnostics'
               /\ failures' = Recorded(FoundOf(r))
      <3> DEFINE f == FoundOf(r)
      <3>1. /\ IsReplay(machine, r, MaxDepth) /\ f \in FailuresType
            /\ job.current \in TracesOf(machine) /\ Len(job.current) <= MaxDepth
        BY <2>1, FoundIs
      <3>2. /\ f.property = job.property /\ f.steps = r.steps /\ f.state = machine.fingerprint[Last(r.models)]
        BY DEF FoundOf
      <3>3. r.verdict = "fail" => Reproduces(machine, job.property, job.current)
        BY DEF Reproduces
      <3>4. r = Replay(machine, job.property, job.current)
        OBVIOUS
      <3> HIDE DEF r, f
      <3>5. /\ states' \in Seq(SnapshotsType) /\ GoesOn(states, states')
            /\ \A x \in ToSet(r.models) : ShownIn(states', machine.fingerprint[x])
        BY <2>1, <2>3, <3>1, ReplayShown
      <3>6. ToSet(states) \subseteq ToSet(states')
        BY <3>5, GoesOnHolds DEF GraphInv
      <3>7. ShownIn(states', f.state)
        <4>1. r.models \in Seq(ModelsOf(machine)) /\ Len(r.steps) \in Nat /\ Len(r.models) = Len(r.steps) + 1
          BY <3>1 DEF IsReplay
        <4>2. Last(r.models) \in ToSet(r.models)
          <5> DEFINE ms == r.models
          <5>1. ms \in Seq(ModelsOf(machine)) /\ Len(ms) >= 1
            BY <4>1
          <5> HIDE DEF ms
          <5>2. Len(ms) \in DOMAIN ms /\ Last(ms) = ms[Len(ms)]
            BY <5>1 DEF Last
          <5>3. Last(ms) \in ToSet(ms)
            BY <5>2 DEF ToSet
          <5> QED BY <5>3 DEF ms
        <4> QED BY <3>2, <3>5, <4>2
      <3>8. ASSUME NEW x \in ToSet(r.models)
            PROVE  \E s \in ToSet(states') :
                       s.id = machine.fingerprint[x] /\ (s.view = machine.view[x] \/ StateCollision(s.id) \in diagnostics')
        <4>1. PICK s \in ToSet(states') : s.id = machine.fingerprint[x]
          BY <3>5 DEF ShownIn
        <4>2. s.view # machine.view[x] => StateCollision(s.id) \in StateCollisions(states', r.models)
          BY <4>1 DEF StateCollisions
        <4> QED BY <2>3, <4>1, <4>2
      <3>9. Witnessed(machine, states', diagnostics', f)
        <4>1. Len(f.steps) <= MaxDepth
          BY <3>1, <3>2 DEF IsReplay
        <4> QED BY <2>3, <3>1, <3>2, <3>3, <3>4, <3>7, <3>8, <4>1 DEF Witnessed
      <3>10. /\ failures' \in Seq(FailuresType) /\ OnePer(failures') /\ ToSet(failures') \subseteq ToSet(failures) \cup {f}
        BY <2>3, <3>1, RecordedIs DEF ReportInv, f
      <3>11. ASSUME NEW g \in ToSet(failures') PROVE Witnessed(machine, states', diagnostics', g)
        <4>1. CASE g \in ToSet(failures)
          BY <2>1, <3>6, <4>1, WitnessedStays DEF ReportInv
        <4> QED BY <3>9, <3>10, <4>1
      <3> QED BY <2>1, <3>10, <3>11, SameTypes DEF ReportInv
    <2> QED BY <2>1, <2>2, <2>3
  <1>4. ASSUME NEW k, Act(k) PROVE ReportInv'
    <2>1. machine' = machine /\ states' = states /\ failures' = failures /\ diagnostics \subseteq diagnostics'
      BY <1>4, ActIs
    <2> QED BY <2>1, ReportStays
  <1> QED BY <1>1, <1>2, <1>3, <1>4 DEF RunNext

-----------------------------------------------------------------------------
\* The replay of the walk's own trace, where ids tell messages apart: it starts with the
\* walk, and a step of the walk is a step of it.
LEMMA FollowsStart ==
    ASSUME NEW m, NEW p PROVE Follows(m, <<>>, m.initial, p)
  <1>1. Replay(m, p, <<>>) = ReplayStart(m, p)
    <2>1. <<>> \in Seq({1}) /\ 1 \in {1}
      OBVIOUS
    <2> QED BY <2>1, ReplayGoesOn
  <1>2. ReplayStart(m, p).models = <<m.initial>> /\ Last(<<m.initial>>) = m.initial
    BY DEF ReplayStart, Last
  <1> QED BY <1>1, <1>2 DEF Follows, ReplayStart

LEMMA FollowsOn ==
    ASSUME NEW m, IsMachine(m), IdsTell(m), NEW p, NEW t \in TracesOf(m), NEW x \in ModelsOf(m), Follows(m, t, x, p),
           ~StateFails(m, p, x), NEW a \in ToSet(m.actions[x])
    PROVE  /\ StepFails(m, p, x, a) => Reproduces(m, p, Append(t, a))
           /\ ~StepFails(m, p, x, a) => Follows(m, Append(t, a), m.update[<<x, a>>], p)
  <1> DEFINE r == Replay(m, p, t)
             u == Replay(m, p, Append(t, a))
             y == m.update[<<x, a>>]
  <1>1. a \in MessagesOf(m) /\ y \in ModelsOf(m)
    BY OfferedIs
  <1>2. u = ReplayStep(m, p, r, a)
    BY <1>1, ReplayGoesOn DEF TracesOf
  <1>3. r.verdict = "open" /\ Last(r.models) = x
    BY DEF Follows
  <1>4. AvailableAction(m, x, a) = <<a>>
    BY <1>1, AvailableIsIt DEF IdsTell
  <1>5. r.models \in Seq(ModelsOf(m))
    BY ReplayIs DEF IsReplay
  <1> HIDE DEF r, u, y
  <1>6. u = [models  |-> Append(r.models, y), steps |-> Append(r.steps, Transition(m, x, a)),
             verdict |-> IF StepFails(m, p, x, a) \/ StateFails(m, p, y) THEN "fail" ELSE "open"]
    BY <1>2, <1>3, <1>4 DEF ReplayStep, y
  <1>7. Last(Append(r.models, y)) = y
    BY <1>1, <1>5 DEF Last
  <1> QED BY <1>6, <1>7 DEF Follows, Reproduces, u, y

LEMMA FollowStarts == ASSUME machine' = machine, Starts PROVE FollowInv'
  BY FollowsStart DEF FollowInv, Starts

\* A step of a search stays with its property and the trace it was given.
LEMMA SearchKeepsTask ==
    ASSUME IsMachine(machine), job \in JobsOf(machine), ShrinkStep
    PROVE  job'.property = job.property /\ job'.original = job.original
  <1>1. CASE DeleteStep
    <2>1. DeleteMove(machine, job, job')
      BY <1>1, DeleteStepIs
    <2> QED BY <2>1 DEF DeleteMove, Moved, Stopped, Tried, Stays
  <1>2. CASE MessageStep
    <2>1. MessageMove(machine, job, job')
      BY <1>2, MessageStepIs
    <2> QED BY <2>1 DEF MessageMove, Moved, Stopped, Tried, Stays
  <1> QED BY <1>1, <1>2 DEF ShrinkStep

LEMMA FollowKept == ASSUME WalkTyped, FollowInv, RunNext \/ UNCHANGED runVars PROVE FollowInv'
  <1>0. IsMachine(machine) /\ trace \in TracesOf(machine) /\ model \in ModelsOf(machine)
    BY WalkFacts DEF WalkTyped
  <1>1. CASE Visit
    <2>1. machine' = machine /\ at = "visit"
      BY <1>1, VisitIs
    <2>2. CASE /\ Waits /\ at' = "shrink"
               /\ \E p \in ToSet(Properties) : StateFails(machine, p, model) /\ job' = StartJob(p, trace)
      <3>1. PICK p \in ToSet(Properties) : StateFails(machine, p, model) /\ job' = StartJob(p, trace)
        BY <2>2
      <3>2. job'.property = p /\ job'.original = trace
        BY <3>1 DEF StartJob, IdleJob
      <3>3. IdsTell(machine) => Reproduces(machine, p, trace)
        BY <2>1, <3>1 DEF FollowInv, Follows, Reproduces
      <3> QED BY <2>1, <2>2, <3>2, <3>3 DEF FollowInv
    <2>3. CASE Starts
      BY <2>1, <2>3, FollowStarts
    <2>4. CASE /\ Waits /\ at' = "act" /\ \A p \in ToSet(Properties) : ~StateFails(machine, p, model)
      BY <2>1, <2>4 DEF FollowInv, Waits
    <2> QED BY <1>1, <2>2, <2>3, <2>4, VisitIs
  <1>2. CASE EndCase
    <2>1. Starts /\ machine' = machine
      BY <1>2 DEF EndCase, NextCase, Starts
    <2> QED BY <2>1, FollowStarts
  <1>3. CASE Shrink
    <2>1. at = "shrink" /\ machine' = machine /\ UNCHANGED walk /\ ShrinkStep
      BY <1>3 DEF Shrink
    <2>2. job'.property = job.property /\ job'.original = job.original
      BY <2>1, WalkFacts, SearchKeepsTask
    <2> QED BY <2>1, <2>2 DEF FollowInv, walk
  <1>4. CASE AppendFailure
    <2>1. Starts /\ machine' = machine
      BY <1>4, AppendFailureIs
    <2> QED BY <2>1, FollowStarts
  <1>5. ASSUME NEW k, Act(k) PROVE FollowInv'
    <2>1. PICK a \in ToSet(machine.actions[model]) :
           /\ at = "act" /\ trace' = Append(trace, a) /\ model' = machine.update[<<model, a>>] /\ machine' = machine
           /\ \/ /\ at' = "shrink"
                 /\ \E p \in ToSet(Properties) : StepFails(machine, p, model, a) /\ job' = StartJob(p, trace')
              \/ at' = "visit" /\ \A p \in ToSet(Properties) : ~StepFails(machine, p, model, a)
      BY <1>5, ActIs
    <2>2. IdsTell(machine) =>
            \A p \in ToSet(Properties) :
              /\ StepFails(machine, p, model, a) => Reproduces(machine, p, Append(trace, a))
              /\ ~StepFails(machine, p, model, a) => Follows(machine, Append(trace, a), machine.update[<<model, a>>], p)
      BY <1>0, <2>1, FollowsOn DEF FollowInv
    <2>3. CASE /\ at' = "shrink"
               /\ \E p \in ToSet(Properties) : StepFails(machine, p, model, a) /\ job' = StartJob(p, trace')
      <3>1. PICK p \in ToSet(Properties) : StepFails(machine, p, model, a) /\ job' = StartJob(p, trace')
        BY <2>3
      <3>2. job'.property = p /\ job'.original = trace'
        BY <3>1 DEF StartJob, IdleJob
      <3> QED BY <2>1, <2>2, <2>3, <3>1, <3>2 DEF FollowInv
    <2>4. CASE at' = "visit" /\ \A p \in ToSet(Properties) : ~StepFails(machine, p, model, a)
      BY <2>1, <2>2, <2>4 DEF FollowInv
    <2> QED BY <2>1, <2>3, <2>4
  <1>6. CASE UNCHANGED runVars
    BY <1>6 DEF runVars, walk, FollowInv
  <1> QED BY <1>1, <1>2, <1>3, <1>4, <1>5, <1>6 DEF RunNext

-----------------------------------------------------------------------------
\* The invariant holds throughout, ...
LEMMA RunInvStarts == RunInit => RunInv
  <1> SUFFICES ASSUME RunInit PROVE RunInv
    OBVIOUS
  <1>1. machine \in Machine /\ IsMachine(machine) /\ machine.initial \in ModelsOf(machine)
    BY MachineAssumption, MachineIs DEF RunInit
  <1>2. job \in JobsOf(machine) /\ job.phase = "idle" /\ SearchInv
    BY <1>1, IdleJobIs DEF RunInit, IdleJob, SearchInv
  <1>3. /\ <<>> \in TracesOf(machine) /\ <<>> \in Seq(StepsOf(machine)) /\ <<>> \in Seq(SnapshotsType)
        /\ <<>> \in Seq(FailuresType) /\ Len(<<>>) = 0 /\ ToSet(<<>>) = {} /\ DOMAIN <<>> = {}
    BY DEF TracesOf, ToSet
  <1>4. MaxDepth \in Nat /\ MaxStates \in Nat \ {0} /\ Cases \in Nat
    BY ShrinkAssumption, RunAssumption
  <1>5. WalkTyped
    <2>1. (case - 1) * MaxDepth = 0
      BY <1>4 DEF RunInit
    <2>2. case = Cases + 1 => depth = 0
      BY DEF RunInit
    <2> QED BY <1>1, <1>2, <1>3, <1>4, <2>1, <2>2 DEF RunInit, WalkTyped
  <1>6. GraphInv
    BY <1>3, <1>4 DEF RunInit, GraphInv, ToldOf
  <1>7. ReportInv
    BY <1>3 DEF RunInit, ReportInv, OnePer
  <1>8. FollowInv
    BY FollowsStart DEF RunInit, FollowInv
  <1> QED BY <1>5, <1>6, <1>7, <1>8 DEF RunInv

LEMMA RunInvKept == RunInv /\ [RunNext]_runVars => RunInv'
  BY WalkKept, GraphKept, ReportKept, FollowKept DEF RunInv

LEMMA RunInvHolds == RunSpec => []RunInv
  BY RunInvStarts, RunInvKept, PTL DEF RunSpec

\* ... and says of the report what it should.
LEMMA RunTypeHeld == ASSUME RunInv PROVE RunTypeOK
  <1>1. WalkTyped /\ GraphInv /\ ReportInv
    BY DEF RunInv
  <1>2. Len(states) <= MaxStates + MaxDepth /\ (failures = <<>> => Len(states) <= MaxStates)
    BY <1>1 DEF GraphInv
  <1>3. \A i \in DOMAIN states : states[i].depth \in 0 .. MaxDepth
    <2> SUFFICES ASSUME NEW i \in DOMAIN states PROVE states[i].depth \in 0 .. MaxDepth
      OBVIOUS
    <2>1. states[i] \in SnapshotsType
      BY <1>1 DEF GraphInv
    <2> QED BY <2>1 DEF SnapshotsType, SnapshotOf
  <1>4. \A t \in ToSet(transitions) : t.actionId \in Range(machine.id)
    <2> SUFFICES ASSUME NEW i \in DOMAIN transitions PROVE transitions[i].actionId \in Range(machine.id)
      BY DEF ToSet
    <2>1. transitions[i] \in StepsOf(machine)
      BY <1>1 DEF WalkTyped
    <2>2. PICK x \in ModelsOf(machine), a \in MessagesOf(machine) : transitions[i] = Transition(machine, x, a)
      BY <2>1 DEF StepsOf
    <2>3. transitions[i].actionId = machine.id[a]
      BY <2>2 DEF Transition
    <2> QED BY <2>3 DEF Range, MessagesOf
  <1>5. \A f \in ToSet(failures) : f.property \in ToSet(Properties) /\ Len(f.steps) <= MaxDepth
    <2> SUFFICES ASSUME NEW i \in DOMAIN failures
                 PROVE  failures[i].property \in ToSet(Properties) /\ Len(failures[i].steps) <= MaxDepth
      BY DEF ToSet
    <2>1. failures[i] \in FailuresType /\ failures[i] \in ToSet(failures)
      BY <1>1 DEF ReportInv, ToSet
    <2>2. failures[i].property \in ToSet(Properties)
      BY <2>1 DEF FailuresType
    <2> QED BY <1>1, <2>1, <2>2 DEF ReportInv, Witnessed
  <1>6. steps <= Cases * MaxDepth
    <2> DEFINE P == (case - 1) * MaxDepth
               Q == case * MaxDepth
               R == Cases * MaxDepth
    <2>1. P \in Nat /\ P + MaxDepth = Q /\ R \in Nat /\ Q \in Nat
      BY <1>1, WalkFacts, Product
    <2>2. steps <= P + Len(trace) /\ Len(trace) <= MaxDepth /\ steps \in Nat /\ Len(trace) \in Nat /\ MaxDepth \in Nat
      BY <1>1, WalkFacts DEF WalkTyped
    <2>3. CASE case <= Cases
      <3>1. Q <= R
        BY <1>1, <2>3, WalkFacts, Products
      <3> HIDE DEF P, Q, R
      <3>2. steps <= R
        BY <2>1, <2>2, <3>1
      <3> QED BY <3>2 DEF R
    <2>4. CASE case = Cases + 1
      <3>1. Len(trace) = 0
        BY <1>1, <2>4, WalkFacts DEF WalkTyped
      <3>2. case - 1 = Cases
        BY <1>1, <2>4, WalkFacts
      <3>3. P = R
        BY <3>2
      <3> HIDE DEF P, Q, R
      <3>4. steps <= R
        BY <2>1, <2>2, <3>1, <3>3
      <3> QED BY <3>4 DEF R
    <2>5. case <= Cases \/ case = Cases + 1
      BY <1>1, WalkFacts DEF WalkTyped
    <2> QED BY <2>3, <2>4, <2>5
  <1>7. trace \in TracesUpTo(MaxDepth)
    BY <1>1, WalkFacts, TracesUpToAre DEF WalkTyped
  <1>8. job.phase \in JobPhases
    BY <1>1, WalkFacts, JobFields
  <1>9. model \in State
    BY <1>1 DEF WalkTyped, State, ModelsOf
  <1> QED BY <1>1, <1>2, <1>3, <1>4, <1>5, <1>6, <1>7, <1>8, <1>9 DEF RunTypeOK, WalkTyped

LEMMA ReportHeld == ASSUME RunInv PROVE ReportIsTrue
  <1>1. WalkTyped /\ GraphInv /\ ReportInv /\ MaxDepth \in Nat
    BY WalkFacts DEF RunInv
  <1>2. \A id : Shown(id) <=> ShownIn(states, id)
    BY DEF Shown, ShownIn
  <1>3. WalkIsClosed
    <2> SUFFICES ASSUME BetweenCases, NEW t \in ToSet(transitions)
                 PROVE  /\ Shown(t.from)
                        /\ \/ Shown(t.to)
                           \/ \E x \in State, a \in Message :
                                 Transition(machine, x, a) = t /\ StepFailures(x, a) # {}
      BY RunTypeHeld DEF WalkIsClosed
    <2>1. depth = 0 /\ ~(depth > 0)
      BY DEF BetweenCases
    <2>2. ShownIn(states, t.from) /\ (ShownIn(states, t.to) \/ FailedStep(machine, t))
      BY <1>1, <2>1 DEF GraphInv
    <2>3. ASSUME FailedStep(machine, t)
          PROVE  \E x \in State, a \in Message : Transition(machine, x, a) = t /\ StepFailures(x, a) # {}
      <3>1. PICK x \in State, a \in Message, p \in ToSet(Properties) :
                Transition(machine, x, a) = t /\ StepFails(machine, p, x, a)
        BY <2>3 DEF FailedStep, State, Message, ModelsOf, MessagesOf
      <3>2. p \in StepFailures(x, a)
        BY <3>1 DEF StepFailures
      <3> QED BY <3>1, <3>2
    <2> QED BY <1>2, <2>2, <2>3
  <1>4. CounterexamplesShown
    <2> SUFFICES ASSUME NEW f \in ToSet(failures)
                 PROVE  /\ Shown(f.state)
                        /\ \E t \in TracesUpTo(MaxDepth) :
                              /\ Replay(machine, f.property, t).verdict = "fail"
                              /\ Replay(machine, f.property, t).steps = f.steps
                              /\ \A x \in ToSet(Replay(machine, f.property, t).models) :
                                    \E s \in ToSet(states) :
                                       /\ s.id = machine.fingerprint[x]
                                       /\ s.view = machine.view[x] \/ Diagnosed(StateCollision(s.id))
      BY DEF CounterexamplesShown
    <2>1. Witnessed(machine, states, diagnostics, f)
      BY <1>1 DEF ReportInv
    <2>2. \A t \in TracesOf(machine) : Len(t) <= MaxDepth => t \in TracesUpTo(MaxDepth)
      BY <1>1, TracesUpToAre
    <2> QED BY <1>2, <2>1, <2>2 DEF Witnessed, Reproduces, Diagnosed
  <1>5. WalkDeterministic
    BY <1>1 DEF GraphInv, ToldOf, WalkDeterministic, Diagnosed
  <1> QED BY <1>3, <1>4, <1>5 DEF ReportIsTrue

\* A run keeps its failures, and its searches keep what ShrinkerEndsMinimal says of one.
Kept ==
    \A i \in DOMAIN failures :
        /\ i \in DOMAIN failures' /\ failures'[i].property = failures[i].property
        /\ Len(failures'[i].steps) <= Len(failures[i].steps)
        /\ \A j \in DOMAIN failures' : failures'[j].property = failures[i].property => j = i
NotLost == UniqueIds /\ at = "shrink" /\ at' = "visit" => \E f \in ToSet(failures') : f.property = job.property

LEMMA KeptHeld == ASSUME RunInv, RunInv', RunNext PROVE Kept /\ NotLost
  <1>0. WalkTyped /\ ReportInv /\ ReportInv' /\ FollowInv
    BY DEF RunInv
  <1>1. ASSUME failures' = failures PROVE Kept
    <2>1. \A i \in DOMAIN failures : Len(failures[i].steps) \in Nat
      <3>1. \A i \in DOMAIN failures : failures[i] \in FailuresType
        BY <1>0 DEF ReportInv
      <3> QED BY <3>1 DEF FailuresType
    <2>2. \A i \in DOMAIN failures : Len(failures[i].steps) <= Len(failures[i].steps)
      BY <2>1
    <2> QED BY <1>0, <1>1, <2>2 DEF Kept, ReportInv, OnePer
  <1>2. CASE AppendFailure
    <2> DEFINE r == Replay(machine, job.property, job.current)
    <2>1. /\ at = "shrink"
          /\ \/ r.verdict # "fail" /\ failures' = failures
             \/ failures' = Recorded(FoundOf(r))
      BY <1>2, AppendFailureIs
    <2>2. FoundOf(r) \in FailuresType /\ FoundOf(r).property = job.property
      BY <1>0, <2>1, FoundIs DEF FoundOf
    <2>3. UniqueIds => r.verdict = "fail"
      <3>1. UniqueIds => Reproduces(machine, job.property, job.original)
        BY <1>0, <2>1 DEF FollowInv, IdsTell, UniqueIds, Message, MessagesOf
      <3>2. Keeps(machine, job)
        BY <1>0, <2>1 DEF WalkTyped, SearchInv, JobInv
      <3> QED BY <3>1, <3>2 DEF Keeps, Reproduces
    <2> HIDE DEF r
    <2>4. CASE failures' = Recorded(FoundOf(r))
      <3>1. /\ OnePer(failures') /\ \E g \in ToSet(failures') : g.property = job.property
            /\ \A i \in DOMAIN failures :
                 /\ i \in DOMAIN failures' /\ failures'[i].property = failures[i].property
                 /\ Len(failures'[i].steps) <= Len(failures[i].steps)
        BY <1>0, <2>2, <2>4, RecordedIs DEF ReportInv
      <3>2. NotLost
        BY <3>1 DEF NotLost
      <3>3. Kept
        BY <3>1 DEF Kept, OnePer
      <3> QED BY <3>2, <3>3
    <2>5. CASE r.verdict # "fail" /\ failures' = failures
      BY <1>1, <2>3, <2>5 DEF NotLost
    <2> QED BY <2>1, <2>4, <2>5
  <1>3. CASE Visit
    <2>1. at = "visit" /\ failures' = failures
      BY <1>3, VisitIs
    <2> QED BY <1>1, <2>1 DEF NotLost
  <1>4. CASE EndCase \/ Shrink
    <2>1. failures' = failures /\ (at = "visit" \/ at' = at)
      BY <1>4 DEF EndCase, Shrink, reported, walk
    <2> QED BY <1>1, <2>1 DEF NotLost
  <1>5. ASSUME NEW k, Act(k) PROVE Kept /\ NotLost
    <2>1. at = "act" /\ failures' = failures
      BY <1>5, ActIs
    <2> QED BY <1>1, <2>1 DEF NotLost
  <1> QED BY <1>2, <1>3, <1>4, <1>5 DEF RunNext

LEMMA SearchesHeld == ASSUME RunInv, RunNext PROVE (DeletedAll /\ Nearer) \/ UNCHANGED <<machine, job>>
  <1>0. WalkTyped /\ SearchInv
    BY DEF RunInv, WalkTyped
  <1>1. CASE Shrink
    BY <1>0, <1>1, DeletionMinimumHeld, NearerHeld DEF Shrink
  <1>2. CASE AppendFailure
    BY <1>2 DEF AppendFailure, DeletedAll, Nearer
  <1>3. CASE Visit \/ EndCase \/ \E k \in DOMAIN machine.actions[model] : Act(k)
    <2>1. at # "shrink"
      BY <1>3 DEF Visit, EndCase, Act
    <2>2. job.phase = "idle"
      BY <1>0, <2>1 DEF WalkTyped
    <2> QED BY <2>2 DEF DeletedAll, Nearer
  <1> QED BY <1>1, <1>2, <1>3 DEF RunNext

\* run_validated, for any client whose functions are total and any bounds: the graph it
\* reports has no step that leads to a state it does not show unless that step itself failed a
\* property, each counterexample it reports is one, and its states are shown, and where one id
\* leads from one state to two the collision is diagnosed.
THEOREM ReportsAreTrue == RunSpec => []ReportIsTrue
  BY RunInvHolds, ReportHeld, PTL

\* record_minimal_failure and append_failure: a case that met a failing property leaves a
\* counterexample of it where the client's ids name one message each, no later case loses one
\* or puts a longer one in its place, and no property gets two.
THEOREM FailuresAreKept == RunSpec => FailuresKept
  <1>1. RunInv /\ RunInv' /\ [RunNext]_runVars => [NotLost]_runVars /\ [Kept]_runVars
    BY KeptHeld
  <1>2. RunSpec => [][RunNext]_runVars
    BY DEF RunSpec
  <1> QED BY <1>1, <1>2, RunInvHolds, PTL DEF FailuresKept, FailureNeverLost, FailuresImprove, NotLost, Kept

\* shrink_trace, called for the failures a run meets: each of its searches keeps a
\* counterexample, ends at local minima, and every step takes it nearer to its end.
THEOREM SearchesEndMinimal == RunSpec => LocalMinima /\ SearchEnds
  <1>1. RunInv => CurrentIsCounterexample /\ MessageMinimal
    BY CounterexampleHeld, MessageMinimumHeld DEF RunInv, WalkTyped
  <1>2. RunInv /\ [RunNext]_runVars => [DeletedAll]_<<machine, job>> /\ [Nearer]_<<machine, job>>
    BY SearchesHeld DEF runVars
  <1>3. RunSpec => [][RunNext]_runVars
    BY DEF RunSpec
  <1> QED BY <1>1, <1>2, <1>3, RunInvHolds, PTL
          DEF LocalMinima, DeletionMinimal, SearchEnds, DeletedAll, Nearer
=============================================================================
