------------------------ MODULE FinitePlayback_proofs ------------------------
(***************************************************************************)
(* Proofs about FinitePlayback.  The lemmas are about scheduler records,   *)
(* one per method, so that a module that embeds a scheduler can cite them. *)
(***************************************************************************)
EXTENDS FinitePlayback, TLAPS

(* The lead of a valid configuration is a frame count within the run, and  *)
(* exceeds the deficit: P * lead >= total * (P - rate) unless it is total. *)
LEMMA LeadBounds ==
  ASSUME NEW c \in ConfigType
  PROVE  /\ RequiredLead(c) \in Nat
         /\ RequiredLead(c) <= c.total
         /\ \/ RequiredLead(c) = c.total
            \/ /\ c.rate < PlaybackRate
               /\ RequiredLead(c) * PlaybackRate >= c.total * (PlaybackRate - c.rate)
            \/ c.rate >= PlaybackRate
<1> DEFINE P == PlaybackRate
           N == c.total
           d == IF c.rate < P THEN P - c.rate ELSE 0
           q == N \div P
           m == N % P
           x == (m * d + P - 1) \div P
           base == q * d + x
           bare == Min2(base, N)
<1>1. P \in Nat /\ P > 0 /\ N \in Nat /\ c.rate \in Nat /\ c.margin \in Nat
  BY RateAssumption DEF ConfigType
<1>2. d \in Nat
  BY <1>1
<1>3. q \in Nat /\ m \in Nat /\ N = q * P + m
  BY <1>1, Z3
<1>4. m * d \in Nat /\ q * d \in Nat
  BY <1>2, <1>3, Z3
<1>5. x \in Nat /\ x * P >= m * d
  <2> HIDE DEF m, d
  <2> DEFINE y == m * d
  <2>1. y \in Nat BY <1>4
  <2> HIDE DEF y
  <2>2. (y + P - 1) \div P \in Nat /\ ((y + P - 1) \div P) * P >= y
    BY <2>1, <1>1, Z3
  <2> QED BY <2>2 DEF y
<1>6. base \in Nat
  <2> HIDE DEF x, q, d
  <2> QED BY <1>4, <1>5
<1>7. base * P >= N * d
  <2> HIDE DEF x, q, m, d
  <2>1. N * d = (q * P) * d + m * d
    BY <1>1, <1>2, <1>3, Z3
  <2>2. base * P = (q * d) * P + x * P
    BY <1>1, <1>2, <1>3, <1>5, Z3
  <2>3. (q * P) * d = (q * d) * P
    BY <1>1, <1>2, <1>3, Z3
  <2> QED BY <2>1, <2>2, <2>3, <1>1, <1>2, <1>3, <1>4, <1>5, Z3
<1>8. RequiredLead(c) = IF c.margin >= N - bare THEN N ELSE bare + c.margin
  BY DEF RequiredLead
<1> HIDE DEF base
<1>9. bare \in Nat /\ bare <= N /\ (bare = N \/ bare = base)
  BY <1>1, <1>6 DEF Min2
<1> HIDE DEF bare
<1>10. RequiredLead(c) \in Nat /\ RequiredLead(c) <= N /\ RequiredLead(c) >= bare
  BY <1>1, <1>8, <1>9
<1>11. CASE bare = N \/ c.rate >= P
  BY <1>10, <1>11, <1>1
<1>12. CASE bare = base /\ c.rate < P
  <2>1. d = P - c.rate
    BY <1>12
  <2>2. RequiredLead(c) * P >= base * P
    <3> HIDE DEF P
    <3> QED BY <1>1, <1>6, <1>10, <1>12, Z3
  <2>3. RequiredLead(c) * P >= N * d
    <3> HIDE DEF d, P
    <3>1. RequiredLead(c) * P \in Int /\ base * P \in Int /\ N * d \in Int
      BY <1>1, <1>2, <1>6, <1>10, Z3
    <3> QED BY <3>1, <2>2, <1>7
  <2> QED BY <2>1, <2>3, <1>10, <1>12
<1> QED BY <1>9, <1>11, <1>12, <1>1

(* required_lead(): the lead covers the whole run, for every configuration *)
(* and every playback rate.                                                *)
LEMMA LeadSuffices ==
  ASSUME NEW c \in ConfigType, NEW t \in 0 .. c.total
  PROVE  t <= RequiredLead(c) + (t * c.rate) \div PlaybackRate
<1> DEFINE P == PlaybackRate
           L == RequiredLead(c)
           N == c.total
           r == c.rate
           y == (t * r) \div P
<1>1. P \in Nat /\ P > 0 /\ N \in Nat /\ r \in Nat /\ t \in Nat /\ t <= N
  BY RateAssumption DEF ConfigType
<1>2. L \in Nat
  BY LeadBounds
<1> HIDE DEF L
<1>3. t * r \in Nat
  BY <1>1, Z3
<1>4. y \in Nat /\ y * P >= t * r - (P - 1)
  <2> DEFINE z == t * r
  <2>1. z \in Nat BY <1>3
  <2> HIDE DEF z
  <2>2. z \div P \in Nat /\ (z \div P) * P >= z - (P - 1)
    BY <2>1, <1>1, Z3
  <2> QED BY <2>2 DEF z
<1> SUFFICES t <= L + y
  BY DEF y, L
<1> HIDE DEF y
<1>5. CASE L = N
  BY <1>1, <1>2, <1>4, <1>5
<1>6. CASE r >= P
  <2>1. t * r >= t * P
    BY <1>1, <1>6, Z3
  <2>2. y * P >= t * P - (P - 1)
    BY <2>1, <1>1, <1>3, <1>4, Z3
  <2>3. y >= t
    <3> SUFFICES ASSUME y <= t - 1 PROVE FALSE
      BY <1>1, <1>4
    <3>1. y * P <= (t - 1) * P
      BY <1>1, <1>4, Z3
    <3>2. (t - 1) * P = t * P - P
      BY <1>1, Z3
    <3> QED BY <2>2, <3>1, <3>2, <1>1, <1>4, Z3
  <2> QED BY <2>3, <1>1, <1>2, <1>4
<1>7. CASE r < P /\ L * P >= N * (P - r)
  <2>1. N * (P - r) >= t * (P - r)
    BY <1>1, <1>7, Z3
  <2>2. t * (P - r) = t * P - t * r
    BY <1>1, Z3
  <2>3. (L + y) * P = L * P + y * P
    BY <1>1, <1>2, <1>4, Z3
  <2>4. (L + y) * P >= t * P - (P - 1)
    BY <2>1, <2>2, <2>3, <1>7, <1>4, <1>3, <1>1, <1>2, Z3
  <2>5. L + y >= t
    <3> SUFFICES ASSUME L + y <= t - 1 PROVE FALSE
      BY <1>1, <1>2, <1>4
    <3>1. (L + y) * P <= (t - 1) * P
      BY <1>1, <1>2, <1>4, Z3
    <3>2. (t - 1) * P = t * P - P
      BY <1>1, Z3
    <3> QED BY <2>4, <3>1, <3>2, <1>1, <1>2, <1>4, Z3
  <2> QED BY <2>5, <1>1, <1>2, <1>4
<1> QED BY <1>5, <1>6, <1>7, <1>1, LeadBounds DEF L

-----------------------------------------------------------------------------
(* Each method keeps SchedulerInv.                                         *)

LEMMA NewSchedulerInv == SchedulerInv(NewScheduler)
BY TokenAssumption
   DEF SchedulerInv, NewScheduler, SchedulerType, ConfigType, Action, NoAction, Kind, State,
       StatusCode, Ordered, PendingFits, Flags, Pending, IsTerminal, Queued, Staged

LEMMA ConfigureInv ==
  ASSUME NEW s, SchedulerInv(s), NEW c \in ConfigType
  PROVE  SchedulerInv(ConfigureOp(s, c))
<1> DEFINE t == ConfigureOp(s, c)
<1>1. CASE ConfigureStatus(s, c) # "ok"
  BY <1>1 DEF ConfigureOp
<1>2. CASE ConfigureStatus(s, c) = "ok"
  <2>1. c \in ConfigType /\ ValidConfig(c)
    BY <1>2 DEF ConfigureStatus
  <2>2. RequiredLead(c) \in Nat
    BY <2>1, LeadBounds
  <2>3. s.nextToken \in 1 .. MaxToken
    BY DEF SchedulerInv, SchedulerType
  <2>4. t = [state |-> "ready", config |-> c, lead |-> RequiredLead(c),
             produced |-> 0, written |-> 0, committed |-> 0, read |-> 0, consumed |-> 0,
             nextToken |-> s.nextToken, pending |-> NoAction, status |-> "ok",
             started |-> FALSE, finalized |-> FALSE, released |-> FALSE]
    BY <1>2 DEF ConfigureOp, ResetRun, NewScheduler
  <2> HIDE DEF t
  <2>5. t \in SchedulerType
    BY <2>1, <2>2, <2>3, <2>4 DEF SchedulerType, State, Action, NoAction, Kind, StatusCode
  <2>6. Ordered(t) /\ PendingFits(t)
    BY <2>1, <2>3, <2>4, TokenAssumption
       DEF Ordered, PendingFits, NoAction, Pending, Queued, Staged, ConfigType
  <2>7. Flags(t)
    BY <2>1, <2>4 DEF Flags, NoAction, Pending, IsTerminal
  <2> QED BY <2>5, <2>6, <2>7 DEF SchedulerInv, t
<1> QED BY <1>1, <1>2

(* A plan that is granted asks for what PendingFits will need.             *)
PlanFits(s, plan) ==
  plan.status = "ok" =>
    /\ IsOpen(s) /\ ~Pending(s) /\ s.nextToken < MaxToken
    /\ plan.kind \in Kind /\ plan.first \in Nat /\ plan.frames \in Nat
    /\ Fits(s, plan)

LEMMA RefuseFits ==
  ASSUME NEW s, NEW status, status # "ok"
  PROVE  PlanFits(s, Refuse(status))
BY DEF PlanFits, Refuse

LEMMA PlanFacts ==
  ASSUME NEW s, SchedulerInv(s)
  PROVE  /\ s.produced \in Nat /\ s.written \in Nat /\ s.committed \in Nat
         /\ s.read \in Nat /\ s.consumed \in Nat /\ s.nextToken \in 1 .. MaxToken
         /\ s.config.total \in Nat /\ s.config.block \in Nat /\ s.config.queue \in Nat
BY DEF SchedulerInv, SchedulerType, ConfigType

LEMMA PlanProduceFits ==
  ASSUME NEW s, SchedulerInv(s), NEW n \in Nat
  PROVE  PlanFits(s, PlanProduce(s, n))
BY PlanFacts, TokenAssumption
   DEF PlanFits, PlanProduce, PlanAction, Refuse, Kind, Fits, Staged, SchedulerInv, Ordered

LEMMA PlanWriteFits ==
  ASSUME NEW s, SchedulerInv(s), NEW n \in Nat
  PROVE  PlanFits(s, PlanWrite(s, n))
BY PlanFacts, TokenAssumption
   DEF PlanFits, PlanWrite, PlanAction, Refuse, Kind, Fits, Staged, SchedulerInv, Ordered

LEMMA PlanBarrierFits ==
  ASSUME NEW s, SchedulerInv(s)
  PROVE  PlanFits(s, PlanBarrier(s))
BY PlanFacts, TokenAssumption
   DEF PlanFits, PlanBarrier, PlanAction, Refuse, Kind, Fits, SchedulerInv, Ordered

LEMMA PlanReadFits ==
  ASSUME NEW s, SchedulerInv(s), NEW n \in Nat
  PROVE  PlanFits(s, PlanRead(s, n))
BY PlanFacts, TokenAssumption
   DEF PlanFits, PlanRead, PlanAction, Refuse, Kind, Fits, Queued, SchedulerInv, Ordered

LEMMA PlanFinalizeFits ==
  ASSUME NEW s, SchedulerInv(s)
  PROVE  PlanFits(s, PlanFinalize(s))
<1>1. CASE s.state = "running" /\ AllAtTotal(s) /\ ~s.finalized
  <2>1. PlanFinalize(s) = PlanAction(s, "finalize", s.config.total, 0)
    BY <1>1 DEF PlanFinalize
  <2> QED BY <1>1, <2>1, PlanFacts, TokenAssumption
          DEF PlanFits, PlanAction, Refuse, Kind, Fits, IsOpen
<1>2. CASE ~(s.state = "running" /\ AllAtTotal(s) /\ ~s.finalized)
  BY <1>2, RefuseFits DEF PlanFinalize
<1> QED BY <1>1, <1>2

(* next_action() only ever delegates to the begin_*() methods.             *)
LEMMA NextActionFits ==
  ASSUME NEW s, SchedulerInv(s)
  PROVE  PlanFits(s, NextAction(s))
<1> USE PlanFacts
<1>1. \A a, b \in Nat : Min2(a, b) \in Nat
  BY DEF Min2
<1>2. /\ Staged(s) \in Nat /\ s.config.total - s.produced \in Nat
      /\ s.committed - s.read \in Nat /\ Room(s) \in Nat
  BY DEF SchedulerInv, Ordered, Staged, Room, Queued
<1>3. PlanFits(s, PlanBarrierOrWrite(s))
  BY <1>1, <1>2, PlanBarrierFits, PlanWriteFits DEF PlanBarrierOrWrite
<1>4. PlanFits(s, PlanProduceBlock(s))
  BY <1>1, <1>2, PlanProduceFits DEF PlanProduceBlock
<1>5. PlanFits(s, PlanFinalize(s))
  BY PlanFinalizeFits
<1>6. PlanFits(s, Refuse("busy")) /\ PlanFits(s, Refuse("invalid_configuration"))
  BY RefuseFits
<1>7. PlanFits(s, NextWhenReady(s))
  <2> DEFINE count == Min2(s.config.block, Min2(Room(s), s.committed - s.read))
  <2>1. count \in Nat
    BY <1>1, <1>2
  <2>2. PlanFits(s, PlanRead(s, count))
    BY <2>1, PlanReadFits
  <2> QED BY <2>2, <1>3, <1>4, <1>6, Zenon DEF NextWhenReady
<1>8. PlanFits(s, NextWhenRunning(s))
  <2> DEFINE refill == Min2(s.config.block, s.committed - s.read)
  <2>1. refill \in Nat
    BY <1>1, <1>2
  <2>2. PlanFits(s, PlanRead(s, refill))
    BY <2>1, PlanReadFits
  <2> QED BY <2>2, <1>3, <1>4, <1>5, <1>6, Zenon DEF NextWhenRunning
<1> QED BY <1>6, <1>7, <1>8 DEF NextAction

LEMMA IssueInv ==
  ASSUME NEW s, SchedulerInv(s), NEW plan, PlanFits(s, plan), plan.status = "ok"
  PROVE  SchedulerInv(Issue(s, plan))
<1> DEFINE a == [token |-> s.nextToken, first |-> plan.first,
                 frames |-> plan.frames, kind |-> plan.kind]
           t == Issue(s, plan)
<1>1. s \in SchedulerType /\ s.nextToken \in 1 .. MaxToken /\ s.nextToken + 1 \in 1 .. MaxToken
  BY TokenAssumption DEF SchedulerInv, SchedulerType, PlanFits
<1>2. a \in Action
  BY <1>1 DEF Action, PlanFits
<1>3. t = [s EXCEPT !.pending = a, !.nextToken = @ + 1]
  BY DEF Issue
<1> HIDE DEF a, t
<1>4. t \in SchedulerType
  BY <1>1, <1>2, <1>3 DEF SchedulerType
<1>5. Ordered(t)
  BY <1>1, <1>3 DEF SchedulerInv, SchedulerType, Ordered, Queued, Staged
<1>6. PendingFits(t)
  <2>1. Fits(t, a)
    BY <1>1, <1>3 DEF a, SchedulerType, PlanFits, Fits, AllAtTotal, Staged, Queued, IsOpen
  <2>2. a.token = s.nextToken /\ t.pending = a /\ t.nextToken = s.nextToken + 1
    BY <1>1, <1>3 DEF a, SchedulerType
  <2> QED BY <2>1, <2>2, <1>1 DEF PendingFits
<1>7. Flags(t)
  <2>1. s.state \in {"ready", "running"}
    BY DEF PlanFits, IsOpen
  <2> QED BY <2>1, <1>1, <1>3 DEF SchedulerInv, SchedulerType, Flags, AllAtTotal, Prefill, IsTerminal
<1> QED BY <1>4, <1>5, <1>6, <1>7 DEF SchedulerInv, t

LEMMA StartInv ==
  ASSUME NEW s, SchedulerInv(s)
  PROVE  SchedulerInv(StartOp(s))
<1> DEFINE t == StartOp(s)
<1>1. CASE StartStatus(s) # "ok"
  BY <1>1 DEF StartOp
<1>2. CASE StartStatus(s) = "ok"
  <2>1. s \in SchedulerType /\ s.state = "ready"
    BY <1>2 DEF StartStatus, SchedulerInv
  <2>2. t = [s EXCEPT !.started = TRUE, !.state = "running"]
    BY <1>2 DEF StartOp
  <2> HIDE DEF t
  <2>3. t \in SchedulerType
    BY <2>1, <2>2 DEF SchedulerType, State
  <2>4. Ordered(t) /\ PendingFits(t)
    BY <2>1, <2>2 DEF SchedulerInv, SchedulerType, Ordered, PendingFits, Pending, Fits,
                      AllAtTotal, Queued, Staged, IsOpen
  <2>5. s.committed >= s.lead /\ s.committed >= Prefill(s)
    <3>1. s.committed >= s.lead /\ Queued(s) >= Prefill(s)
      BY <1>2, <2>1, PlanFacts DEF StartStatus, SchedulerType, Queued, Prefill, Min2
    <3> QED BY <3>1, <2>1, PlanFacts DEF SchedulerInv, Ordered, Queued, Prefill, Min2
  <2>6. Flags(t)
    BY <2>1, <2>2, <2>5
       DEF SchedulerInv, SchedulerType, Flags, AllAtTotal, Prefill, IsTerminal, Pending
  <2> QED BY <2>3, <2>4, <2>6 DEF SchedulerInv, t
<1> QED BY <1>1, <1>2

(* A run that stops, by a failure or a cancellation, keeps its cursors.    *)
LEMMA LatchInv ==
  ASSUME NEW s, SchedulerInv(s), s.state \in {"ready", "running", "cancelling"},
         NEW reason \in StatusCode, NEW state \in {"failed", "cancelling", "cancelled"},
         state = "cancelled" => ~Pending(s)
  PROVE  SchedulerInv(Latch(s, reason, state)) /\ Latch(s, reason, state).status # "ok"
<1> DEFINE code == IF s.status = "ok" THEN (IF reason = "ok" THEN "internal_error" ELSE reason)
                   ELSE s.status
           t == Latch(s, reason, state)
<1>1. s \in SchedulerType
  BY DEF SchedulerInv
<1>2. code \in StatusCode /\ code # "ok"
  BY <1>1 DEF SchedulerType, StatusCode
<1>3. t = [s EXCEPT !.status = code, !.state = state]
  BY DEF Latch
<1> HIDE DEF t, code
<1>4. t \in SchedulerType
  BY <1>1, <1>2, <1>3 DEF SchedulerType, State
<1>5. Ordered(t) /\ PendingFits(t)
  BY <1>1, <1>3 DEF SchedulerInv, SchedulerType, Ordered, PendingFits, Pending, Fits,
                    AllAtTotal, Queued, Staged, IsOpen
<1>6. Flags(t)
  BY <1>1, <1>2, <1>3 DEF SchedulerInv, SchedulerType, Flags, AllAtTotal, Prefill, IsTerminal, Pending
<1>7. t.status = code
  BY <1>1, <1>3 DEF SchedulerType
<1> QED BY <1>2, <1>4, <1>5, <1>6, <1>7 DEF SchedulerInv, t

LEMMA FailInv ==
  ASSUME NEW s, SchedulerInv(s), NEW reason \in StatusCode
  PROVE  SchedulerInv(FailOp(s, reason))
<1>1. s.state \in State
  BY DEF SchedulerInv, SchedulerType
<1> QED BY <1>1, LatchInv DEF FailOp, State, IsTerminal

LEMMA CancelInv ==
  ASSUME NEW s, SchedulerInv(s)
  PROVE  SchedulerInv(CancelOp(s))
<1>1. s.state \in State /\ "unavailable" \in StatusCode
  BY DEF SchedulerInv, SchedulerType, StatusCode
<1> QED BY <1>1, LatchInv DEF CancelOp, State, IsTerminal

LEMMA ReleaseInv ==
  ASSUME NEW s, SchedulerInv(s)
  PROVE  SchedulerInv(ReleaseOp(s))
<1> DEFINE t == ReleaseOp(s)
<1>1. CASE ReleaseStatus(s) # "ok"
  BY <1>1 DEF ReleaseOp
<1>2. CASE ReleaseStatus(s) = "ok"
  <2>1. s \in SchedulerType /\ IsTerminal(s)
    BY <1>2 DEF ReleaseStatus, SchedulerInv
  <2>2. t = [s EXCEPT !.released = TRUE]
    BY <1>2 DEF ReleaseOp
  <2> HIDE DEF t
  <2>3. t \in SchedulerType
    BY <2>1, <2>2 DEF SchedulerType
  <2>4. Ordered(t) /\ PendingFits(t)
    BY <2>1, <2>2 DEF SchedulerInv, SchedulerType, Ordered, PendingFits, Pending, Fits,
                      AllAtTotal, Queued, Staged, IsOpen
  <2>5. Flags(t)
    BY <2>1, <2>2 DEF SchedulerInv, SchedulerType, Flags, AllAtTotal, Prefill, IsTerminal, Pending
  <2> QED BY <2>3, <2>4, <2>5 DEF SchedulerInv, t
<1> QED BY <1>1, <1>2

(* consume() may run while a ticket is pending: it only frees queue room.  *)
LEMMA ConsumeInv ==
  ASSUME NEW s, SchedulerInv(s), NEW n \in Nat
  PROVE  SchedulerInv(ConsumeOp(s, n))
<1> DEFINE t == ConsumeOp(s, n)
<1>1. CASE ConsumeStatus(s, n) = "ok"
  <2>1. s \in SchedulerType /\ s.state = "running" /\ n # 0 /\ n <= Queued(s)
    BY <1>1, PlanFacts DEF ConsumeStatus, SchedulerInv, Queued
  <2>2. t = [s EXCEPT !.consumed = @ + n]
    BY <1>1 DEF ConsumeOp
  <2> HIDE DEF t
  <2>3. t \in SchedulerType
    BY <2>1, <2>2 DEF SchedulerType
  <2>4. Ordered(t)
    BY <2>1, <2>2, PlanFacts DEF SchedulerInv, SchedulerType, Ordered, Queued, Staged
  <2>5. /\ s.pending.kind = t.pending.kind /\ s.pending = t.pending /\ t.nextToken = s.nextToken
        /\ t.state = s.state /\ t.consumed = s.consumed + n /\ t.read = s.read
        /\ t.committed = s.committed /\ t.written = s.written /\ t.produced = s.produced
        /\ t.config = s.config
    BY <2>1, <2>2 DEF SchedulerType
  <2>6. s.pending.first \in Nat /\ s.pending.frames \in Nat
    BY <2>1 DEF SchedulerType, Action
  <2>7. Pending(s) => s.pending.kind # "finalize"
    BY <2>1, PlanFacts DEF SchedulerInv, PendingFits, Fits, AllAtTotal, Queued
  <2>8. PendingFits(t)
    BY <2>5, <2>6, <2>7, PlanFacts DEF SchedulerInv, PendingFits, Pending, Fits, Queued, Staged
  <2>9. Flags(t)
    BY <2>1, <2>2 DEF SchedulerInv, SchedulerType, Flags, AllAtTotal, Prefill, IsTerminal, Pending
  <2> QED BY <2>3, <2>4, <2>8, <2>9 DEF SchedulerInv, t
<1>2. CASE ConsumeStatus(s, n) = "timeout"
  <2>1. s.state = "running" /\ "timeout" \in StatusCode
    BY <1>2 DEF ConsumeStatus, StatusCode
  <2>2. t = Latch(s, "timeout", "failed")
    BY <1>2 DEF ConsumeOp
  <2> QED BY <2>1, <2>2, LatchInv
<1>3. CASE ConsumeStatus(s, n) \notin {"ok", "timeout"}
  BY <1>3 DEF ConsumeOp
<1> QED BY <1>1, <1>2, <1>3

(* Settling an honest completion advances exactly one cursor.              *)
LEMMA AdvanceInv ==
  ASSUME NEW s, SchedulerInv(s), IsOpen(s), Pending(s)
  PROVE  LET t == [s EXCEPT !.pending = NoAction]
         IN  CursorMatches(t, s.pending) /\ SchedulerInv(Advance(t, s.pending))
<1> DEFINE a == s.pending
           t == [s EXCEPT !.pending = NoAction]
           u == Advance(t, a)
<1>1. s \in SchedulerType /\ a \in Action /\ a.kind \in Kind
  BY DEF SchedulerInv, SchedulerType, Action
<1>2. Fits(s, a) /\ Ordered(s) /\ Flags(s)
  BY DEF SchedulerInv, PendingFits
<1>3. NoAction \in Action /\ NoAction.token = 0
  BY DEF NoAction, Action, Kind
<1>4. t \in SchedulerType /\ t.pending = NoAction
  BY <1>1, <1>3 DEF SchedulerType
<1>5. /\ t.produced = s.produced /\ t.written = s.written /\ t.committed = s.committed
      /\ t.read = s.read /\ t.consumed = s.consumed /\ t.config = s.config /\ t.state = s.state
      /\ t.nextToken = s.nextToken /\ t.status = s.status /\ t.started = s.started
      /\ t.finalized = s.finalized /\ t.released = s.released /\ t.lead = s.lead
  BY <1>1 DEF SchedulerType
<1>6. s.state \in {"ready", "running"} /\ s.status = "ok" /\ ~s.finalized
  BY <1>2 DEF IsOpen, Flags
<1>7. a.first \in Nat /\ a.frames \in Nat
  BY <1>1 DEF Action
<1> HIDE DEF t
<1>8. CursorMatches(t, a)
  <2>1. a.kind = "produce" => a.first = t.produced
    BY <1>2, <1>5 DEF Fits
  <2>2. a.kind = "write" => a.first = t.written /\ a.frames <= Staged(t)
    BY <1>2, <1>5, <1>7, PlanFacts DEF Fits, Staged, Ordered
  <2>3. a.kind = "barrier" => a.first = t.committed /\ a.first + a.frames = t.written
    BY <1>2, <1>5 DEF Fits
  <2>4. a.kind = "read" => a.first = t.read /\ a.first + a.frames <= t.committed
    BY <1>2, <1>5 DEF Fits
  <2> QED BY <2>1, <2>2, <2>3, <2>4, <1>1 DEF CursorMatches, Kind
<1> SUFFICES SchedulerInv(u)
  BY <1>8 DEF u, t
<1> HIDE DEF u
<1>9. ASSUME u \in SchedulerType, u.pending = NoAction, u.nextToken = s.nextToken
      PROVE  PendingFits(u)
  BY <1>9, <1>3, PlanFacts DEF PendingFits, Pending
<1>10. CASE a.kind = "produce"
  <2>1. u = [t EXCEPT !.produced = @ + a.frames]
    BY <1>10 DEF u, Advance
  <2>2. u \in SchedulerType /\ u.pending = NoAction /\ u.nextToken = s.nextToken
    BY <2>1, <1>4, <1>5, <1>7 DEF SchedulerType
  <2>3. Ordered(u)
    BY <2>1, <1>4, <1>5, <1>2, <1>7, <1>10, PlanFacts DEF SchedulerType, Ordered, Fits, Staged, Queued
  <2>4. Flags(u)
    BY <2>1, <1>4, <1>5, <1>2, <1>3, <1>6, PlanFacts
       DEF SchedulerType, Flags, IsTerminal, Pending, Prefill
  <2> QED BY <2>2, <2>3, <2>4, <1>9 DEF SchedulerInv
<1>11. CASE a.kind = "write"
  <2>1. u = [t EXCEPT !.written = @ + a.frames]
    BY <1>11 DEF u, Advance
  <2>2. u \in SchedulerType /\ u.pending = NoAction /\ u.nextToken = s.nextToken
    BY <2>1, <1>4, <1>5, <1>7 DEF SchedulerType
  <2>3. Ordered(u)
    BY <2>1, <1>4, <1>5, <1>2, <1>7, <1>11, PlanFacts DEF SchedulerType, Ordered, Fits, Staged, Queued
  <2>4. Flags(u)
    BY <2>1, <1>4, <1>5, <1>2, <1>3, <1>6, PlanFacts
       DEF SchedulerType, Flags, IsTerminal, Pending, Prefill
  <2> QED BY <2>2, <2>3, <2>4, <1>9 DEF SchedulerInv
<1>12. CASE a.kind = "barrier"
  <2>1. u = [t EXCEPT !.committed = t.written]
    BY <1>12 DEF u, Advance
  <2>2. u \in SchedulerType /\ u.pending = NoAction /\ u.nextToken = s.nextToken
    BY <2>1, <1>4, <1>5, <1>7 DEF SchedulerType
  <2>3. Ordered(u)
    BY <2>1, <1>4, <1>5, <1>2, <1>7, <1>12, PlanFacts DEF SchedulerType, Ordered, Fits, Staged, Queued
  <2>4. u.committed >= s.committed
    BY <2>1, <1>4, <1>5, <1>2, PlanFacts DEF SchedulerType, Ordered
  <2>5. Flags(u)
    <3>1. s.started => u.committed >= s.lead /\ u.committed >= Prefill(s)
      BY <2>2, <2>4, <1>1, <1>2, PlanFacts DEF Flags, SchedulerType, Prefill, Min2
    <3> QED BY <3>1, <2>1, <1>4, <1>5, <1>2, <1>3, <1>6, PlanFacts
            DEF SchedulerType, Flags, IsTerminal, Pending, Prefill
  <2> QED BY <2>2, <2>3, <2>5, <1>9 DEF SchedulerInv
<1>13. CASE a.kind = "read"
  <2>1. u = [t EXCEPT !.read = @ + a.frames]
    BY <1>13 DEF u, Advance
  <2>2. u \in SchedulerType /\ u.pending = NoAction /\ u.nextToken = s.nextToken
    BY <2>1, <1>4, <1>5, <1>7 DEF SchedulerType
  <2>3. Ordered(u)
    BY <2>1, <1>4, <1>5, <1>2, <1>7, <1>13, PlanFacts DEF SchedulerType, Ordered, Fits, Staged, Queued
  <2>4. Flags(u)
    BY <2>1, <1>4, <1>5, <1>2, <1>3, <1>6, PlanFacts
       DEF SchedulerType, Flags, IsTerminal, Pending, Prefill
  <2> QED BY <2>2, <2>3, <2>4, <1>9 DEF SchedulerInv
<1>14. CASE a.kind = "finalize"
  <2>1. u = [t EXCEPT !.finalized = TRUE, !.state = "completed"]
    BY <1>14 DEF u, Advance
  <2>2. u \in SchedulerType /\ u.pending = NoAction /\ u.nextToken = s.nextToken
    BY <2>1, <1>4, <1>5 DEF SchedulerType, State
  <2>3. Ordered(u)
    BY <2>1, <1>4, <1>5, <1>2, PlanFacts DEF SchedulerType, Ordered, Staged, Queued
  <2>4. AllAtTotal(u) /\ s.started
    BY <2>1, <1>4, <1>5, <1>2, <1>14 DEF SchedulerType, Fits, AllAtTotal, Flags
  <2>5. Flags(u)
    BY <2>1, <2>4, <1>4, <1>5, <1>2, <1>3, <1>6, PlanFacts
       DEF SchedulerType, Flags, IsTerminal, Pending, Prefill
  <2> QED BY <2>2, <2>3, <2>5, <1>9 DEF SchedulerInv
<1> QED BY <1>1, <1>10, <1>11, <1>12, <1>13, <1>14 DEF Kind

(* Settling a ticket of a stopped run, or with an error, drops the ticket. *)
LEMMA DropTicketInv ==
  ASSUME NEW s, SchedulerInv(s), Pending(s)
  PROVE  SchedulerInv([s EXCEPT !.pending = NoAction])
<1> DEFINE t == [s EXCEPT !.pending = NoAction]
<1>1. s \in SchedulerType
  BY DEF SchedulerInv
<1>2. NoAction \in Action /\ NoAction.token = 0
  BY DEF NoAction, Action, Kind
<1>3. t \in SchedulerType /\ t.pending = NoAction
  BY <1>1, <1>2 DEF SchedulerType
<1>4. PendingFits(t)
  BY <1>1, <1>2, <1>3, PlanFacts DEF PendingFits, Pending, SchedulerType
<1>5. Ordered(t)
  BY <1>1 DEF SchedulerInv, SchedulerType, Ordered, Queued, Staged
<1>6. Flags(t)
  BY <1>1, <1>2, <1>3 DEF SchedulerInv, SchedulerType, Flags, AllAtTotal, Prefill, IsTerminal, Pending
<1> QED BY <1>3, <1>4, <1>5, <1>6 DEF SchedulerInv

LEMMA CompleteInv ==
  ASSUME NEW s, SchedulerInv(s), NEW a, NEW status \in StatusCode, NEW n
  PROVE  SchedulerInv(CompleteOp(s, a, status, n))
<1> DEFINE t == [s EXCEPT !.pending = NoAction]
<1>1. CASE ~ActionMatches(s, a)
  BY <1>1 DEF CompleteOp
<1>2. CASE ActionMatches(s, a)
  <2>1. a = s.pending /\ Pending(s) /\ s \in SchedulerType
    BY <1>2 DEF ActionMatches, SchedulerInv
  <2>2. SchedulerInv(t)
    BY <2>1, DropTicketInv
  <2>3. t.state = s.state /\ t.status = s.status /\ ~Pending(t)
    BY <2>1 DEF SchedulerType, Pending, NoAction
  <2>4. CASE s.state = "cancelling"
    <3>1. CompleteOp(s, a, status, n) = [t EXCEPT !.state = "cancelled"]
      BY <1>2, <2>4 DEF CompleteOp
    <3>2. t.status # "ok" /\ t \in SchedulerType
      BY <2>2, <2>3, <2>4 DEF SchedulerInv, Flags
    <3>3. Latch(t, "unavailable", "cancelled") = [t EXCEPT !.state = "cancelled"]
      BY <3>2 DEF Latch, SchedulerType
    <3>4. "unavailable" \in StatusCode
      BY DEF StatusCode
    <3> HIDE DEF t
    <3>5. SchedulerInv(Latch(t, "unavailable", "cancelled"))
      BY <3>4, <2>2, <2>3, <2>4, LatchInv
    <3> QED BY <3>1, <3>3, <3>5
  <2>5. CASE s.state = "failed"
    BY <2>2, <2>5, <1>2 DEF CompleteOp
  <2>6. CASE s.state \notin {"cancelling", "failed"}
    <3>1. IsOpen(s) /\ t.state \in {"ready", "running"}
      BY <2>1, <2>3, <2>6 DEF SchedulerInv, Flags, SchedulerType, State, IsOpen
    <3>2. "io_error" \in StatusCode
      BY DEF StatusCode
    <3>3. SchedulerInv(Latch(t, status, "failed")) /\ SchedulerInv(Latch(t, "io_error", "failed"))
      BY <3>1, <3>2, <2>2, LatchInv
    <3>4. SchedulerInv(Advance(t, a))
      BY <3>1, <2>1, AdvanceInv
    <3> HIDE DEF t
    <3>5. \/ CompleteOp(s, a, status, n) = Latch(t, status, "failed")
          \/ CompleteOp(s, a, status, n) = Latch(t, "io_error", "failed")
          \/ CompleteOp(s, a, status, n) = Advance(t, a)
      BY <1>2, <2>6 DEF CompleteOp, t
    <3> QED BY <3>3, <3>4, <3>5
  <2> QED BY <2>4, <2>5, <2>6
<1> QED BY <1>1, <1>2

-----------------------------------------------------------------------------
(* What one call may not do to a run, on the records before and after it.  *)

(* A latched error is replaced only by configuring the next run.           *)
ErrorKept(s, t) ==
  s.status # "ok" /\ t.status # s.status =>
    s.released /\ ~Pending(s) /\ IsTerminal(s) /\ t.state = "ready"

SameCursors(s, t) ==
  /\ <<s.produced, s.written, s.committed>> = <<t.produced, t.written, t.committed>>
  /\ <<s.read, s.consumed>> = <<t.read, t.consumed>>

(* A ticket is kept until it is settled, and a new one has a new number.   *)
TicketKept(s, t) ==
  /\ t.nextToken >= s.nextToken
  /\ Pending(s) /\ Pending(t) => t.pending = s.pending
  /\ ~Pending(s) /\ Pending(t) => t.pending.token = s.nextToken /\ t.nextToken > s.nextToken

RunKept(s, t) ==
  /\ ErrorKept(s, t)
  /\ ~IsOpen(s) /\ ~IsOpen(t) => SameCursors(s, t)
  /\ TicketKept(s, t)

(* Every call but configure() and begin_*() leaves the numbers alone, at   *)
(* most settles the ticket, and latches at most a first error.             *)
LEMMA QuietCallKept ==
  ASSUME NEW s, SchedulerInv(s), NEW t,
         t.nextToken = s.nextToken,
         t.pending = s.pending \/ t.pending = NoAction,
         s.status = "ok" \/ t.status = s.status,
         IsOpen(s) \/ SameCursors(s, t)
  PROVE  RunKept(s, t)
<1>1. s.nextToken \in Nat
  BY PlanFacts
<1>2. NoAction.token = 0
  BY DEF NoAction
<1>3. ErrorKept(s, t)
  BY DEF ErrorKept
<1>4. TicketKept(s, t)
  BY <1>1, <1>2 DEF TicketKept, Pending
<1> QED BY <1>3, <1>4 DEF RunKept

LEMMA SameRunKept ==
  ASSUME NEW s, SchedulerInv(s)
  PROVE  RunKept(s, s)
BY QuietCallKept DEF SameCursors

LEMMA ConfigureKept ==
  ASSUME NEW s, SchedulerInv(s), NEW c \in Configs, ConfigureStatus(s, c) = "ok"
  PROVE  RunKept(s, ConfigureOp(s, c))
<1> DEFINE t == ConfigureOp(s, c)
<1>1. t.state = "ready" /\ t.status = "ok" /\ t.pending = NoAction /\ t.nextToken = s.nextToken
  BY DEF ConfigureOp, ResetRun, NewScheduler
<1>2. ~Pending(s) /\ (s.state = "unconfigured" \/ (IsTerminal(s) /\ s.released))
  BY DEF ConfigureStatus
<1>3. s.state = "unconfigured" => s.status = "ok"
  BY DEF SchedulerInv, Flags
<1> HIDE DEF t
<1>4. ErrorKept(s, t)
  BY <1>1, <1>2, <1>3 DEF ErrorKept
<1>5. TicketKept(s, t)
  BY <1>1, PlanFacts DEF TicketKept, Pending, NoAction
<1> QED BY <1>1, <1>4, <1>5 DEF RunKept, IsOpen, t

LEMMA IssueKept ==
  ASSUME NEW s, SchedulerInv(s), NEW plan, PlanFits(s, plan), plan.status = "ok"
  PROVE  RunKept(s, Issue(s, plan))
<1> DEFINE t == Issue(s, plan)
<1>1. s \in SchedulerType /\ s.nextToken \in Nat
  BY PlanFacts DEF SchedulerInv
<1>2. t.status = s.status /\ t.nextToken = s.nextToken + 1 /\ t.pending.token = s.nextToken
  BY <1>1 DEF Issue, SchedulerType
<1>3. IsOpen(s) /\ ~Pending(s)
  BY DEF PlanFits
<1> HIDE DEF t
<1> QED BY <1>1, <1>2, <1>3 DEF RunKept, ErrorKept, TicketKept, t

(* A latch touches neither the cursors nor the ticket.                     *)
LEMMA LatchKeeps ==
  ASSUME NEW s, s \in SchedulerType, NEW reason, NEW state
  PROVE  LET t == Latch(s, reason, state)
         IN  /\ t.nextToken = s.nextToken /\ t.pending = s.pending /\ SameCursors(s, t)
             /\ s.status = "ok" \/ t.status = s.status
BY DEF Latch, SchedulerType, SameCursors

LEMMA LatchKept ==
  ASSUME NEW s, SchedulerInv(s), NEW reason, NEW state
  PROVE  RunKept(s, Latch(s, reason, state))
<1> DEFINE t == Latch(s, reason, state)
<1>1. /\ t.nextToken = s.nextToken /\ t.pending = s.pending /\ SameCursors(s, t)
      /\ s.status = "ok" \/ t.status = s.status
  BY LatchKeeps DEF SchedulerInv
<1> HIDE DEF t
<1>2. RunKept(s, t)
  BY <1>1, QuietCallKept
<1> QED BY <1>2 DEF t

LEMMA StartKept ==
  ASSUME NEW s, SchedulerInv(s), StartStatus(s) = "ok"
  PROVE  RunKept(s, StartOp(s))
<1> DEFINE t == StartOp(s)
<1>1. s \in SchedulerType
  BY DEF SchedulerInv
<1>2. /\ t.nextToken = s.nextToken /\ t.pending = s.pending /\ t.status = s.status
      /\ SameCursors(s, t)
  BY <1>1 DEF StartOp, SchedulerType, SameCursors
<1> HIDE DEF t
<1>3. RunKept(s, t)
  BY <1>2, QuietCallKept
<1> QED BY <1>3 DEF t

LEMMA ConsumeKept ==
  ASSUME NEW s, SchedulerInv(s), NEW n
  PROVE  RunKept(s, ConsumeOp(s, n))
<1>1. CASE ConsumeStatus(s, n) = "ok"
  <2> DEFINE t == ConsumeOp(s, n)
  <2>1. s \in SchedulerType /\ IsOpen(s)
    BY <1>1 DEF SchedulerInv, ConsumeStatus, IsOpen
  <2>2. t.nextToken = s.nextToken /\ t.pending = s.pending /\ t.status = s.status
    BY <1>1, <2>1 DEF ConsumeOp, SchedulerType
  <2> HIDE DEF t
  <2>3. RunKept(s, t)
    BY <2>1, <2>2, QuietCallKept
  <2> QED BY <2>3 DEF t
<1>2. CASE ConsumeStatus(s, n) = "timeout"
  <2>1. ConsumeOp(s, n) = Latch(s, "timeout", "failed")
    BY <1>2 DEF ConsumeOp
  <2> QED BY <2>1, LatchKept
<1>3. CASE ConsumeStatus(s, n) \notin {"ok", "timeout"}
  BY <1>3, SameRunKept DEF ConsumeOp
<1> QED BY <1>1, <1>2, <1>3

LEMMA ReleaseKept ==
  ASSUME NEW s, SchedulerInv(s), ReleaseStatus(s) = "ok"
  PROVE  RunKept(s, ReleaseOp(s))
<1> DEFINE t == ReleaseOp(s)
<1>1. s \in SchedulerType
  BY DEF SchedulerInv
<1>2. /\ t.nextToken = s.nextToken /\ t.pending = s.pending /\ t.status = s.status
      /\ SameCursors(s, t)
  BY <1>1 DEF ReleaseOp, SchedulerType, SameCursors
<1> HIDE DEF t
<1>3. RunKept(s, t)
  BY <1>2, QuietCallKept
<1> QED BY <1>3 DEF t

(* complete() moves a cursor of an open run only.                          *)
LEMMA CompleteKept ==
  ASSUME NEW s, SchedulerInv(s), NEW a, NEW status, NEW n
  PROVE  RunKept(s, CompleteOp(s, a, status, n))
<1> DEFINE t == [s EXCEPT !.pending = NoAction]
           u == CompleteOp(s, a, status, n)
<1>1. CASE ~ActionMatches(s, a)
  BY <1>1, SameRunKept DEF CompleteOp
<1>2. CASE ActionMatches(s, a)
  <2>1. s \in SchedulerType /\ NoAction \in Action /\ a \in Action
    BY <1>2 DEF SchedulerInv, SchedulerType, ActionMatches, NoAction, Action, Kind
  <2>2. t \in SchedulerType
    BY <2>1 DEF SchedulerType
  <2>3. /\ t.nextToken = s.nextToken /\ t.pending = NoAction /\ t.status = s.status
        /\ SameCursors(s, t)
    BY <2>1 DEF SchedulerType, SameCursors
  <2> HIDE DEF t
  <2>4. CASE s.state = "cancelling"
    <3>1. u = [t EXCEPT !.state = "cancelled"]
      BY <1>2, <2>4 DEF CompleteOp, t
    <3>2. /\ u.nextToken = t.nextToken /\ u.pending = t.pending /\ u.status = t.status
          /\ SameCursors(t, u)
      BY <3>1, <2>2 DEF SchedulerType, SameCursors
    <3> HIDE DEF u
    <3>3. SameCursors(s, u)
      BY <2>3, <3>2 DEF SameCursors
    <3>4. RunKept(s, u)
      BY <2>3, <3>2, <3>3, QuietCallKept
    <3> QED BY <3>4 DEF u
  <2>5. CASE s.state = "failed"
    <3>1. u = t
      BY <1>2, <2>5 DEF CompleteOp, t
    <3>2. RunKept(s, t)
      BY <2>3, QuietCallKept
    <3> QED BY <3>1, <3>2
  <2>6. ASSUME NEW reason, u = Latch(t, reason, "failed")
        PROVE  RunKept(s, u)
    <3> HIDE DEF u
    <3>1. /\ u.nextToken = t.nextToken /\ u.pending = t.pending /\ SameCursors(t, u)
          /\ t.status = "ok" \/ u.status = t.status
      BY <2>2, <2>6, LatchKeeps
    <3>2. SameCursors(s, u)
      BY <2>3, <3>1 DEF SameCursors
    <3> QED BY <2>3, <3>1, <3>2, QuietCallKept
  <2>7. ASSUME s.state \notin {"cancelling", "failed"}, u = Advance(t, a)
        PROVE  RunKept(s, u)
    <3> HIDE DEF u
    <3>1. IsOpen(s)
      BY <1>2, <2>1, <2>7 DEF ActionMatches, SchedulerInv, Flags, SchedulerType, State, IsOpen
    <3>2. u.nextToken = t.nextToken /\ u.pending = t.pending /\ u.status = t.status
      BY <2>1, <2>2, <2>7 DEF Advance, SchedulerType, Action, Kind
    <3> QED BY <2>3, <3>1, <3>2, QuietCallKept
  <2>8. \/ s.state \in {"cancelling", "failed"}
        \/ u = Latch(t, status, "failed")
        \/ u = Latch(t, "io_error", "failed")
        \/ u = Advance(t, a)
    BY <1>2 DEF CompleteOp, t
  <2> HIDE DEF u
  <2> QED BY <2>4, <2>5, <2>6, <2>7, <2>8 DEF u
<1> QED BY <1>1, <1>2

-----------------------------------------------------------------------------
(* The theorems about the specification.                                   *)

(* IInv is inductive: every public method of Scheduler, called in any      *)
(* order, keeps the types, the cursor order, the pending ticket's grant    *)
(* and the flags, for every configuration, rate and ticket limit.          *)
THEOREM SchedulerInvariant == Spec => []IInv
<1>1. Init => IInv
  BY NewSchedulerInv DEF Init, IInv
<1>2. IInv /\ [Next]_vars => IInv'
  <2> SUFFICES ASSUME SchedulerInv(sched), [Next]_vars
               PROVE  SchedulerInv(sched')
    BY DEF IInv
  <2>1. BlockCounts \subseteq Nat
    BY PlanFacts DEF BlockCounts
  <2>2. ASSUME NEW c \in Configs, Configure(c)
        PROVE  SchedulerInv(sched')
    BY <2>2, ConfigsAssumption, ConfigureInv DEF Configure
  <2>3. ASSUME NEW plan, PlanFits(sched, plan), Begin(plan)
        PROVE  SchedulerInv(sched')
    BY <2>3, IssueInv DEF Begin
  <2>4. ASSUME NEW n \in BlockCounts, BeginProduce(n)
        PROVE  SchedulerInv(sched')
    BY <2>1, <2>3, <2>4, PlanProduceFits DEF BeginProduce
  <2>5. ASSUME NEW n \in BlockCounts, BeginWrite(n)
        PROVE  SchedulerInv(sched')
    BY <2>1, <2>3, <2>5, PlanWriteFits DEF BeginWrite
  <2>6. CASE BeginVisibilityBarrier
    BY <2>3, <2>6, PlanBarrierFits DEF BeginVisibilityBarrier
  <2>7. ASSUME NEW n \in BlockCounts, BeginRead(n)
        PROVE  SchedulerInv(sched')
    BY <2>1, <2>3, <2>7, PlanReadFits DEF BeginRead
  <2>8. CASE BeginFinalize
    BY <2>3, <2>8, PlanFinalizeFits DEF BeginFinalize
  <2>9. CASE BeginNextAction
    BY <2>3, <2>9, NextActionFits DEF BeginNextAction
  <2>10. ASSUME NEW status \in StatusCode, NEW n \in BlockCounts, Complete(status, n)
         PROVE  SchedulerInv(sched')
    BY <2>10, CompleteInv DEF Complete
  <2>11. CASE Start
    BY <2>11, StartInv DEF Start
  <2>12. ASSUME NEW n \in BlockCounts, Consume(n)
         PROVE  SchedulerInv(sched')
    BY <2>1, <2>12, ConsumeInv DEF Consume
  <2>13. ASSUME NEW reason \in StatusCode, Fail(reason)
         PROVE  SchedulerInv(sched')
    BY <2>13, FailInv DEF Fail
  <2>14. CASE Cancel
    BY <2>14, CancelInv DEF Cancel
  <2>15. CASE Release
    BY <2>15, ReleaseInv DEF Release
  <2>16. CASE UNCHANGED vars
    BY <2>16 DEF vars
  <2> QED BY <2>2, <2>4, <2>5, <2>6, <2>7, <2>8, <2>9, <2>10, <2>11, <2>12, <2>13, <2>14,
             <2>15, <2>16 DEF Next
<1> QED BY <1>1, <1>2, PTL DEF Spec

(* Scheduler's members keep their types and next_token_ never passes the   *)
(* largest 64-bit value.                                                   *)
THEOREM TypeCorrect == Spec => []TypeOK
<1>1. IInv => TypeOK
  BY DEF IInv, SchedulerInv, TypeOK
<1> QED BY <1>1, SchedulerInvariant, PTL

(* The watermarks of Scheduler stay ordered, and its staging block and     *)
(* playback queue never overflow.                                          *)
THEOREM WatermarksOrdered == Spec => []Watermarks
<1>1. IInv => Watermarks
  BY DEF IInv, SchedulerInv, Watermarks
<1> QED BY <1>1, SchedulerInvariant, PTL

(* complete() never rejects an honest completion of an open run.           *)
THEOREM HonestCompletion == Spec => []HonestCompletionAccepted
<1>1. IInv => HonestCompletionAccepted
  <2> SUFFICES ASSUME SchedulerInv(sched), Pending(sched), IsOpen(sched)
               PROVE  CompleteOp(sched, sched.pending, "ok", CountExpected(sched.pending)).status = "ok"
    BY DEF IInv, HonestCompletionAccepted
  <2> DEFINE t == [sched EXCEPT !.pending = NoAction]
             u == Advance(t, sched.pending)
  <2>1. CursorMatches(t, sched.pending)
    BY AdvanceInv
  <2>2. sched.state \notin {"cancelling", "failed"} /\ ActionMatches(sched, sched.pending)
    BY DEF IsOpen, ActionMatches
  <2>3. CompleteOp(sched, sched.pending, "ok", CountExpected(sched.pending)) = u
    BY <2>1, <2>2 DEF CompleteOp
  <2>4. t.status = "ok" /\ sched.pending.kind \in Kind /\ t \in SchedulerType
    BY DropTicketInv DEF SchedulerInv, Flags, IsOpen, SchedulerType, Action
  <2> HIDE DEF t
  <2>5. u.status = t.status
    BY <2>4 DEF Advance, Kind, SchedulerType
  <2> QED BY <2>3, <2>4, <2>5
<1> QED BY <1>1, SchedulerInvariant, PTL

(* A completed run played every frame from durable storage and finalized   *)
(* its artifact without an error.                                          *)
THEOREM CompletionWhole == Spec => []CompletedIsWhole
<1>1. IInv => CompletedIsWhole
  BY DEF IInv, SchedulerInv, Flags, CompletedIsWhole
<1> QED BY <1>1, SchedulerInvariant, PTL

(* required_lead() is enough for every run: playback at PlaybackRate never *)
(* overtakes storage filled at the measured rate.                          *)
THEOREM LeadIsEnough == Spec => []LeadCovers
<1>1. IInv => LeadCovers
  <2> SUFFICES ASSUME SchedulerInv(sched) PROVE LeadCovers
    BY DEF IInv
  <2>1. sched.config \in ConfigType /\ sched \in SchedulerType /\ Flags(sched)
    BY DEF SchedulerInv, SchedulerType
  <2>2. CASE sched.state = "unconfigured"
    <3>1. sched.lead = 0 /\ sched.config.total = 0 /\ sched.config.rate = 0
      BY <2>1, <2>2 DEF Flags, NewScheduler
    <3>2. \A t \in 0 .. 0 : t <= 0 + (t * 0) \div PlaybackRate
      BY RateAssumption, Z3
    <3> QED BY <3>1, <3>2 DEF LeadCovers
  <2>3. CASE sched.state # "unconfigured"
    <3>1. sched.lead = RequiredLead(sched.config)
      BY <2>1, <2>3 DEF Flags
    <3> QED BY <3>1, <2>1, LeadBounds, LeadSuffices DEF LeadCovers
  <2> QED BY <2>2, <2>3
<1> QED BY <1>1, SchedulerInvariant, PTL

(* Types, watermarks and whole completions: what the run checks of every   *)
(* state, whatever the configurations, the rate and the ticket limit.      *)
THEOREM RunSound == Spec => []SoundRun
<1>1. TypeOK /\ Watermarks /\ CompletedIsWhole => SoundRun
  BY DEF SoundRun
<1> QED BY <1>1, TypeCorrect, WatermarksOrdered, CompletionWhole, PTL
(* A run's first error, its last cursors and its tickets are its own: no   *)
(* late complete(), cancel() or consume() reaches them, and configure()    *)
(* replaces them only once they are settled and released, for every        *)
(* configuration and every ticket limit.                                   *)
THEOREM RunStaysApart == Spec => RunsApart
<1>1. IInv /\ [Next]_vars => [RunKept(sched, sched')]_vars
  <2> SUFFICES ASSUME SchedulerInv(sched), Next
               PROVE  RunKept(sched, sched')
    BY DEF IInv
  <2>1. BlockCounts \subseteq Nat
    BY PlanFacts DEF BlockCounts
  <2>2. ASSUME NEW c \in Configs, Configure(c)
        PROVE  RunKept(sched, sched')
    BY <2>2, ConfigureKept DEF Configure
  <2>3. ASSUME NEW plan, PlanFits(sched, plan), Begin(plan)
        PROVE  RunKept(sched, sched')
    BY <2>3, IssueKept DEF Begin
  <2>4. ASSUME NEW n \in BlockCounts, BeginProduce(n)
        PROVE  RunKept(sched, sched')
    BY <2>1, <2>3, <2>4, PlanProduceFits DEF BeginProduce
  <2>5. ASSUME NEW n \in BlockCounts, BeginWrite(n)
        PROVE  RunKept(sched, sched')
    BY <2>1, <2>3, <2>5, PlanWriteFits DEF BeginWrite
  <2>6. CASE BeginVisibilityBarrier
    BY <2>3, <2>6, PlanBarrierFits DEF BeginVisibilityBarrier
  <2>7. ASSUME NEW n \in BlockCounts, BeginRead(n)
        PROVE  RunKept(sched, sched')
    BY <2>1, <2>3, <2>7, PlanReadFits DEF BeginRead
  <2>8. CASE BeginFinalize
    BY <2>3, <2>8, PlanFinalizeFits DEF BeginFinalize
  <2>9. CASE BeginNextAction
    BY <2>3, <2>9, NextActionFits DEF BeginNextAction
  <2>10. ASSUME NEW status \in StatusCode, NEW n \in BlockCounts, Complete(status, n)
         PROVE  RunKept(sched, sched')
    BY <2>10, CompleteKept DEF Complete
  <2>11. CASE Start
    BY <2>11, StartKept DEF Start
  <2>12. ASSUME NEW n \in BlockCounts, Consume(n)
         PROVE  RunKept(sched, sched')
    BY <2>12, ConsumeKept DEF Consume
  <2>13. ASSUME NEW reason \in StatusCode, Fail(reason)
         PROVE  RunKept(sched, sched')
    BY <2>13, LatchKept DEF Fail, FailOp
  <2>14. CASE Cancel
    BY <2>14, LatchKept DEF Cancel, CancelOp
  <2>15. CASE Release
    BY <2>15, ReleaseKept DEF Release
  <2> QED BY <2>2, <2>4, <2>5, <2>6, <2>7, <2>8, <2>9, <2>10, <2>11, <2>12, <2>13, <2>14,
             <2>15 DEF Next
<1>2. [RunKept(sched, sched')]_vars =>
        [ sched.status # "ok" /\ sched'.status # sched.status =>
            sched.released /\ ~Pending(sched) /\ IsTerminal(sched) /\ sched'.state = "ready" ]_vars
  BY DEF RunKept, ErrorKept
<1>3. [RunKept(sched, sched')]_vars =>
        [ ~IsOpen(sched) /\ ~IsOpen(sched') =>
            /\ <<sched.produced, sched.written, sched.committed>>
                 = <<sched'.produced, sched'.written, sched'.committed>>
            /\ <<sched.read, sched.consumed>> = <<sched'.read, sched'.consumed>> ]_vars
  BY DEF RunKept, SameCursors
<1>4. [RunKept(sched, sched')]_vars =>
        [ /\ sched'.nextToken >= sched.nextToken
          /\ Pending(sched) /\ Pending(sched') => sched'.pending = sched.pending
          /\ ~Pending(sched) /\ Pending(sched') => sched'.pending.token = sched.nextToken
                                                   /\ sched'.nextToken > sched.nextToken ]_vars
  BY DEF RunKept, TicketKept
<1>5. Spec => FirstStatusSticky
  BY <1>1, <1>2, SchedulerInvariant, PTL DEF Spec, FirstStatusSticky
<1>6. Spec => StoppedIsFrozen
  BY <1>1, <1>3, SchedulerInvariant, PTL DEF Spec, StoppedIsFrozen
<1>7. Spec => TicketsUnique
  BY <1>1, <1>4, SchedulerInvariant, PTL DEF Spec, TicketsUnique
<1> QED BY <1>5, <1>6, <1>7, PTL DEF RunsApart
(* next_action() never wedges an open run: whatever the block, the queue,  *)
(* the lead and the cursors, it issues an action, or start() is accepted,  *)
(* or frames are queued for the audio clock.                               *)
THEOREM PolicyProgresses == Spec => []PolicyNeverStuck
<1>1. IInv => PolicyNeverStuck
  <2> SUFFICES ASSUME SchedulerInv(sched), IsOpen(sched), ~Pending(sched), sched.nextToken < MaxToken
               PROVE  \/ NextAction(sched).status = "ok"
                      \/ NextAction(sched).status = "busy" /\ StartStatus(sched) = "ok"
                      \/ /\ NextAction(sched).status = "busy"
                         /\ sched.state = "running" /\ Queued(sched) > 0
    BY DEF IInv, PolicyNeverStuck
  <2> DEFINE s == sched
  <2>1. /\ s.produced \in Nat /\ s.written \in Nat /\ s.committed \in Nat
        /\ s.read \in Nat /\ s.consumed \in Nat
        /\ s.config.total \in Nat /\ s.config.block \in Nat /\ s.config.queue \in Nat
        /\ s.config \in ConfigType
    BY PlanFacts DEF SchedulerInv, SchedulerType
  <2>2. Ordered(s) /\ Flags(s) /\ s.state \in {"ready", "running"}
    BY DEF SchedulerInv, IsOpen
  <2>3. /\ s.config.block > 0 /\ s.config.queue > 0 /\ s.config.block <= s.config.queue
        /\ s.lead \in Nat /\ s.lead <= s.config.total /\ ~s.finalized
    BY <2>1, <2>2, LeadBounds DEF Flags, ValidConfig
  <2>4. s.nextToken # MaxToken /\ IsOpen(s) /\ ~Pending(s)
    BY PlanFacts, TokenAssumption
  <2>5. \A kind, first, n : PlanAction(s, kind, first, n).status = "ok"
    BY <2>4 DEF PlanAction
  <2> HIDE DEF s
  <2>6. Prefill(s) \in Nat /\ Prefill(s) <= s.config.total /\ Prefill(s) <= s.config.queue
    BY <2>1 DEF Prefill, Min2
  <2>7. s.produced > s.committed => PlanBarrierOrWrite(s).status = "ok"
    <3> SUFFICES ASSUME s.produced > s.committed PROVE PlanBarrierOrWrite(s).status = "ok"
      OBVIOUS
    <3>1. CASE s.written > s.committed
      <4>1. s.written # s.committed /\ ~(s.written - s.committed > s.config.block)
        BY <3>1, <2>1, <2>2 DEF Ordered
      <4> QED BY <3>1, <4>1, <2>4, <2>5 DEF PlanBarrierOrWrite, PlanBarrier
    <3>2. CASE ~(s.written > s.committed)
      <4> DEFINE n == Min2(s.config.block, Staged(s))
      <4>1. s.written = s.committed /\ n # 0 /\ ~(n > s.config.block) /\ ~(n > Staged(s))
        BY <3>2, <2>1, <2>2, <2>3 DEF Ordered, Staged, Min2
      <4> HIDE DEF n
      <4>2. PlanWrite(s, n).status = "ok"
        BY <4>1, <2>4, <2>5 DEF PlanWrite
      <4> QED BY <3>2, <4>2 DEF PlanBarrierOrWrite, n
    <3> QED BY <3>1, <3>2
  <2>8. ASSUME s.produced = s.committed, s.produced < s.config.total
        PROVE  PlanProduceBlock(s).status = "ok"
    <3> DEFINE n == Min2(s.config.block, s.config.total - s.produced)
    <3>1. /\ n # 0 /\ ~(n > s.config.block) /\ ~(n > s.config.total - s.produced)
          /\ ~(n > s.config.block - Staged(s))
      BY <2>8, <2>1, <2>2, <2>3 DEF Ordered, Staged, Min2
    <3> HIDE DEF n
    <3>2. PlanProduce(s, n).status = "ok"
      BY <3>1, <2>4, <2>5 DEF PlanProduce
    <3> QED BY <3>2 DEF PlanProduceBlock, n
  <2>9. ASSUME NEW n \in Nat, n # 0, n <= s.config.block, n <= s.committed - s.read, n <= Room(s)
        PROVE  PlanRead(s, n).status = "ok"
    <3>1. ~(n > s.config.block) /\ ~(n > s.committed - s.read) /\ ~(n > s.config.queue - Queued(s))
      BY <2>9, <2>1 DEF Room, Queued
    <3> QED BY <3>1, <2>4, <2>5, <2>9 DEF PlanRead
  <2>10. CASE s.state = "ready"
    <3> DEFINE count == Min2(s.config.block, Min2(Room(s), s.committed - s.read))
    <3>1. NextAction(s) = NextWhenReady(s)
      BY <2>4, <2>10 DEF NextAction
    <3>2. CASE s.committed < Max2(s.lead, Prefill(s))
      <4>1. s.produced > s.committed \/ (s.produced = s.committed /\ s.produced < s.config.total)
        BY <3>2, <2>1, <2>2, <2>3, <2>6 DEF Ordered, Max2
      <4> QED BY <3>1, <3>2, <4>1, <2>1, <2>7, <2>8 DEF NextWhenReady, s
    <3>3. CASE ~(s.committed < Max2(s.lead, Prefill(s))) /\ Queued(s) < Prefill(s) /\ count > 0
      <4>1. /\ count \in Nat /\ count # 0 /\ count <= s.config.block
            /\ count <= s.committed - s.read /\ count <= Room(s)
        BY <3>3, <2>1, <2>2, <2>3 DEF Ordered, Room, Queued, Min2
      <4> HIDE DEF count
      <4>2. PlanRead(s, count).status = "ok"
        BY <4>1, <2>9
      <4>3. NextWhenReady(s) = PlanRead(s, count)
        BY <3>3 DEF NextWhenReady, count
      <4> QED BY <3>1, <4>2, <4>3 DEF s
    <3>4. CASE ~(s.committed < Max2(s.lead, Prefill(s))) /\ ~(Queued(s) < Prefill(s) /\ count > 0)
      <4>1. NextWhenReady(s) = Refuse("busy")
        BY <3>4 DEF NextWhenReady
      <4>2. ~(s.committed < s.lead) /\ s.committed >= Prefill(s)
        BY <3>4, <2>1, <2>3, <2>6 DEF Max2
      <4>3. ~(Queued(s) < Prefill(s))
        <5> SUFFICES ASSUME Queued(s) < Prefill(s) PROVE FALSE
          OBVIOUS
        <5>1. Room(s) > 0 /\ s.consumed = 0
          BY <2>1, <2>2, <2>6, <2>10 DEF Room, Queued, Ordered, Flags
        <5>2. s.committed - s.read > 0
          BY <5>1, <4>2, <2>1, <2>2, <2>6 DEF Queued, Ordered
        <5>3. count > 0
          BY <5>1, <5>2, <2>1, <2>3 DEF Min2, Room, Queued
        <5> QED BY <3>4, <5>3
      <4>4. StartStatus(s) = "ok"
        BY <2>10, <4>2, <4>3 DEF StartStatus
      <4> QED BY <3>1, <4>1, <4>4 DEF Refuse, s
    <3> QED BY <3>2, <3>3, <3>4
  <2>11. CASE s.state = "running"
    <3> DEFINE refill == Min2(s.config.block, s.committed - s.read)
    <3>1. NextAction(s) = NextWhenRunning(s)
      BY <2>4, <2>11 DEF NextAction
    <3>2. /\ refill \in Nat /\ refill <= s.config.block /\ refill <= s.committed - s.read
          /\ refill = 0 => s.committed = s.read
      BY <2>1, <2>2, <2>3 DEF Ordered, Min2
    <3>3. NextWhenRunning(s) =
            IF refill > 0 /\ Room(s) >= refill THEN PlanRead(s, refill)
            ELSE IF s.produced > s.committed THEN PlanBarrierOrWrite(s)
            ELSE IF s.produced < s.config.total THEN PlanProduceBlock(s)
            ELSE IF s.consumed = s.config.total THEN PlanFinalize(s)
            ELSE Refuse("busy")
      BY DEF NextWhenRunning
    <3> HIDE DEF refill
    <3>4. CASE refill > 0 /\ Room(s) >= refill
      <4>1. PlanRead(s, refill).status = "ok"
        BY <3>2, <3>4, <2>1, <2>9 DEF Room, Queued
      <4> QED BY <3>1, <3>3, <3>4, <4>1 DEF s
    <3>5. CASE ~(refill > 0 /\ Room(s) >= refill) /\ s.produced > s.committed
      BY <3>1, <3>3, <3>5, <2>7 DEF s
    <3>6. CASE ~(refill > 0 /\ Room(s) >= refill) /\ ~(s.produced > s.committed)
      <4>1. s.produced = s.committed
        BY <3>6, <2>1, <2>2 DEF Ordered
      <4>2. CASE s.produced < s.config.total
        BY <3>1, <3>3, <3>6, <4>1, <4>2, <2>8 DEF s
      <4>3. CASE ~(s.produced < s.config.total)
        <5>1. /\ s.produced = s.config.total /\ s.written = s.config.total
              /\ s.committed = s.config.total
          BY <4>1, <4>3, <2>1, <2>2 DEF Ordered
        <5>2. CASE s.consumed = s.config.total
          <6>1. AllAtTotal(s)
            BY <5>1, <5>2, <2>1, <2>2 DEF AllAtTotal, Ordered
          <6>2. PlanFinalize(s).status = "ok"
            BY <6>1, <2>3, <2>5, <2>11 DEF PlanFinalize
          <6> QED BY <3>1, <3>3, <3>6, <4>3, <5>2, <6>2 DEF s
        <5>3. CASE s.consumed # s.config.total
          <6>1. NextWhenRunning(s).status = "busy"
            BY <3>3, <3>6, <4>3, <5>3 DEF Refuse
          <6>2. Queued(s) > 0
            <7>1. CASE refill = 0
              BY <7>1, <3>2, <5>1, <5>3, <2>1, <2>2 DEF Ordered, Queued
            <7>2. CASE Room(s) < refill
              BY <7>2, <3>2, <2>1, <2>2, <2>3 DEF Ordered, Queued, Room
            <7> QED BY <7>1, <7>2, <3>2, <3>6, <2>1 DEF Room, Queued
          <6> QED BY <3>1, <6>1, <6>2, <2>11 DEF s
        <5> QED BY <5>2, <5>3
      <4> QED BY <4>2, <4>3
    <3> QED BY <3>4, <3>5, <3>6
  <2> QED BY <2>2, <2>10, <2>11
<1> QED BY <1>1, SchedulerInvariant, PTL

-----------------------------------------------------------------------------
(* What a call tells the owner of a scheduler.                             *)

(* fail() or cancel() in a run: its ticket and cursors stay, its state is  *)
(* no longer open.                                                         *)
Halted(s, t) ==
  /\ SchedulerInv(t) /\ t.pending = s.pending /\ t.config = s.config /\ t.released = s.released
  /\ s.state \in {"unconfigured", "completed"} => t = s
  /\ s.state \notin {"unconfigured", "completed"} =>
       t.state \notin {"unconfigured", "completed"} /\ t.status # "ok"

LEMMA LatchHalts ==
  ASSUME NEW s, SchedulerInv(s), s.state \in {"ready", "running", "cancelling"},
         NEW reason \in StatusCode, NEW state \in {"failed", "cancelling", "cancelled"},
         state = "cancelled" => ~Pending(s)
  PROVE  Halted(s, Latch(s, reason, state))
<1> DEFINE t == Latch(s, reason, state)
<1>1. SchedulerInv(t) /\ t.status # "ok"
  BY LatchInv
<1>2. t.pending = s.pending /\ t.config = s.config /\ t.released = s.released /\ t.state = state
  BY Zenon DEF Latch, SchedulerInv, SchedulerType
<1> QED BY <1>1, <1>2 DEF Halted

LEMMA StillHalted ==
  ASSUME NEW s, SchedulerInv(s), IsTerminal(s) \/ s.state = "unconfigured"
  PROVE  Halted(s, s)
BY DEF Halted, SchedulerInv, Flags, IsTerminal

LEMMA FailHalts ==
  ASSUME NEW s, SchedulerInv(s), NEW reason \in StatusCode
  PROVE  Halted(s, FailOp(s, reason))
<1>1. CASE IsTerminal(s) \/ s.state = "unconfigured"
  BY <1>1, StillHalted DEF FailOp
<1>2. CASE ~(IsTerminal(s) \/ s.state = "unconfigured")
  <2>1. s.state \in {"ready", "running", "cancelling"}
    BY <1>2 DEF SchedulerInv, SchedulerType, State, IsTerminal
  <2> QED BY <1>2, <2>1, LatchHalts DEF FailOp
<1> QED BY <1>1, <1>2

LEMMA CancelHalts ==
  ASSUME NEW s, SchedulerInv(s)
  PROVE  Halted(s, CancelOp(s))
<1>1. CASE IsTerminal(s) \/ s.state = "unconfigured"
  BY <1>1, StillHalted DEF CancelOp
<1>2. CASE ~(IsTerminal(s) \/ s.state = "unconfigured")
  <2>1. s.state \in {"ready", "running", "cancelling"}
    BY <1>2 DEF SchedulerInv, SchedulerType, State, IsTerminal
  <2>2. "unavailable" \in StatusCode
    BY DEF StatusCode
  <2> QED BY <1>2, <2>1, <2>2, LatchHalts DEF CancelOp
<1> QED BY <1>1, <1>2

(* complete() of the pending ticket: it is settled, and counted only if it *)
(* was honest and nothing had failed.                                      *)
Moved(s, u, a) ==
  /\ u.state = IF a.kind = "finalize" THEN "completed" ELSE s.state
  /\ u.produced  = IF a.kind = "produce" THEN s.produced + a.frames ELSE s.produced
  /\ u.written   = IF a.kind = "write" THEN s.written + a.frames ELSE s.written
  /\ u.committed = IF a.kind = "barrier" THEN s.written ELSE s.committed
  /\ u.read      = IF a.kind = "read" THEN s.read + a.frames ELSE s.read
  /\ u.consumed = s.consumed /\ u.started = s.started

Completes(s, u, result) ==
  /\ SchedulerInv(u) /\ ~Pending(u) /\ u.pending = NoAction /\ u.config = s.config /\ u.released = s.released
  /\ u.state # "unconfigured"
  /\ s.status # "ok" => u.status # "ok" /\ u.state # "completed"
  /\ IsOpen(s) => u.status \in {"ok", "io_error", result}
  /\ u.status = "ok" => result = "ok" /\ Moved(s, u, s.pending)

LEMMA CompletesTicket ==
  ASSUME NEW s, SchedulerInv(s), Pending(s), NEW result \in StatusCode, NEW n
  PROVE  LET u == CompleteOp(s, s.pending, result, n)
         IN  Completes(s, u, result) /\ CompleteStatus(s, s.pending, result, n) = u.status
<1> DEFINE a == s.pending
           t == [s EXCEPT !.pending = NoAction]
           u == CompleteOp(s, a, result, n)
<1>1. SchedulerInv(u) /\ CompleteStatus(s, a, result, n) = u.status
  BY CompleteInv DEF CompleteStatus, ActionMatches
<1>2. s \in SchedulerType /\ a \in Action /\ NoAction \in Action /\ NoAction.token = 0
  BY DEF SchedulerInv, SchedulerType, NoAction, Action, Kind
<1>3. /\ t \in SchedulerType /\ t.pending = NoAction /\ t.config = s.config /\ t.released = s.released
      /\ t.state = s.state /\ t.status = s.status /\ t.started = s.started
      /\ t.produced = s.produced /\ t.written = s.written /\ t.committed = s.committed
      /\ t.read = s.read /\ t.consumed = s.consumed
  BY <1>2, Zenon DEF SchedulerType
<1>4. s.state \notin {"unconfigured", "completed", "cancelled"}
  BY DEF SchedulerInv, Flags
<1>5. IsOpen(s) <=> s.status = "ok"
  BY <1>2, <1>4 DEF SchedulerInv, Flags, IsOpen, SchedulerType, State
<1>6. \/ u = [t EXCEPT !.state = "cancelled"] /\ s.state = "cancelling"
      \/ u = t /\ s.state = "failed"
      \/ u = Latch(t, result, "failed") /\ result # "ok" /\ IsOpen(s)
      \/ u = Latch(t, "io_error", "failed") /\ IsOpen(s)
      \/ u = Advance(t, a) /\ result = "ok" /\ IsOpen(s)
  <2>1. ActionMatches(s, a)
    BY DEF ActionMatches
  <2>2. s.state \in {"cancelling", "failed"} \/ IsOpen(s)
    BY <1>2, <1>4 DEF SchedulerType, State, IsOpen
  <2>3. ~(s.state \in {"cancelling", "failed"} /\ IsOpen(s))
    BY DEF IsOpen
  <2> HIDE DEF t
  <2> QED BY <2>1, <2>2, <2>3 DEF CompleteOp, t
<1> SUFFICES Completes(s, u, result)
  BY <1>1
<1> HIDE DEF t, u
<1>7. CASE u = [t EXCEPT !.state = "cancelled"] /\ s.state = "cancelling"
  <2>1. /\ u.pending = NoAction /\ u.config = s.config /\ u.released = s.released
        /\ u.state = "cancelled" /\ u.status = s.status
    BY <1>3, <1>7, Zenon DEF SchedulerType
  <2>2. ~IsOpen(s) /\ u.status # "ok"
    BY <1>5, <1>7, <2>1 DEF IsOpen
  <2> QED BY <1>1, <1>2, <2>1, <2>2 DEF Completes, Pending, u
<1>8. CASE u = t /\ s.state = "failed"
  BY <1>1, <1>2, <1>3, <1>5, <1>8 DEF Completes, Pending, IsOpen, u
<1>9. ASSUME NEW code \in {result, "io_error"} \ {"ok"}, u = Latch(t, code, "failed"), IsOpen(s)
      PROVE  Completes(s, u, result)
  <2>1. /\ u.pending = NoAction /\ u.config = s.config /\ u.released = s.released
        /\ u.state = "failed" /\ u.status = code
    BY <1>3, <1>5, <1>9, Zenon DEF SchedulerType, Latch
  <2> QED BY <1>1, <1>2, <1>5, <1>9, <2>1 DEF Completes, Pending
<1>10. CASE u = Advance(t, a) /\ result = "ok" /\ IsOpen(s)
  <2>1. a.kind \in Kind
    BY <1>2 DEF Action
  <2>2. /\ u.pending = NoAction /\ u.config = s.config /\ u.released = s.released /\ u.status = s.status
        /\ Moved(s, u, a)
    <3> USE DEF SchedulerType, Moved
    <3>1. CASE a.kind = "produce"
      <4>1. u = [t EXCEPT !.produced = @ + a.frames]
        BY <1>10, <3>1 DEF Advance
      <4> QED BY <1>3, <3>1, <4>1, Zenon
    <3>2. CASE a.kind = "write"
      <4>1. u = [t EXCEPT !.written = @ + a.frames]
        BY <1>10, <3>2 DEF Advance
      <4> QED BY <1>3, <3>2, <4>1, Zenon
    <3>3. CASE a.kind = "barrier"
      <4>1. u = [t EXCEPT !.committed = t.written]
        BY <1>10, <3>3 DEF Advance
      <4> QED BY <1>3, <3>3, <4>1, Zenon
    <3>4. CASE a.kind = "read"
      <4>1. u = [t EXCEPT !.read = @ + a.frames]
        BY <1>10, <3>4 DEF Advance
      <4> QED BY <1>3, <3>4, <4>1, Zenon
    <3>5. CASE a.kind = "finalize"
      <4>1. u = [t EXCEPT !.finalized = TRUE, !.state = "completed"]
        BY <1>10, <3>5 DEF Advance
      <4> QED BY <1>3, <3>5, <4>1, Zenon
    <3> QED BY <2>1, <3>1, <3>2, <3>3, <3>4, <3>5 DEF Kind
  <2>3. u.state # "unconfigured"
    BY <1>4, <2>2 DEF Moved
  <2>4. s.status = "ok" /\ u.status = "ok"
    BY <1>5, <1>10, <2>2
  <2> QED BY <1>1, <1>2, <1>10, <2>2, <2>3, <2>4 DEF Completes, Pending
<1>11. CASE u = Latch(t, result, "failed") /\ result # "ok" /\ IsOpen(s)
  BY <1>9, <1>11
<1>12. CASE u = Latch(t, "io_error", "failed") /\ IsOpen(s)
  BY <1>9, <1>12
<1> QED BY <1>6, <1>7, <1>8, <1>10, <1>11, <1>12

(* begin_*(): only the ticket is new.                                      *)
Issued(s, t, plan) ==
  /\ SchedulerInv(t) /\ Pending(t)
  /\ t.pending.kind = plan.kind /\ t.pending.first = plan.first /\ t.pending.frames = plan.frames
  /\ t.config = s.config /\ t.state = s.state /\ t.status = s.status /\ t.released = s.released
  /\ SameCursors(s, t) /\ t.started = s.started

LEMMA IssuesTicket ==
  ASSUME NEW s, SchedulerInv(s), NEW plan, PlanFits(s, plan), plan.status = "ok"
  PROVE  Issued(s, Issue(s, plan), plan)
<1> DEFINE a == [token |-> s.nextToken, first |-> plan.first, frames |-> plan.frames, kind |-> plan.kind]
           t == Issue(s, plan)
<1>1. SchedulerInv(t)
  BY IssueInv
<1>2. t = [s EXCEPT !.pending = a, !.nextToken = @ + 1]
  BY DEF Issue
<1>3. a.token = s.nextToken /\ a.kind = plan.kind /\ a.first = plan.first /\ a.frames = plan.frames
  OBVIOUS
<1>4. s.nextToken # 0
  BY DEF SchedulerInv, SchedulerType
<1> HIDE DEF a, t
<1>5. /\ t.pending = a /\ t.config = s.config /\ t.state = s.state /\ t.status = s.status
      /\ t.released = s.released /\ SameCursors(s, t) /\ t.started = s.started
  BY <1>2, Zenon DEF SchedulerInv, SchedulerType, SameCursors
<1>6. Issued(s, t, plan)
  BY <1>1, <1>3, <1>4, <1>5 DEF Issued, Pending
<1> QED BY <1>6 DEF t
(* next_action() is refused only for what a scheduler may have to say.     *)
LEMMA NextActionSays ==
  ASSUME NEW s, SchedulerInv(s)
  PROVE  NextAction(s).status \in {"ok", "busy", "io_error", "invalid_configuration", "invalid_argument"}
<1> DEFINE says == {"ok", "busy", "io_error", "invalid_configuration", "invalid_argument"}
<1>1. \A k, f, n : PlanAction(s, k, f, n).status \in says
  BY DEF PlanAction, Refuse
<1>2. \A c \in says : Refuse(c).status \in says
  BY DEF Refuse
<1>3. \A n : /\ PlanProduce(s, n).status \in says
             /\ PlanWrite(s, n).status \in says
             /\ PlanRead(s, n).status \in says
  BY <1>1, <1>2 DEF PlanProduce, PlanWrite, PlanRead
<1>4. PlanBarrier(s).status \in says /\ PlanFinalize(s).status \in says
  BY <1>1, <1>2 DEF PlanBarrier, PlanFinalize
<1>5. PlanBarrierOrWrite(s).status \in says /\ PlanProduceBlock(s).status \in says
  BY <1>3, <1>4 DEF PlanBarrierOrWrite, PlanProduceBlock
<1>6. NextWhenReady(s).status \in says /\ NextWhenRunning(s).status \in says
  BY <1>2, <1>3, <1>4, <1>5 DEF NextWhenReady, NextWhenRunning
<1> QED BY <1>2, <1>6 DEF NextAction

(* configure(), start(), consume() and release() when they are accepted.   *)
Configures(s, t, c) ==
  /\ SchedulerInv(t) /\ t.config = c /\ t.state = "ready" /\ t.status = "ok" /\ t.pending = NoAction
  /\ t.started = FALSE /\ t.released = FALSE
  /\ t.produced = 0 /\ t.written = 0 /\ t.committed = 0 /\ t.read = 0 /\ t.consumed = 0

LEMMA ConfiguresRun ==
  ASSUME NEW s, SchedulerInv(s), NEW c \in ConfigType, ConfigureStatus(s, c) = "ok"
  PROVE  Configures(s, ConfigureOp(s, c), c)
<1> DEFINE t == ConfigureOp(s, c)
<1>1. SchedulerInv(t)
  BY ConfigureInv
<1>2. t = [ResetRun(s, c) EXCEPT !.state = "ready"]
  BY DEF ConfigureOp
<1> HIDE DEF t
<1>3. /\ t.config = c /\ t.state = "ready" /\ t.status = "ok" /\ t.pending = NoAction
      /\ t.started = FALSE /\ t.released = FALSE
      /\ t.produced = 0 /\ t.written = 0 /\ t.committed = 0 /\ t.read = 0 /\ t.consumed = 0
  BY <1>2, Zenon DEF ResetRun, NewScheduler
<1>4. Configures(s, t, c)
  BY <1>1, <1>3 DEF Configures
<1> QED BY <1>4 DEF t

(* What a call that moves no ticket and no cursor of its own keeps.        *)
SameRun(s, t) ==
  /\ SchedulerInv(t) /\ t.config = s.config /\ t.pending = s.pending /\ t.status = s.status
  /\ t.produced = s.produced /\ t.written = s.written /\ t.committed = s.committed /\ t.read = s.read

LEMMA StartsRun ==
  ASSUME NEW s, SchedulerInv(s), StartStatus(s) = "ok"
  PROVE  LET t == StartOp(s)
         IN  SameRun(s, t) /\ t.started = TRUE /\ t.state = "running"
             /\ t.consumed = s.consumed /\ t.released = s.released
<1> DEFINE t == StartOp(s)
<1>1. SchedulerInv(t)
  BY StartInv
<1>2. t = [s EXCEPT !.started = TRUE, !.state = "running"]
  BY DEF StartOp
<1> SUFFICES SameRun(s, t) /\ t.started = TRUE /\ t.state = "running"
             /\ t.consumed = s.consumed /\ t.released = s.released
  OBVIOUS
<1> HIDE DEF t
<1> QED BY <1>1, <1>2, Zenon DEF SchedulerInv, SchedulerType, SameRun

LEMMA ConsumesRun ==
  ASSUME NEW s, SchedulerInv(s), NEW n \in Nat, ConsumeStatus(s, n) = "ok"
  PROVE  LET t == ConsumeOp(s, n)
         IN  SameRun(s, t) /\ t.consumed = s.consumed + n /\ t.started = s.started
             /\ t.state = s.state /\ t.released = s.released
<1> DEFINE t == ConsumeOp(s, n)
<1>1. SchedulerInv(t)
  BY ConsumeInv
<1>2. t = [s EXCEPT !.consumed = @ + n]
  BY DEF ConsumeOp
<1> SUFFICES SameRun(s, t) /\ t.consumed = s.consumed + n /\ t.started = s.started
             /\ t.state = s.state /\ t.released = s.released
  OBVIOUS
<1> HIDE DEF t
<1> QED BY <1>1, <1>2, Zenon DEF SchedulerInv, SchedulerType, SameRun

LEMMA ReleasesRun ==
  ASSUME NEW s, SchedulerInv(s), ~Pending(s), IsTerminal(s)
  PROVE  LET t == ReleaseOp(s)
         IN  SameRun(s, t) /\ t.released = TRUE /\ t.state = s.state /\ t.consumed = s.consumed
<1> DEFINE t == ReleaseOp(s)
<1>1. SchedulerInv(t)
  BY ReleaseInv
<1>2. t = [s EXCEPT !.released = TRUE]
  BY DEF ReleaseOp, ReleaseStatus
<1> SUFFICES SameRun(s, t) /\ t.released = TRUE /\ t.state = s.state /\ t.consumed = s.consumed
  OBVIOUS
<1> HIDE DEF t
<1> QED BY <1>1, <1>2, Zenon DEF SchedulerInv, SchedulerType, SameRun
=============================================================================
