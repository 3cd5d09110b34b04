--------------------------- MODULE ConnectionProofs --------------------------
(***************************************************************************)
(* What a client and its server tell each other.                           *)
(*                                                                         *)
(* Roundtrip: for every width of the sequence number and every window of   *)
(* unanswered messages that is no wider; and the return codes of every     *)
(* i32.                                                                    *)
(*                                                                         *)
(* Monitor: for any globals and ids.  That the maps mirror the library is  *)
(* not inductive: what frees an id is an event, and two events for an id,  *)
(* or one for an id that is bound, would free that of another proxy.       *)
(* MonitorInv follows each id and each global along: it is in one place,   *)
(* on its way to the server, there, or on its way back, and there once.    *)
(***************************************************************************)
EXTENDS MCRoundtrip, Monitor, TLAPS, SequenceTheorems

(* Numbers less than AsyncBit apart have different sequence numbers. *)
LEMMA NoAlias ==
  ASSUME NEW i \in Nat, NEW j \in Nat, i <= j, j - i < AsyncBit,
         from_seq(i) = from_seq(j)
  PROVE  i = j
<1>1. ASSUME NEW a \in Nat, NEW b \in Nat \ {0}
      PROVE  /\ a = b * (a \div b) + (a % b)
             /\ a \div b \in Int /\ a % b \in Int
  BY <1>1
<1>2. ASSUME NEW b \in Nat \ {0}, NEW p \in Int, NEW q \in Int,
             b * p <= b * q, b * q - b * p < b
      PROVE  p = q
  BY <1>2
<1>3. AsyncBit \in Nat \ {0}
  BY AsyncBitAssumption
<1>4. i % AsyncBit = j % AsyncBit
  BY <1>1, <1>3 DEF from_seq, async_seq
<1>5. i \div AsyncBit = j \div AsyncBit
  <2> DEFINE b == AsyncBit
             p == i \div AsyncBit
             q == j \div AsyncBit
             r == i % AsyncBit
  <2>1. /\ p \in Int /\ q \in Int /\ r \in Int
        /\ i = b * p + r /\ j = b * q + r
        /\ b * p \in Int /\ b * q \in Int
    BY <1>1, <1>3, <1>4
  <2> HIDE DEF p, q, r
  <2>2. b * p <= b * q /\ b * q - b * p < b
    BY <2>1, <1>3
  <2>3. QED
    BY <2>1, <2>2, <1>2, <1>3 DEF p, q
<1>6. QED
  BY <1>1, <1>3, <1>4, <1>5

------------------------------------------------------------------------------
(* Within a roundtrip the Cell tells whether the answer has been seen, and   *)
(* until then the answer is less than a window away.                         *)
AnswerInv ==
  /\ target # 0 => /\ sent[target] = "sync"
                   /\ pending = SeqOf(target)
                   /\ seen < target => target - seen <= Window
                   /\ done <=> seen >= target
  /\ QuitNotLost

RoundtripInv == TypeOK /\ AnswerInv

(* Sequence numbers are i32 values. *)
LEMMA SeqOfType == ASSUME NEW n \in Nat, n > 0 PROVE SeqOf(n) \in I32
<1>1. (n - 1) % AsyncBit \in 0..AsyncBit - 1
  BY AsyncBitAssumption
<1>2. QED
  BY <1>1, AsyncBitAssumption DEF SeqOf, from_seq, async_seq, I32

(* A message not yet seen has the pending number only if it is the sync. *)
LEMMA OnlyTheAnswer ==
  ASSUME RoundtripInv, target # 0, seen < served, SeqOf(seen + 1) = pending
  PROVE  seen + 1 >= target
<1> SUFFICES ASSUME seen + 1 < target PROVE FALSE
  BY DEF RoundtripInv, TypeOK
<1>1. target - seen <= AsyncBit /\ seen \in Nat /\ target \in Nat \ {0}
  BY RoundtripAssumption, AsyncBitAssumption DEF RoundtripInv, AnswerInv, TypeOK
<1>2. from_seq(seen) = from_seq(target - 1)
  BY <1>1 DEF RoundtripInv, AnswerInv, SeqOf
<1>3. seen = target - 1
  BY <1>1, <1>2, NoAlias, AsyncBitAssumption
<1>4. QED
  BY <1>1, <1>3

(* Nothing has been sent and no roundtrip is under way. *)
LEMMA InitRoundtripInv == Init => RoundtripInv
<1> SUFFICES ASSUME Init PROVE RoundtripInv
  OBVIOUS
<1>1. sent \in Seq({"request", "sync"}) /\ Len(sent) = 0
  BY EmptySeq DEF Init
<1>2. pending \in I32
  BY AsyncBitAssumption DEF Init, I32
<1>3. TypeOK
  <2>1. served \in 0..Len(sent) /\ seen \in 0..served /\ target \in 0..Len(sent)
    BY <1>1 DEF Init
  <2>2. done \in BOOLEAN /\ running \in BOOLEAN
    BY DEF Init
  <2>3. phase \in {"app", "checking", "inloop"} /\ (target = 0 <=> phase = "app")
    BY DEF Init
  <2>4. QED
    BY <1>1, <1>2, <2>1, <2>2, <2>3 DEF TypeOK
<1>4. QED
  BY <1>3 DEF Init, RoundtripInv, AnswerInv, QuitNotLost

(* Appending a message leaves the earlier ones. *)
LEMMA SendOne ==
  ASSUME TypeOK, NEW kind \in {"request", "sync"}
  PROVE  LET s == Append(sent, kind) IN
         /\ s \in Seq({"request", "sync"}) /\ Len(s) = Len(sent) + 1 /\ Len(sent) \in Nat
         /\ s[Len(sent) + 1] = kind
         /\ \A i \in 1..Len(sent) : s[i] = sent[i]
BY AppendProperties, LenProperties DEF TypeOK

(* Every step keeps the shape of the state. *)
LEMMA StepTypeOK == RoundtripInv /\ [Next]_vars => TypeOK'
<1> SUFFICES ASSUME RoundtripInv, [Next]_vars PROVE TypeOK'
  OBVIOUS
<1> USE DEF RoundtripInv, TypeOK
<1>1. ASSUME NEW kind \in {"request", "sync"}, Request(kind) PROVE TypeOK'
  BY <1>1, SendOne DEF Request
<1>2. CASE Sync
  <2>1. /\ target' = Len(sent) + 1 /\ sent' = Append(sent, "sync")
        /\ pending' \in I32
        /\ done' = FALSE /\ phase' = "checking" /\ UNCHANGED <<served, seen, running>>
    BY <1>2, SeqOfType, LenProperties DEF Sync
  <2>2. /\ sent' \in Seq({"request", "sync"}) /\ Len(sent') = Len(sent) + 1
        /\ Len(sent) \in Nat
    BY <2>1, SendOne
  <2>3. /\ served' \in 0..Len(sent') /\ seen' \in 0..served'
        /\ target' \in 0..Len(sent') /\ target' # 0
    BY <2>1, <2>2
  <2>4. QED
    BY <2>1, <2>2, <2>3
<1>3. CASE Run \/ Return \/ Leave
  <2>1. /\ UNCHANGED <<sent, served, seen, pending, done>>
        /\ running' \in BOOLEAN /\ phase' \in {"app", "checking", "inloop"}
        /\ target' \in {0, target} /\ (target' = 0 <=> phase' = "app")
    BY <1>3 DEF Run, Return, Leave
  <2>2. QED
    BY <2>1, LenProperties
<1>8. CASE Serve
  BY <1>8, LenProperties DEF Serve
<1>4. CASE DoneEvent
  BY <1>4 DEF DoneEvent
<1>5. CASE OtherEvent
  <2>1. /\ seen' = seen + 1 /\ seen < served /\ running' \in BOOLEAN
        /\ UNCHANGED <<served, phase, pending, target, done>>
    BY <1>5 DEF OtherEvent
  <2>2. sent' = sent \/ sent' = Append(sent, "request")
    BY <1>5 DEF OtherEvent
  <2>3. QED
    BY <2>1, <2>2, SendOne
<1>6. CASE UNCHANGED vars
  BY <1>6 DEF vars
<1>7. QED
  BY <1>1, <1>2, <1>3, <1>4, <1>5, <1>6, <1>8 DEF Next, Client

(* Every step keeps what the Cell and the loop's flag say of the answer. *)
LEMMA StepAnswerInv == RoundtripInv /\ [Next]_vars => AnswerInv'
<1> SUFFICES ASSUME RoundtripInv, [Next]_vars PROVE AnswerInv'
  OBVIOUS
<1>0. /\ TypeOK /\ AnswerInv /\ Len(sent) \in Nat
      /\ target \in Nat /\ seen \in Nat /\ served \in Nat /\ Window \in Nat
  BY LenProperties, RoundtripAssumption, AsyncBitAssumption
     DEF RoundtripInv, AnswerInv, TypeOK
<1> USE <1>0 DEF AnswerInv, QuitNotLost
<1>1. ASSUME NEW kind \in {"request", "sync"}, Request(kind) PROVE AnswerInv'
  BY <1>1 DEF Request, TypeOK
<1>2. CASE Sync
  <2>1. /\ target' = Len(sent) + 1 /\ sent' = Append(sent, "sync")
        /\ pending' = SeqOf(target') /\ ~done' /\ phase' = "checking" /\ seen' = seen
        /\ Len(sent) - seen < Window
    BY <1>2 DEF Sync, CanSend
  <2>2. sent'[target'] = "sync" /\ seen' < target' /\ target' - seen' <= Window
    BY <2>1, SendOne, RoundtripAssumption, AsyncBitAssumption DEF TypeOK
  <2>3. QED
    BY <2>1, <2>2
<1>3. CASE Run \/ Return \/ Leave \/ Serve
  BY <1>3 DEF Run, Return, Leave, Serve
<1>4. CASE DoneEvent
  <2>1. target # 0 /\ seen < served /\ seen' = seen + 1 /\ UNCHANGED <<sent, target, pending>>
    BY <1>4 DEF DoneEvent, TypeOK
  <2>2. CASE SeqOf(seen + 1) = pending
    <3>1. seen + 1 >= target
      BY <2>1, <2>2, OnlyTheAnswer
    <3>2. done' /\ ~running'
      BY <1>4, <2>2 DEF DoneEvent
    <3>3. QED
      BY <2>1, <3>1, <3>2
  <2>3. CASE SeqOf(seen + 1) # pending
    <3>1. seen + 1 # target
      BY <2>1, <2>3
    <3>2. (done' <=> done) /\ (running' <=> running) /\ phase' = phase
      BY <1>4, <2>3 DEF DoneEvent
    <3>3. done' <=> seen' >= target
      BY <2>1, <3>1, <3>2
    <3>4. seen' < target => target - seen' <= Window
      BY <2>1
    <3>5. QED
      BY <2>1, <3>2, <3>3, <3>4
  <2>4. QED
    BY <2>2, <2>3
<1>5. CASE OtherEvent
  <2>1. /\ target # 0 /\ seen' = seen + 1 /\ seen + 1 # target
        /\ UNCHANGED <<phase, pending, target, done>>
    BY <1>5 DEF OtherEvent, TypeOK
  <2>2. ~running => ~running'
    BY <1>5 DEF OtherEvent
  <2>3. sent'[target] = sent[target]
    BY <1>5, <2>1, SendOne DEF OtherEvent, TypeOK
  <2>4. seen' < target => target - seen' <= Window
    BY <2>1
  <2>5. done' <=> seen' >= target
    BY <2>1
  <2>6. QED
    BY <2>1, <2>2, <2>3, <2>4, <2>5
<1>6. CASE UNCHANGED vars
  BY <1>6 DEF vars
<1>7. QED
  BY <1>1, <1>2, <1>3, <1>4, <1>5, <1>6 DEF Next, Client

(* RoundtripInv is an invariant. *)
THEOREM Inductive == Spec => []RoundtripInv
<1>1. RoundtripInv /\ [Next]_vars => RoundtripInv'
  BY StepTypeOK, StepAnswerInv DEF RoundtripInv, AnswerInv
<1>2. QED
  BY InitRoundtripInv, <1>1, PTL DEF Spec

(* The client, its server and what is between them keep their shape. *)
THEOREM Typing == Spec => []TypeOK
<1>1. RoundtripInv => TypeOK
  BY DEF RoundtripInv
<1>2. QED
  BY Inductive, <1>1, PTL

(* do_roundtrip returns only when everything sent before has been answered. *)
THEOREM RoundtripIsComplete == Spec => AllEventsProcessed
<1>1. ASSUME RoundtripInv, [Next]_vars, phase # "app", phase' = "app"
      PROVE  seen >= target
  BY <1>1 DEF RoundtripInv, AnswerInv, TypeOK, Next, Client, Request, Sync, Run, Return, DoneEvent,
     OtherEvent, Leave, Serve, vars
<1>2. QED
  BY Inductive, <1>1, PTL DEF Spec, AllEventsProcessed

(* The loop never waits once the answer has come. *)
THEOREM LoopIsLeft == Spec => []QuitNotLost
<1>1. RoundtripInv => QuitNotLost
  BY DEF RoundtripInv, AnswerInv
<1>2. QED
  BY Inductive, <1>1, PTL

------------------------------------------------------------------------------
(* Division by something positive. *)
LEMMA Quotient ==
  ASSUME NEW a \in Int, NEW b \in Nat \ {0}
  PROVE  /\ a = b * (a \div b) + (a % b)
         /\ a \div b \in Int /\ a % b \in 0..b - 1
OBVIOUS

(* A number below b times three has the quotient its place tells. *)
LEMMA QuotientAt ==
  ASSUME NEW b \in Nat \ {0}, NEW a \in Int, NEW q \in Int, b * q <= a, a < b * q + b
  PROVE  a \div b = q
<1> DEFINE p == a \div b
           r == a % b
<1>1. a = b * p + r /\ p \in Int /\ r \in 0..b - 1
  BY Quotient
<1> HIDE DEF p, r
<1>2. ASSUME p < q PROVE FALSE
  <2>1. p + 1 <= q /\ b * (p + 1) <= b * q
    BY <1>1, <1>2
  <2>2. b * (p + 1) = b * p + b
    BY <1>1
  <2>3. QED
    BY <1>1, <2>1, <2>2
<1>3. ASSUME q < p PROVE FALSE
  <2>1. q + 1 <= p /\ b * (q + 1) <= b * p
    BY <1>1, <1>3
  <2>2. b * (q + 1) = b * q + b
    OBVIOUS
  <2>3. QED
    BY <1>1, <2>1, <2>2
<1>4. QED
  BY <1>1, <1>2, <1>3 DEF p

(* Of the two top bits only the lower is set in the values from the async *)
(* bit up, and in no negative ones.                                       *)
LEMMA TopBits ==
  ASSUME NEW val \in I32
  PROVE  is_async(val) <=> val >= AsyncBit
<1> DEFINE A == AsyncBit
           u == val % (4 * A)
<1>1. A \in Nat \ {0} /\ 4 * A \in Nat \ {0} /\ val \in Int /\ -(2 * A) <= val /\ val < 2 * A
  BY AsyncBitAssumption DEF I32
<1>2. val = (4 * A) * (val \div (4 * A)) + u /\ u \in 0..4 * A - 1
  BY <1>1, Quotient
<1>3. is_async(val) <=> u \div A = 1
  BY DEF is_async, top_bits
<1> HIDE DEF A, u
<1>4. CASE val >= 0
  <2>1. val \div (4 * A) = 0
    BY <1>1, <1>4, QuotientAt
  <2>2. u = val
    BY <1>1, <1>2, <2>1
  <2>3. val >= A => val \div A = 1
    BY <1>1, QuotientAt
  <2>4. val < A => val \div A = 0
    BY <1>1, <1>4, QuotientAt
  <2>5. is_async(val) <=> val >= A
    BY <1>1, <1>3, <2>2, <2>3, <2>4
  <2>6. QED
    BY <2>5 DEF A
<1>5. CASE val < 0
  <2>1. val \div (4 * A) = -1
    BY <1>1, <1>5, QuotientAt
  <2>2. u = val + 4 * A
    BY <1>1, <1>2, <2>1
  <2>3. u = A * (u \div A) + (u % A) /\ u % A \in 0..A - 1
    <3>1. u \in Int /\ A \in Nat \ {0}
      BY <1>1, <1>2
    <3>2. QED
      BY <3>1, Quotient
  <2>4. u \div A # 1
    BY <1>1, <2>2, <2>3
  <2>5. QED
    BY <1>1, <1>3, <1>5, <2>4 DEF A
<1>6. QED
  BY <1>1, <1>4, <1>5

(* What from_seq makes. *)
LEMMA FromSeq ==
  ASSUME NEW seq \in I32
  PROVE  /\ from_seq(seq) \in AsyncBit..2 * AsyncBit - 1 /\ from_seq(seq) \in I32
         /\ async_seq(from_seq(seq)) = async_seq(seq)
<1> DEFINE A == AsyncBit
           r == seq % A
<1>1. A \in Nat \ {0} /\ seq \in Int /\ r \in 0..A - 1
  BY AsyncBitAssumption, Quotient DEF I32
<1>2. from_seq(seq) = A + r
  BY DEF from_seq, async_seq
<1> HIDE DEF r
<1>3. (A + r) \div A = 1
  BY <1>1, QuotientAt
<1>4. A + r = A * ((A + r) \div A) + ((A + r) % A)
  BY <1>1, Quotient
<1>5. (A + r) % A = r
  BY <1>1, <1>3, <1>4
<1>6. QED
  BY <1>1, <1>2, <1>5 DEF async_seq, I32, r

(* The call's return stays what it was. *)
LEMMA ReturnStays == MCSpec => [](res \in I32)
<1>1. MCInit => res \in I32
  BY DEF MCInit
<1>2. res \in I32 /\ [MCNext]_<<vars, res>> => (res \in I32)'
  BY DEF MCNext, I32
<1>3. QED
  BY <1>1, <1>2, PTL DEF MCSpec

(* A sequence number survives the trip through a C return (AsyncSeq of      *)
(* result.rs), whatever i32 it is.                                          *)
THEOREM SequenceNumbersSurvive == MCSpec => []SeqSurvives
<1>1. ASSUME res \in I32 PROVE SeqSurvives
  <2> DEFINE raw == from_seq(res)
  <2>1. /\ raw \in I32 /\ raw \in AsyncBit..2 * AsyncBit - 1
        /\ async_seq(raw) = async_seq(res)
    BY <1>1, FromSeq
  <2> HIDE DEF raw
  <2>2. is_async(raw) /\ raw >= 0
    BY <2>1, TopBits, AsyncBitAssumption
  <2>3. into_result(raw) = AsyncOk(raw)
    BY <2>1, <2>2, AsyncBitAssumption DEF into_result
  <2>4. into_async_result(raw) = AsyncOk(raw)
    BY <2>3 DEF into_async_result, Demand, AsyncOk
  <2>5. QED
    BY <2>1, <2>4 DEF SeqSurvives, raw
<1>2. QED
  BY <1>1, ReturnStays, PTL

(* SpaResult::into_result of result.rs tells errors from answers to come by *)
(* the two top bits, on every i32 and whatever errors have names.           *)
THEOREM ResultsAreClassified == MCSpec => []Classified
<1>1. ASSUME res \in I32 PROVE Classified
  <2> DEFINE r == into_result(res)
  <2>1. /\ AsyncBit \in Nat \ {0} /\ res \in Int
        /\ -(2 * AsyncBit) <= res /\ res < 2 * AsyncBit
    BY <1>1, AsyncBitAssumption DEF I32
  <2>2. is_async(res) <=> res >= AsyncBit
    BY <1>1, TopBits
  <2>3. CASE res = -(2 * AsyncBit)
    <3>1. r = Panic
      BY <2>3 DEF into_result
    <3>2. QED
      BY <2>1, <2>2, <2>3, <3>1 DEF Classified, Panic
  <2>4. CASE res < 0 /\ res # -(2 * AsyncBit)
    <3>1. r.kind = "error" /\ (r.value = -res \/ r.value = UnknownErrno)
      BY <2>4 DEF into_result, Err
    <3>2. QED
      BY <2>1, <2>2, <2>4, <3>1 DEF Classified
  <2>5. CASE res >= 0 /\ is_async(res)
    <3>1. r.kind = "async"
      BY <2>1, <2>5 DEF into_result, AsyncOk
    <3>2. QED
      BY <2>1, <2>2, <2>5, <3>1 DEF Classified
  <2>6. CASE res >= 0 /\ ~is_async(res)
    <3>1. r.kind = "sync"
      BY <2>1, <2>6 DEF into_result, SyncOk
    <3>2. QED
      BY <2>1, <2>2, <2>6, <3>1 DEF Classified
  <2>7. QED
    BY <2>1, <2>3, <2>4, <2>5, <2>6
<1>2. QED
  BY <1>1, ReturnStays, PTL

------------------------------------------------------------------------------
(* The monitor *)

(* What is on its way *)
Elements(s) == {s[i] : i \in 1..Len(s)}
Distinct(s) == \A i, j \in 1..Len(s) : s[i] = s[j] => i = j

Announce(g) == [event |-> "global", global |-> g]
Withdraw(g) == [event |-> "global_remove", global |-> g]
Call(g, id) == [global |-> g, id |-> id]

News == {Announce(g) : g \in Globals} \cup {Withdraw(g) : g \in Globals}
          \cup {Removed(id) : id \in Ids}
Calls == [global : Globals, id : Ids]

(* An id is used by a call on its way, by the server, or by an event that *)
(* says that it is free.                                                  *)
Asked(id) == \E c \in Elements(toServer) : c.id = id
Bound(id) == id \in DOMAIN resources
Ended(id) == Removed(id) \in Elements(toClient)

(* A global is announced, asked for and bound, one after the other. *)
Announced(g) == Announce(g) \in Elements(toClient)
AskedFor(g) == \E c \in Elements(toServer) : c.global = g
BoundTo(g) == \E id \in DOMAIN resources : resources[id] = g

AtMostOne(a, b, c) == ~(a /\ b) /\ ~(a /\ c) /\ ~(b /\ c)

Shape ==
  /\ toClient \in Seq(News) /\ toServer \in Seq(Calls) /\ made \in Nat
  /\ globals \subseteq Globals /\ gone \subseteq Globals \ globals
  /\ DOMAIN resources \subseteq Ids
  /\ \A id \in DOMAIN resources : resources[id] \in globals
  /\ DOMAIN proxies \subseteq Ids
  /\ \A id \in DOMAIN proxies : proxies[id] \in 1..made
  /\ DOMAIN proxies_t \subseteq Ids
  /\ \A id \in DOMAIN proxies_t : proxies_t[id] \in [proxy : 1..made, of : Globals]
  /\ looping \in BOOLEAN

Numbered == \A i, j \in DOMAIN proxies : proxies[i] = proxies[j] => i = j

IdsOnce ==
  /\ \A c, d \in Elements(toServer) : c.id = d.id => c = d
  /\ \A id \in Ids : AtMostOne(Asked(id), Bound(id), Ended(id))

GlobalsOnce ==
  /\ \A c, d \in Elements(toServer) : c.global = d.global => c = d
  /\ \A i, j \in DOMAIN resources : resources[i] = resources[j] => i = j
  /\ \A g \in Globals :
       /\ AtMostOne(Announced(g), AskedFor(g), BoundTo(g))
       /\ Announced(g) \/ AskedFor(g) => g \in globals \cup gone
       /\ Withdraw(g) \in Elements(toClient) => g \in gone

(* The ids in use are those, and what the program keeps for a call is what *)
(* the call asks for.                                                      *)
InUse ==
  looping => /\ DOMAIN proxies = {id \in Ids : Asked(id) \/ Bound(id) \/ Ended(id)}
             /\ \A c \in Elements(toServer) : proxies_t[c.id].of = c.global

(* A global that the program wants and that exists is on its way to it. *)
NoneOverlooked ==
  looping => \A g \in globals : Wants(g) => Announced(g) \/ AskedFor(g) \/ BoundTo(g)

MonitorInv == /\ Shape /\ Distinct(toClient) /\ Distinct(toServer)
              /\ Numbered /\ MapsMirrorLibrary
              /\ IdsOnce /\ GlobalsOnce
              /\ InUse /\ ServerAgrees /\ NoneOverlooked

------------------------------------------------------------------------------
LEMMA Added ==
  ASSUME NEW S, NEW s \in Seq(S), NEW e \in S
  PROVE  /\ Append(s, e) \in Seq(S)
         /\ Elements(Append(s, e)) = Elements(s) \cup {e}
         /\ Distinct(s) /\ e \notin Elements(s) => Distinct(Append(s, e))
<1> DEFINE t == Append(s, e)
<1>1. /\ t \in Seq(S) /\ Len(t) = Len(s) + 1 /\ t[Len(s) + 1] = e
      /\ \A i \in 1..Len(s) : t[i] = s[i]
      /\ Len(s) \in Nat
  BY AppendProperties, LenProperties
<1> HIDE DEF t
<1>2. 1..Len(t) = 1..Len(s) \cup {Len(s) + 1}
  BY <1>1
<1>3. Elements(t) = Elements(s) \cup {e}
  BY <1>1, <1>2 DEF Elements
<1>4. Distinct(s) /\ e \notin Elements(s) => Distinct(t)
  BY <1>1, <1>2 DEF Elements, Distinct
<1>5. QED
  BY <1>1, <1>3, <1>4 DEF t

LEMMA TakenOff ==
  ASSUME NEW S, NEW s \in Seq(S), s # <<>>, Distinct(s)
  PROVE  /\ Tail(s) \in Seq(S) /\ Head(s) \in S /\ Head(s) \in Elements(s)
         /\ Elements(Tail(s)) = Elements(s) \ {Head(s)}
         /\ Distinct(Tail(s))
<1> DEFINE t == Tail(s)
<1>1. /\ t \in Seq(S) /\ Len(t) = Len(s) - 1 /\ \A i \in 1..Len(t) : t[i] = s[i + 1]
      /\ Len(s) \in Nat \ {0} /\ Head(s) = s[1] /\ s[1] \in S
  BY HeadTailProperties, LenProperties, ElementOfSeq
<1> HIDE DEF t
<1>2. \A i \in 1..Len(s) : i # 1 => i - 1 \in 1..Len(t) /\ s[i] = t[i - 1]
  BY <1>1
<1>3. \A i \in 1..Len(t) : i + 1 \in 1..Len(s) /\ i + 1 # 1
  BY <1>1
<1>4. 1 \in 1..Len(s)
  BY <1>1
<1>5. Elements(t) = Elements(s) \ {s[1]}
  <2>1. ASSUME NEW x \in Elements(t) PROVE x \in Elements(s) /\ x # s[1]
    <3>1. PICK i \in 1..Len(t) : x = t[i]
      BY DEF Elements
    <3>2. i + 1 \in 1..Len(s) /\ x = s[i + 1] /\ i + 1 # 1
      BY <1>1, <1>3, <3>1
    <3>3. QED
      BY <1>4, <3>2 DEF Elements, Distinct
  <2>2. ASSUME NEW x \in Elements(s), x # s[1] PROVE x \in Elements(t)
    BY <1>2, <2>2 DEF Elements
  <2>3. QED
    BY <2>1, <2>2
<1>6. Distinct(t)
  BY <1>1, <1>3 DEF Distinct
<1>7. QED
  BY <1>1, <1>4, <1>5, <1>6 DEF t, Elements

(* What is said about one global or id is not said about another. *)
LEMMA Messages ==
  /\ \A g, h : Announce(g) = Announce(h) => g = h
  /\ \A g, h : Withdraw(g) = Withdraw(h) => g = h
  /\ \A i, j : Removed(i) = Removed(j) => i = j
  /\ \A g, h, i : /\ Announce(g) # Withdraw(h)
                  /\ Announce(g) # Removed(i) /\ Withdraw(h) # Removed(i)
  /\ \A g, h, i, j : Call(g, i) = Call(h, j) => g = h /\ i = j
<1>1. \A g : Announce(g).event = "global" /\ Announce(g).global = g
  BY DEF Announce
<1>2. \A g : Withdraw(g).event = "global_remove" /\ Withdraw(g).global = g
  BY DEF Withdraw
<1>3. \A i : Removed(i).event = "removed" /\ Removed(i).id = i
  BY DEF Removed
<1>4. \A g, i : Call(g, i).global = g /\ Call(g, i).id = i
  BY DEF Call
<1>5. "global" # "global_remove" /\ "global" # "removed" /\ "global_remove" # "removed"
  OBVIOUS
<1>6. /\ \A g, h : Announce(g) = Announce(h) => g = h
      /\ \A g, h : Withdraw(g) = Withdraw(h) => g = h
  BY <1>1, <1>2
<1>7. \A i, j : Removed(i) = Removed(j) => i = j
  BY <1>3
<1>8. \A g, h : Announce(g) # Withdraw(h)
  BY <1>1, <1>2, <1>5, Zenon
<1>9. \A g, i : Announce(g) # Removed(i) /\ Withdraw(g) # Removed(i)
  BY <1>1, <1>2, <1>3, <1>5, Zenon
<1>10. \A g, h, i, j : Call(g, i) = Call(h, j) => g = h /\ i = j
  BY <1>4
<1>11. QED
  BY <1>6, <1>7, <1>8, <1>9, <1>10

------------------------------------------------------------------------------
LEMMA MonitorStarts == MonitorInit => MonitorInv
<1> SUFFICES ASSUME MonitorInit PROVE MonitorInv
  OBVIOUS
<1>1. /\ globals = {} /\ gone = {} /\ resources = <<>> /\ toClient = <<>> /\ toServer = <<>>
      /\ made = 0 /\ proxies = <<>> /\ proxies_t = <<>> /\ listeners = <<>> /\ looping = TRUE
  BY DEF MonitorInit, Empty
<1>2. /\ DOMAIN <<>> = {} /\ Elements(<<>>) = {} /\ Distinct(<<>>)
      /\ toClient \in Seq(News) /\ toServer \in Seq(Calls)
  BY <1>1 DEF Elements, Distinct
<1>3. /\ Shape /\ Numbered /\ MapsMirrorLibrary /\ ServerAgrees
      /\ NoneOverlooked
  BY <1>1, <1>2 DEF Shape, Numbered, MapsMirrorLibrary, ServerAgrees, NoneOverlooked
<1>4. IdsOnce /\ GlobalsOnce /\ InUse
  BY <1>1, <1>2 DEF IdsOnce, GlobalsOnce, InUse, Asked, Bound, Ended, Announced, AskedFor,
                    BoundTo, AtMostOne
<1>5. QED
  BY <1>1, <1>2, <1>3, <1>4 DEF MonitorInv

LEMMA AppearInv == ASSUME MonitorInv, NEW g \in Globals, Appear(g) PROVE MonitorInv'
<1> DEFINE C == Elements(toClient)
<1>1. /\ g \notin globals \cup gone /\ globals' = globals \cup {g}
      /\ toClient' = Append(toClient, Announce(g))
      /\ UNCHANGED <<gone, resources, toServer>>
      /\ UNCHANGED <<made, proxies, proxies_t, listeners, looping>>
  BY DEF Appear, program, Announce
<1>2. Shape /\ Distinct(toClient) /\ IdsOnce /\ GlobalsOnce
  BY DEF MonitorInv
<1>3. Announce(g) \in News /\ Announce(g) \notin C
  BY <1>1, <1>2 DEF News, GlobalsOnce, Announced
<1>4. /\ toClient' \in Seq(News) /\ Elements(toClient)' = C \cup {Announce(g)}
      /\ Distinct(toClient)'
  BY <1>1, <1>2, <1>3, Added DEF Shape, Elements, Distinct
<1>5. Elements(toServer)' = Elements(toServer) /\ Distinct(toServer)'
  BY <1>1 DEF Elements, Distinct, MonitorInv
<1> HIDE DEF C
<1>6. Shape'
  BY <1>1, <1>2, <1>4 DEF Shape
<1>7. \A id : /\ Asked(id)' <=> Asked(id)
              /\ Bound(id)' <=> Bound(id)
              /\ Ended(id)' <=> Ended(id)
  BY <1>1, <1>4, <1>5, Messages DEF Asked, Bound, Ended, C
<1>8. GlobalsOnce'
  BY <1>1, <1>2, <1>4, <1>5, Messages, SMTT(30)
     DEF GlobalsOnce, Announced, AskedFor, BoundTo, AtMostOne, C, Shape
<1>9. IdsOnce' /\ InUse'
  BY <1>1, <1>2, <1>5, <1>7 DEF IdsOnce, InUse, MonitorInv, AtMostOne
<1>10. Numbered' /\ MapsMirrorLibrary' /\ ServerAgrees'
  BY <1>1 DEF Numbered, MapsMirrorLibrary, ServerAgrees, MonitorInv
<1>11. NoneOverlooked'
  <2>1. NoneOverlooked
    BY DEF MonitorInv
  <2>2. Announced(g)' /\ \A h : Announced(h) => Announced(h)'
    BY <1>4 DEF Announced, C
  <2>3. \A h : (AskedFor(h)' <=> AskedFor(h)) /\ (BoundTo(h)' <=> BoundTo(h))
    BY <1>1, <1>5 DEF AskedFor, BoundTo
  <2>4. QED
    BY <1>1, <2>1, <2>2, <2>3 DEF NoneOverlooked
<1>12. QED
  BY <1>4, <1>5, <1>6, <1>8, <1>9, <1>10, <1>11 DEF MonitorInv

(* Whoever has bound g, at most one, is told first. *)
LEMMA VanishSays ==
  ASSUME MonitorInv, NEW g \in Globals, Vanish(g)
  PROVE  LET R == {id \in DOMAIN resources : resources[id] = g} IN
         /\ DOMAIN resources' = DOMAIN resources \ R
         /\ \A id \in DOMAIN resources' : resources'[id] = resources[id]
         /\ toClient' \in Seq(News) /\ Distinct(toClient)'
         /\ Elements(toClient)' =
              Elements(toClient) \cup {Removed(id) : id \in R} \cup {Withdraw(g)}
<1> DEFINE R == {id \in DOMAIN resources : resources[id] = g}
           n == IF g \in Range(resources) THEN 1 ELSE 0
           C == Elements(toClient)
<1>1. PICK ids \in [1..n -> DOMAIN resources] :
        /\ \A i \in DOMAIN ids : resources[ids[i]] = g
        /\ resources' = Restrict(resources, DOMAIN resources \ Range(ids))
        /\ toClient' = toClient \o [i \in DOMAIN ids |-> Removed(ids[i])] \o <<Withdraw(g)>>
  BY DEF Vanish, Withdraw
<1>2. Shape /\ Distinct(toClient) /\ IdsOnce /\ GlobalsOnce /\ g \in globals
  BY DEF MonitorInv, Vanish
<1>3. toClient \in Seq(News) /\ Withdraw(g) \in News /\ Withdraw(g) \notin C
  BY <1>2 DEF Shape, News, GlobalsOnce
<1>4. n \in {0, 1} /\ (n = 0 <=> R = {})
  BY DEF Range
<1>5. CASE n = 0
  <2>1. DOMAIN ids = {} /\ [i \in DOMAIN ids |-> Removed(ids[i])] = <<>>
    BY <1>5
  <2>2. toClient' = Append(toClient, Withdraw(g))
    <3>1. toClient \o <<>> = toClient
      BY <1>3, ConcatEmptySeq
    <3>2. QED
      BY <1>1, <1>3, <2>1, <3>1, AppendIsConcat
  <2>3. Range(ids) = {} /\ R = {}
    BY <1>4, <1>5, <2>1 DEF Range
  <2>4. /\ DOMAIN resources' = DOMAIN resources
        /\ \A id \in DOMAIN resources' : resources'[id] = resources[id]
    BY <1>1, <2>3 DEF Restrict
  <2>5. /\ toClient' \in Seq(News) /\ Distinct(toClient')
        /\ Elements(toClient') = C \cup {Withdraw(g)}
    BY <1>2, <1>3, <2>2, Added
  <2>6. QED
    BY <2>3, <2>4, <2>5 DEF Elements, Distinct
<1>6. CASE n = 1
  <2> DEFINE id == ids[1]
             s == Append(toClient, Removed(id))
  <2>1. DOMAIN ids = {1} /\ id \in DOMAIN resources /\ resources[id] = g
    BY <1>1, <1>6
  <2>2. Range(ids) = {id} /\ R = {id} /\ id \in Ids
    BY <1>2, <2>1 DEF Range, GlobalsOnce, Shape
  <2>3. [i \in DOMAIN ids |-> Removed(ids[i])] = <<Removed(id)>>
    BY <2>1
  <2>4. Removed(id) \in News /\ Removed(id) \notin C
    BY <1>2, <2>1, <2>2 DEF News, IdsOnce, AtMostOne, Bound, Ended
  <2>5. toClient' = Append(s, Withdraw(g))
    <3>1. s = toClient \o <<Removed(id)>> /\ s \in Seq(News)
      BY <1>3, <2>4, AppendIsConcat, Added
    <3>2. toClient' = s \o <<Withdraw(g)>>
      BY <1>1, <2>3, <3>1
    <3> HIDE DEF s
    <3>3. QED
      BY <1>3, <3>1, <3>2, AppendIsConcat
  <2>6. /\ DOMAIN resources' = DOMAIN resources \ {id}
        /\ \A x \in DOMAIN resources' : resources'[x] = resources[x]
    BY <1>1, <2>2 DEF Restrict
  <2> HIDE DEF id
  <2>7. /\ s \in Seq(News) /\ Distinct(s) /\ Elements(s) = C \cup {Removed(id)}
    BY <1>2, <1>3, <2>4, Added
  <2> HIDE DEF s
  <2>8. Withdraw(g) \notin Elements(s)
    BY <1>3, <2>7, Messages
  <2>9. /\ toClient' \in Seq(News) /\ Distinct(toClient')
        /\ Elements(toClient') = Elements(s) \cup {Withdraw(g)}
    BY <1>3, <2>5, <2>7, <2>8, Added
  <2>10. {Removed(x) : x \in R} = {Removed(id)}
    BY <2>2
  <2>11. QED
    BY <2>2, <2>6, <2>7, <2>9, <2>10 DEF Elements, Distinct
<1>7. QED
  BY <1>4, <1>5, <1>6

LEMMA VanishInv == ASSUME MonitorInv, NEW g \in Globals, Vanish(g) PROVE MonitorInv'
<1> DEFINE C == Elements(toClient)
           R == {id \in DOMAIN resources : resources[id] = g}
<1>1. /\ g \in globals /\ globals' = globals \ {g} /\ gone' = gone \cup {g}
      /\ toServer' = toServer
      /\ UNCHANGED <<made, proxies, proxies_t, listeners, looping>>
  BY DEF Vanish, program
<1>2. Shape /\ Distinct(toClient) /\ IdsOnce /\ GlobalsOnce
  BY DEF MonitorInv
<1>3. /\ DOMAIN resources' = DOMAIN resources \ R
      /\ \A id \in DOMAIN resources' : resources'[id] = resources[id]
      /\ toClient' \in Seq(News) /\ Distinct(toClient)'
      /\ Elements(toClient)' = C \cup {Removed(id) : id \in R} \cup {Withdraw(g)}
  BY VanishSays
<1>4. Elements(toServer)' = Elements(toServer) /\ Distinct(toServer)'
  BY <1>1 DEF Elements, Distinct, MonitorInv
<1> HIDE DEF C, R
<1>5. \A id : id \in R <=> id \in DOMAIN resources /\ resources[id] = g
  BY DEF R
<1>6. Shape'
  BY <1>1, <1>2, <1>3, <1>5 DEF Shape
<1>7. \A id : /\ (Asked(id)' <=> Asked(id)) /\ (Bound(id)' <=> Bound(id) /\ id \notin R)
              /\ (Ended(id)' <=> Ended(id) \/ id \in R)
  BY <1>3, <1>4, Messages DEF Asked, Bound, Ended, C
<1>8. \A id \in R : Bound(id)
  BY <1>5 DEF Bound
<1>9. IdsOnce' /\ InUse'
  BY <1>1, <1>2, <1>4, <1>7, <1>8 DEF IdsOnce, InUse, MonitorInv, AtMostOne
<1>10. \A h : /\ (Announced(h)' <=> Announced(h)) /\ (AskedFor(h)' <=> AskedFor(h))
              /\ (BoundTo(h)' => BoundTo(h))
              /\ (Withdraw(h) \in Elements(toClient)' => Withdraw(h) \in C \/ h = g)
  BY <1>3, <1>4, Messages DEF Announced, AskedFor, BoundTo, C
<1>11. GlobalsOnce'
  BY <1>1, <1>2, <1>3, <1>4, <1>10 DEF GlobalsOnce, AtMostOne, C
<1>12. Numbered' /\ MapsMirrorLibrary' /\ ServerAgrees'
  BY <1>1, <1>3 DEF Numbered, MapsMirrorLibrary, ServerAgrees, MonitorInv
<1>13. NoneOverlooked'
  <2>1. NoneOverlooked
    BY DEF MonitorInv
  <2>2. \A h : BoundTo(h) /\ h # g => BoundTo(h)'
    BY <1>3, <1>5 DEF BoundTo
  <2>3. QED
    BY <1>1, <1>10, <2>1, <2>2 DEF NoneOverlooked
<1>14. QED
  BY <1>3, <1>4, <1>6, <1>9, <1>11, <1>12, <1>13 DEF MonitorInv

LEMMA ServeInv == ASSUME MonitorInv, ServeBind PROVE MonitorInv'
<1> DEFINE C == Elements(toClient)
           S == Elements(toServer)
           c == Head(toServer)
<1>1. /\ toServer # <<>> /\ toServer' = Tail(toServer)
      /\ UNCHANGED <<globals, gone>>
      /\ UNCHANGED <<made, proxies, proxies_t, listeners, looping>>
  BY DEF ServeBind, program
<1>2. Shape /\ Distinct(toClient) /\ Distinct(toServer) /\ IdsOnce /\ GlobalsOnce /\ InUse
      /\ ServerAgrees /\ MapsMirrorLibrary /\ NoneOverlooked
  BY DEF MonitorInv
<1>3. /\ toServer' \in Seq(Calls) /\ c \in Calls /\ c \in S
      /\ Elements(toServer)' = S \ {c} /\ Distinct(toServer)'
  <2>1. /\ Tail(toServer) \in Seq(Calls) /\ c \in Calls /\ c \in S
        /\ Elements(Tail(toServer)) = S \ {c} /\ Distinct(Tail(toServer))
    BY <1>1, <1>2, TakenOff DEF Shape
  <2>2. Elements(toServer)' = Elements(toServer') /\ (Distinct(toServer)' <=> Distinct(toServer'))
    BY DEF Elements, Distinct
  <2>3. QED
    BY <1>1, <2>1, <2>2
<1>4. c.id \in Ids /\ c.global \in Globals /\ Asked(c.id) /\ AskedFor(c.global)
  BY <1>3 DEF Calls, Asked, AskedFor
<1>5. /\ \A id : Asked(id)' <=> Asked(id) /\ id # c.id
      /\ \A g : AskedFor(g)' <=> AskedFor(g) /\ g # c.global
  BY <1>2, <1>3 DEF Asked, AskedFor, IdsOnce, GlobalsOnce
<1>6. Numbered' /\ MapsMirrorLibrary'
  BY <1>1 DEF Numbered, MapsMirrorLibrary, MonitorInv
<1>7. looping => \A d \in S : proxies_t[d.id].of = d.global
  BY <1>2 DEF InUse
<1>8. CASE c.global \in globals
  <2>1. resources' = With(resources, c.id, c.global) /\ toClient' = toClient
    BY <1>8 DEF ServeBind
  <2>2. /\ DOMAIN resources' = DOMAIN resources \cup {c.id}
        /\ \A id \in DOMAIN resources' :
             resources'[id] = IF id = c.id THEN c.global ELSE resources[id]
    BY <2>1 DEF With
  <2>3. Elements(toClient)' = C /\ Distinct(toClient)'
    BY <1>2, <2>1 DEF Elements, Distinct
  <2> HIDE DEF C, S, c
  <2>4. Shape'
    BY <1>1, <1>2, <1>3, <1>4, <1>8, <2>1, <2>2 DEF Shape
  <2>5. /\ \A id : (Bound(id)' <=> Bound(id) \/ id = c.id) /\ (Ended(id)' <=> Ended(id))
        /\ ~Bound(c.id) /\ ~Ended(c.id)
    BY <1>2, <1>4, <2>2, <2>3 DEF Bound, Ended, C, IdsOnce, AtMostOne
  <2>6. /\ \A g : (BoundTo(g)' <=> BoundTo(g) \/ g = c.global) /\ (Announced(g)' <=> Announced(g))
        /\ ~BoundTo(c.global) /\ ~Announced(c.global)
    <3>1. c.id \notin DOMAIN resources
      BY <2>5 DEF Bound
    <3>2. \A g : (BoundTo(g)' <=> BoundTo(g) \/ g = c.global)
      BY <2>2, <3>1 DEF BoundTo
    <3>3. QED
      BY <1>2, <1>4, <2>3, <3>2 DEF Announced, C, GlobalsOnce, AtMostOne
  <2>7. IdsOnce'
    BY <1>2, <1>3, <1>4, <1>5, <2>5 DEF IdsOnce, AtMostOne, S
  <2>8. GlobalsOnce'
    <3>1. \A i, j \in DOMAIN resources' : resources'[i] = resources'[j] => i = j
      BY <1>2, <2>2, <2>6 DEF GlobalsOnce, BoundTo
    <3>2. QED
      BY <1>1, <1>2, <1>3, <1>4, <1>5, <2>3, <2>6, <3>1 DEF GlobalsOnce, AtMostOne, S, C
  <2>9. InUse'
    BY <1>1, <1>2, <1>3, <1>4, <1>5, <2>5 DEF InUse, S
  <2>10. ServerAgrees'
    <3>1. looping => /\ c.id \in DOMAIN proxies /\ proxies_t[c.id].of = c.global
                     /\ DOMAIN proxies_t = DOMAIN proxies
      BY <1>2, <1>3, <1>4, <1>7 DEF InUse, MapsMirrorLibrary
    <3>2. QED
      BY <1>1, <1>2, <2>2, <3>1 DEF ServerAgrees
  <2>11. NoneOverlooked'
    BY <1>1, <1>2, <1>5, <2>6 DEF NoneOverlooked
  <2>12. QED
    BY <1>3, <1>6, <2>3, <2>4, <2>7, <2>8, <2>9, <2>10, <2>11 DEF MonitorInv
<1>9. CASE c.global \notin globals
  <2>1. toClient' = Append(toClient, Removed(c.id)) /\ resources' = resources
    BY <1>9 DEF ServeBind
  <2>2. Removed(c.id) \in News /\ Removed(c.id) \notin C
    BY <1>2, <1>4 DEF News, IdsOnce, AtMostOne, Ended
  <2>3. /\ toClient' \in Seq(News) /\ Elements(toClient)' = C \cup {Removed(c.id)}
        /\ Distinct(toClient)'
    <3>1. /\ Append(toClient, Removed(c.id)) \in Seq(News)
          /\ Elements(Append(toClient, Removed(c.id))) = C \cup {Removed(c.id)}
          /\ Distinct(Append(toClient, Removed(c.id)))
      BY <1>2, <2>2, Added DEF Shape
    <3>2. QED
      BY <2>1, <3>1 DEF Elements, Distinct
  <2> HIDE DEF C, S, c
  <2>4. Shape'
    BY <1>1, <1>2, <1>3, <2>1, <2>3 DEF Shape
  <2>5. \A id : (Bound(id)' <=> Bound(id)) /\ (Ended(id)' <=> Ended(id) \/ id = c.id)
    BY <2>1, <2>3, Messages DEF Bound, Ended, C
  <2>6. \A g : /\ (BoundTo(g)' <=> BoundTo(g)) /\ (Announced(g)' <=> Announced(g))
               /\ (Withdraw(g) \in Elements(toClient)' <=> Withdraw(g) \in C)
    BY <2>1, <2>3, Messages DEF BoundTo, Announced, C
  <2>7. IdsOnce'
    BY <1>2, <1>3, <1>4, <1>5, <2>5 DEF IdsOnce, AtMostOne, S
  <2>8. GlobalsOnce'
    BY <1>1, <1>2, <1>3, <1>5, <2>1, <2>6 DEF GlobalsOnce, AtMostOne, S, C
  <2>9. InUse'
    BY <1>1, <1>2, <1>3, <1>4, <1>5, <2>5 DEF InUse, S
  <2>10. ServerAgrees'
    BY <1>1, <1>2, <2>1 DEF ServerAgrees
  <2>11. NoneOverlooked'
    BY <1>1, <1>2, <1>5, <1>9, <2>6 DEF NoneOverlooked
  <2>12. QED
    BY <1>3, <1>6, <2>3, <2>4, <2>7, <2>8, <2>9, <2>10, <2>11 DEF MonitorInv
<1>10. QED
  BY <1>8, <1>9

(* The next event is of the kind that its handler is for. *)
LEMMA Dispatched ==
  ASSUME MonitorInv, NEW kind, Event(kind), Taken
  PROVE  LET m == Head(toClient) IN
         /\ m \in Elements(toClient)
         /\ kind = "global" => m.global \in Globals /\ m = Announce(m.global)
         /\ kind = "global_remove" => m.global \in Globals /\ m = Withdraw(m.global)
         /\ kind = "removed" => m.id \in Ids /\ m = Removed(m.id)
         /\ toClient' \in Seq(News) /\ Distinct(toClient)'
         /\ Elements(toClient)' = Elements(toClient) \ {m}
         /\ looping /\ UNCHANGED <<globals, gone, resources>>
<1> DEFINE m == Head(toClient)
<1>1. /\ looping /\ toClient # <<>> /\ m.event = kind /\ toClient' = Tail(toClient)
      /\ UNCHANGED <<globals, gone, resources>>
  BY DEF Event, Taken
<1>2. /\ Tail(toClient) \in Seq(News) /\ m \in News /\ m \in Elements(toClient)
      /\ Elements(Tail(toClient)) = Elements(toClient) \ {m} /\ Distinct(Tail(toClient))
  BY <1>1, TakenOff DEF MonitorInv, Shape
<1> HIDE DEF m
<1>3. /\ toClient' \in Seq(News) /\ Elements(toClient)' = Elements(toClient) \ {m}
      /\ Distinct(toClient)'
  <2>1. Elements(toClient)' = Elements(toClient') /\ (Distinct(toClient)' <=> Distinct(toClient'))
    BY DEF Elements, Distinct
  <2>2. QED
    BY <1>1, <1>2, <2>1
<1>4. \/ \E g \in Globals : m = Announce(g) /\ m.event = "global" /\ m.global = g
      \/ \E g \in Globals : m = Withdraw(g) /\ m.event = "global_remove" /\ m.global = g
      \/ \E id \in Ids : m = Removed(id) /\ m.event = "removed" /\ m.id = id
  BY <1>2 DEF News, Announce, Withdraw, Removed
<1>5. /\ kind = "global" => m.global \in Globals /\ m = Announce(m.global)
      /\ kind = "global_remove" => m.global \in Globals /\ m = Withdraw(m.global)
      /\ kind = "removed" => m.id \in Ids /\ m = Removed(m.id)
  BY <1>1, <1>4
<1>6. QED
  BY <1>1, <1>2, <1>3, <1>5 DEF m

(* An announcement that is taken is not followed by another: the global may *)
(* be asked for.                                                            *)
LEMMA Announcement ==
  ASSUME MonitorInv, GlobalEvent, NEW g, g = Head(toClient).global
  PROVE  /\ g \in Globals /\ g \in globals \cup gone
         /\ ~Announced(g)' /\ ~AskedFor(g) /\ ~BoundTo(g)
         /\ \A h : h # g => (Announced(h)' <=> Announced(h))
         /\ \A h : Withdraw(h) \in Elements(toClient)' <=> Withdraw(h) \in Elements(toClient)
         /\ \A id : (Ended(id)' <=> Ended(id))
         /\ UNCHANGED <<globals, gone, resources>>
         /\ toClient' \in Seq(News) /\ Distinct(toClient)' /\ looping /\ looping'
<1> DEFINE C == Elements(toClient)
<1>1. Event("global") /\ Taken /\ looping' = looping
  BY DEF GlobalEvent
<1>2. /\ g \in Globals /\ Announce(g) \in C
      /\ toClient' \in Seq(News) /\ Distinct(toClient)' /\ Elements(toClient)' = C \ {Announce(g)}
      /\ looping /\ UNCHANGED <<globals, gone, resources>>
  BY <1>1, Dispatched
<1> HIDE DEF C
<1>3. Announced(g)
  BY <1>2 DEF Announced, C
<1>4. ~AskedFor(g) /\ ~BoundTo(g) /\ g \in globals \cup gone
  BY <1>2, <1>3 DEF MonitorInv, GlobalsOnce, AtMostOne
<1>5. /\ ~Announced(g)' /\ \A h : h # g => (Announced(h)' <=> Announced(h))
      /\ \A h : Withdraw(h) \in Elements(toClient)' <=> Withdraw(h) \in C
      /\ \A id : (Ended(id)' <=> Ended(id))
  <2>1. ~Announced(g)'
    BY <1>2 DEF Announced
  <2>2. \A h : h # g => (Announced(h)' <=> Announced(h))
    BY <1>2, Messages DEF Announced, C
  <2>3. \A h : Withdraw(h) \in Elements(toClient)' <=> Withdraw(h) \in C
    BY <1>2, Messages
  <2>4. \A id : (Ended(id)' <=> Ended(id))
    BY <1>2, Messages DEF Ended, C
  <2>5. QED
    BY <2>1, <2>2, <2>3, <2>4
<1>6. QED
  BY <1>1, <1>2, <1>4, <1>5 DEF C

LEMMA BindInv ==
  ASSUME MonitorInv, GlobalEvent, NEW g, g = Head(toClient).global, Wants(g)
  PROVE  MonitorInv'
<1> DEFINE S == Elements(toServer)
<1>1. PICK id \in Ids \ DOMAIN proxies : Bind(g, id) /\ Add(g, id)
  BY DEF GlobalEvent
<1> DEFINE c == Call(g, id)
<1>2. /\ g \in Globals /\ g \in globals \cup gone
      /\ ~Announced(g)' /\ ~AskedFor(g) /\ ~BoundTo(g)
      /\ \A h : h # g => (Announced(h)' <=> Announced(h))
      /\ \A h : Withdraw(h) \in Elements(toClient)' <=> Withdraw(h) \in Elements(toClient)
      /\ \A x : (Ended(x)' <=> Ended(x))
      /\ UNCHANGED <<globals, gone, resources>>
      /\ toClient' \in Seq(News) /\ Distinct(toClient)' /\ looping /\ looping'
  BY Announcement
<1>3. /\ made' = made + 1 /\ toServer' = Append(toServer, c)
      /\ proxies' = With(proxies, id, made')
      /\ proxies_t' = With(proxies_t, id, [proxy |-> made', of |-> g])
      /\ Push(id, {"object", "removed"})
  BY <1>1 DEF Bind, Add, Call
<1>4. Shape /\ Distinct(toServer) /\ Numbered /\ MapsMirrorLibrary /\ IdsOnce
      /\ GlobalsOnce /\ InUse /\ ServerAgrees /\ NoneOverlooked
  BY DEF MonitorInv
<1>5. c \in Calls /\ c.id = id /\ c.global = g
  BY <1>1, <1>2 DEF Calls, Call
<1>6. c \notin S
  BY <1>2, <1>5 DEF AskedFor
<1>7. /\ toServer' \in Seq(Calls) /\ Elements(toServer)' = S \cup {c} /\ Distinct(toServer)'
  <2>1. /\ Append(toServer, c) \in Seq(Calls) /\ Elements(Append(toServer, c)) = S \cup {c}
        /\ Distinct(Append(toServer, c))
    BY <1>4, <1>5, <1>6, Added DEF Shape
  <2>2. QED
    BY <1>3, <2>1 DEF Elements, Distinct
<1> HIDE DEF c, S
<1>8. /\ DOMAIN proxies' = DOMAIN proxies \cup {id}
      /\ \A x \in DOMAIN proxies' : proxies'[x] = IF x = id THEN made' ELSE proxies[x]
  BY <1>3 DEF With
<1>9. /\ DOMAIN proxies_t' = DOMAIN proxies_t \cup {id}
      /\ \A x \in DOMAIN proxies_t' :
           proxies_t'[x] = IF x = id THEN [proxy |-> made', of |-> g] ELSE proxies_t[x]
  BY <1>3 DEF With
<1>10. DOMAIN proxies_t = DOMAIN proxies /\ DOMAIN listeners = DOMAIN proxies
  BY <1>4 DEF MapsMirrorLibrary
<1>11. /\ DOMAIN listeners' = DOMAIN listeners \cup {id}
       /\ listeners'[id] = {[on |-> made', for |-> k] : k \in {"object", "removed"}}
       /\ \A x \in DOMAIN listeners : listeners'[x] = listeners[x]
  BY <1>1, <1>3, <1>10 DEF Push, With
<1>12. made \in Nat /\ made' \in Nat /\ \A x \in DOMAIN proxies : proxies[x] \in 1..made
  BY <1>3, <1>4 DEF Shape
<1>13. Shape'
  <2>1. /\ DOMAIN proxies' \subseteq Ids /\ \A x \in DOMAIN proxies' : proxies'[x] \in 1..made'
        /\ DOMAIN proxies_t' \subseteq Ids
    <3>1. DOMAIN proxies \subseteq Ids /\ DOMAIN proxies_t \subseteq Ids
      BY <1>4 DEF Shape
    <3>2. made' \in 1..made' /\ \A n \in 1..made : n \in 1..made'
      BY <1>3, <1>12
    <3>3. \A x \in DOMAIN proxies' : proxies'[x] \in 1..made'
      BY <1>8, <1>12, <3>2
    <3>4. QED
      BY <1>1, <1>8, <1>9, <3>1, <3>3
  <2>2. ASSUME NEW x \in DOMAIN proxies_t'
        PROVE  proxies_t'[x] \in [proxy : 1..made', of : Globals]
    <3>1. CASE x = id
      BY <1>2, <1>3, <1>9, <1>12, <3>1
    <3>2. CASE x # id
      <4>1. proxies_t'[x] = proxies_t[x] /\ proxies_t[x] \in [proxy : 1..made, of : Globals]
        BY <1>4, <1>9, <3>2 DEF Shape
      <4>2. 1..made \subseteq 1..made'
        BY <1>3, <1>12
      <4>3. QED
        BY <4>1, <4>2
    <3>3. QED
      BY <3>1, <3>2
  <2>3. QED
    BY <1>2, <1>4, <1>7, <1>12, <2>1, <2>2 DEF Shape
<1>14. Numbered'
  BY <1>3, <1>4, <1>8, <1>12 DEF Numbered
<1>15. MapsMirrorLibrary'
  <2>1. ASSUME NEW x \in DOMAIN proxies'
        PROVE  /\ proxies_t'[x].proxy = proxies'[x]
               /\ listeners'[x] = {[on |-> proxies'[x], for |-> k] : k \in {"object", "removed"}}
    <3>1. CASE x = id
      BY <1>8, <1>9, <1>11, <3>1
    <3>2. CASE x # id
      BY <1>4, <1>8, <1>9, <1>10, <1>11, <3>2 DEF MapsMirrorLibrary
    <3>3. QED
      BY <3>1, <3>2
  <2>2. QED
    BY <1>8, <1>9, <1>10, <1>11, <2>1 DEF MapsMirrorLibrary
<1>16. ~Asked(id) /\ ~Bound(id) /\ ~Ended(id)
  BY <1>1, <1>2, <1>4 DEF InUse
<1>17. /\ \A x : /\ (Asked(x)' <=> Asked(x) \/ x = id)
                 /\ (Bound(x)' <=> Bound(x))
       /\ \A h : /\ (AskedFor(h)' <=> AskedFor(h) \/ h = g)
                 /\ (BoundTo(h)' <=> BoundTo(h))
  BY <1>2, <1>5, <1>7 DEF Asked, Bound, AskedFor, BoundTo, S
<1>18. IdsOnce'
  BY <1>2, <1>4, <1>5, <1>7, <1>16, <1>17 DEF IdsOnce, AtMostOne, Asked, S
<1>19. GlobalsOnce'
  <2>1. \A d, e \in S \cup {c} : d.global = e.global => d = e
    BY <1>2, <1>4, <1>5 DEF GlobalsOnce, AskedFor, S
  <2>2. \A h \in Globals : AtMostOne(Announced(h), AskedFor(h), BoundTo(h))'
    BY <1>2, <1>4, <1>17 DEF GlobalsOnce, AtMostOne
  <2>3. \A h \in Globals : /\ (Announced(h) \/ AskedFor(h))' => h \in (globals \cup gone)'
                           /\ Withdraw(h) \in Elements(toClient)' => h \in gone'
    BY <1>2, <1>4, <1>17 DEF GlobalsOnce
  <2>4. \A i, j \in DOMAIN resources' : resources'[i] = resources'[j] => i = j
    BY <1>2, <1>4 DEF GlobalsOnce
  <2>5. QED
    BY <1>7, <2>1, <2>2, <2>3, <2>4 DEF GlobalsOnce
<1>20. InUse'
  <2>1. DOMAIN proxies' = {x \in Ids : (Asked(x) \/ Bound(x) \/ Ended(x))'}
    BY <1>1, <1>2, <1>4, <1>8, <1>17 DEF InUse
  <2>2. \A d \in S : d.id # id /\ d.id \in DOMAIN proxies_t'
                     /\ proxies_t'[d.id].of = d.global
    <3>1. \A d \in S : d \in Calls
      BY <1>4 DEF S, Elements, Shape
    <3>2. \A d \in S : d.id \in Ids /\ Asked(d.id)
      BY <3>1 DEF Asked, S, Calls
    <3>3. \A d \in S : d.id \in DOMAIN proxies /\ proxies_t[d.id].of = d.global
      BY <1>2, <1>4, <3>2 DEF InUse, S
    <3>4. QED
      BY <1>1, <1>9, <1>10, <3>3
  <2>3. proxies_t'[id].of = g
    BY <1>9
  <2>4. QED
    BY <1>5, <1>7, <2>1, <2>2, <2>3 DEF InUse, S
<1>21. ServerAgrees'
  <2>1. \A x \in DOMAIN resources : x # id
    BY <1>16 DEF Bound
  <2>2. QED
    BY <1>2, <1>4, <1>9, <2>1 DEF ServerAgrees
<1>22. NoneOverlooked'
  BY <1>2, <1>4, <1>17 DEF NoneOverlooked
<1>23. QED
  BY <1>2, <1>7, <1>13, <1>14, <1>15, <1>18, <1>19, <1>20, <1>21, <1>22 DEF MonitorInv

LEMMA PassInv ==
  ASSUME MonitorInv, GlobalEvent, NEW g, g = Head(toClient).global, ~Wants(g)
  PROVE  MonitorInv'
<1>1. UNCHANGED <<toServer, made, proxies, proxies_t, listeners>>
  BY DEF GlobalEvent
<1>2. /\ g \in Globals
      /\ ~Announced(g)' /\ \A h : h # g => (Announced(h)' <=> Announced(h))
      /\ \A h : Withdraw(h) \in Elements(toClient)' <=> Withdraw(h) \in Elements(toClient)
      /\ \A x : (Ended(x)' <=> Ended(x))
      /\ UNCHANGED <<globals, gone, resources>>
      /\ toClient' \in Seq(News) /\ Distinct(toClient)' /\ looping /\ looping'
  BY Announcement
<1>3. Elements(toServer)' = Elements(toServer) /\ Distinct(toServer)'
  BY <1>1 DEF Elements, Distinct, MonitorInv
<1>4. /\ \A x : (Asked(x)' <=> Asked(x)) /\ (Bound(x)' <=> Bound(x))
      /\ \A h : (AskedFor(h)' <=> AskedFor(h)) /\ (BoundTo(h)' <=> BoundTo(h))
  BY <1>2, <1>3 DEF Asked, Bound, AskedFor, BoundTo
<1>5. Shape'
  BY <1>1, <1>2 DEF Shape, MonitorInv
<1>6. Numbered' /\ MapsMirrorLibrary' /\ ServerAgrees'
  BY <1>1, <1>2 DEF Numbered, MapsMirrorLibrary, ServerAgrees, MonitorInv
<1>7. IdsOnce' /\ InUse'
  BY <1>1, <1>2, <1>3, <1>4 DEF IdsOnce, InUse, AtMostOne, MonitorInv
<1>8. GlobalsOnce'
  <2>1. GlobalsOnce
    BY DEF MonitorInv
  <2>2. \A h \in Globals : AtMostOne(Announced(h), AskedFor(h), BoundTo(h))'
    BY <1>2, <1>4, <2>1 DEF GlobalsOnce, AtMostOne
  <2>3. \A h \in Globals : /\ (Announced(h) \/ AskedFor(h))' => h \in (globals \cup gone)'
                           /\ Withdraw(h) \in Elements(toClient)' => h \in gone'
    BY <1>2, <1>4, <2>1 DEF GlobalsOnce
  <2>4. QED
    BY <1>2, <1>3, <2>1, <2>2, <2>3 DEF GlobalsOnce
<1>9. NoneOverlooked'
  BY <1>2, <1>4 DEF NoneOverlooked, MonitorInv
<1>10. QED
  BY <1>2, <1>3, <1>5, <1>6, <1>7, <1>8, <1>9 DEF MonitorInv

LEMMA GlobalRemoveInv == ASSUME MonitorInv, GlobalRemoveEvent PROVE MonitorInv'
<1> DEFINE g == Head(toClient).global
<1>1. /\ Event("global_remove") /\ Taken
      /\ UNCHANGED <<toServer, made, proxies, proxies_t, listeners, looping>>
  BY DEF GlobalRemoveEvent, program
<1>2. /\ toClient' \in Seq(News) /\ Distinct(toClient)'
      /\ Elements(toClient)' = Elements(toClient) \ {Withdraw(g)}
      /\ UNCHANGED <<globals, gone, resources>>
  BY <1>1, Dispatched
<1> HIDE DEF g
<1>3. Elements(toServer)' = Elements(toServer) /\ Distinct(toServer)'
  BY <1>1 DEF Elements, Distinct, MonitorInv
<1>4. /\ \A x : (Asked(x)' <=> Asked(x)) /\ (Bound(x)' <=> Bound(x)) /\ (Ended(x)' <=> Ended(x))
      /\ \A h : /\ AskedFor(h)' <=> AskedFor(h)
                /\ BoundTo(h)' <=> BoundTo(h)
                /\ Announced(h)' <=> Announced(h)
  BY <1>2, <1>3, Messages DEF Asked, Bound, Ended, AskedFor, BoundTo, Announced
<1>5. Shape'
  BY <1>1, <1>2 DEF Shape, MonitorInv
<1>6. Numbered' /\ MapsMirrorLibrary' /\ ServerAgrees'
  BY <1>1, <1>2 DEF Numbered, MapsMirrorLibrary, ServerAgrees, MonitorInv
<1>7. IdsOnce' /\ InUse'
  BY <1>1, <1>3, <1>4 DEF IdsOnce, InUse, AtMostOne, MonitorInv
<1>8. GlobalsOnce'
  BY <1>2, <1>3, <1>4 DEF GlobalsOnce, AtMostOne, MonitorInv
<1>9. NoneOverlooked'
  BY <1>1, <1>2, <1>4 DEF NoneOverlooked, MonitorInv
<1>10. QED
  BY <1>2, <1>3, <1>5, <1>6, <1>7, <1>8, <1>9 DEF MonitorInv

LEMMA RemovedInv == ASSUME MonitorInv, RemovedEvent PROVE MonitorInv'
<1> DEFINE id == Head(toClient).id
           C == Elements(toClient)
<1>1. /\ Event("removed") /\ Taken /\ UNCHANGED <<toServer, made, looping>>
  BY DEF RemovedEvent
<1>2. /\ id \in Ids /\ Removed(id) \in C
      /\ toClient' \in Seq(News) /\ Distinct(toClient)'
      /\ Elements(toClient)' = C \ {Removed(id)}
      /\ looping /\ UNCHANGED <<globals, gone, resources>>
  BY <1>1, Dispatched
<1>3. Shape /\ Distinct(toServer) /\ Numbered /\ MapsMirrorLibrary /\ IdsOnce
      /\ GlobalsOnce /\ InUse /\ ServerAgrees /\ NoneOverlooked
  BY DEF MonitorInv
<1>4. Ended(id) /\ id \in DOMAIN proxies /\ ~Asked(id) /\ ~Bound(id)
  BY <1>2, <1>3 DEF Ended, InUse, IdsOnce, AtMostOne
<1>5. /\ DOMAIN proxies_t = DOMAIN proxies /\ DOMAIN listeners = DOMAIN proxies
      /\ \A x \in DOMAIN proxies :
           /\ proxies_t[x].proxy = proxies[x]
           /\ listeners[x] = {[on |-> proxies[x], for |-> k] : k \in {"object", "removed"}}
  BY <1>3 DEF MapsMirrorLibrary
<1>6. \E key \in DOMAIN listeners : [on |-> proxies[id], for |-> "removed"] \in listeners[key]
  <2>1. [on |-> proxies[id], for |-> "removed"] \in listeners[id]
    BY <1>4, <1>5
  <2>2. QED
    BY <1>4, <1>5, <2>1
<1>7. /\ Remove(id)
      /\ proxies' = Restrict(proxies, {i \in DOMAIN proxies :
                      \E key \in DOMAIN proxies_t' : proxies_t'[key].proxy = proxies[i]})
  BY <1>6 DEF RemovedEvent
<1> HIDE DEF id
<1>8. /\ DOMAIN proxies_t' = DOMAIN proxies_t \ {id} /\ DOMAIN listeners' = DOMAIN listeners \ {id}
      /\ \A x \in DOMAIN proxies_t' : proxies_t'[x] = proxies_t[x]
      /\ \A x \in DOMAIN listeners' : listeners'[x] = listeners[x]
  BY <1>7 DEF Remove, Without, Restrict
<1>9. {i \in DOMAIN proxies : \E key \in DOMAIN proxies_t' : proxies_t'[key].proxy = proxies[i]}
        = DOMAIN proxies \ {id}
  BY <1>3, <1>4, <1>5, <1>8 DEF Numbered
<1>10. /\ DOMAIN proxies' = DOMAIN proxies \ {id}
       /\ \A x \in DOMAIN proxies' : proxies'[x] = proxies[x]
  BY <1>7, <1>9 DEF Restrict
<1>11. Elements(toServer)' = Elements(toServer) /\ Distinct(toServer)'
  BY <1>1, <1>3 DEF Elements, Distinct
<1> HIDE DEF C
<1>12. /\ \A x : /\ Asked(x)' <=> Asked(x)
                 /\ Bound(x)' <=> Bound(x)
                 /\ Ended(x)' <=> Ended(x) /\ x # id
       /\ \A h : /\ (AskedFor(h)' <=> AskedFor(h)) /\ (BoundTo(h)' <=> BoundTo(h))
                 /\ (Announced(h)' <=> Announced(h))
                 /\ (Withdraw(h) \in Elements(toClient)' <=> Withdraw(h) \in C)
  BY <1>2, <1>11, Messages DEF Asked, Bound, Ended, AskedFor, BoundTo, Announced, C
<1>13. Shape'
  BY <1>1, <1>2, <1>3, <1>8, <1>10 DEF Shape
<1>14. Numbered'
  BY <1>3, <1>10 DEF Numbered
<1>15. MapsMirrorLibrary'
  BY <1>5, <1>8, <1>10 DEF MapsMirrorLibrary
<1>16. IdsOnce'
  BY <1>3, <1>11, <1>12 DEF IdsOnce, AtMostOne
<1>17. GlobalsOnce'
  BY <1>2, <1>3, <1>11, <1>12 DEF GlobalsOnce, AtMostOne, C
<1>18. InUse'
  <2>1. DOMAIN proxies' = {x \in Ids : (Asked(x) \/ Bound(x) \/ Ended(x))'}
    BY <1>2, <1>3, <1>4, <1>10, <1>12 DEF InUse
  <2>2. \A c \in Elements(toServer) : c \in Calls
    BY <1>3 DEF Elements, Shape
  <2>3. \A c \in Elements(toServer) : c.id \in Ids /\ Asked(c.id)
    BY <2>2 DEF Asked, Calls
  <2>4. \A c \in Elements(toServer) : /\ c.id # id /\ c.id \in DOMAIN proxies
                                      /\ proxies_t[c.id].of = c.global
    BY <1>2, <1>3, <1>4, <2>3 DEF InUse
  <2>5. \A c \in Elements(toServer)' : proxies_t'[c.id].of = c.global
    BY <1>5, <1>8, <1>11, <2>4
  <2>6. QED
    BY <2>1, <2>5 DEF InUse
<1>19. ServerAgrees'
  BY <1>2, <1>3, <1>4, <1>8 DEF ServerAgrees, Bound
<1>20. NoneOverlooked'
  BY <1>1, <1>2, <1>3, <1>12 DEF NoneOverlooked
<1>21. QED
  BY <1>2, <1>11, <1>13, <1>14, <1>15, <1>16, <1>17, <1>18, <1>19, <1>20 DEF MonitorInv

LEMMA QuitInv == ASSUME MonitorInv, Quit PROVE MonitorInv'
<1>1. /\ looping' = FALSE /\ proxies_t' = <<>> /\ listeners' = <<>> /\ proxies' = <<>>
      /\ UNCHANGED <<globals, gone, resources, toClient, toServer, made>>
  BY DEF Quit, server, Empty
<1>2. DOMAIN <<>> = {}
  OBVIOUS
<1>3. Shape'
  BY <1>1, <1>2 DEF MonitorInv, Shape
<1>4. Numbered' /\ MapsMirrorLibrary'
  BY <1>1, <1>2 DEF Numbered, MapsMirrorLibrary
<1>5. ServerAgrees' /\ InUse' /\ NoneOverlooked'
  BY <1>1 DEF ServerAgrees, InUse, NoneOverlooked
<1>6. Distinct(toClient)' /\ Distinct(toServer)'
  BY <1>1 DEF MonitorInv, Distinct
<1>7. IdsOnce'
  BY <1>1 DEF MonitorInv, IdsOnce, Elements, Asked, Bound, Ended, AtMostOne
<1>8. GlobalsOnce'
  BY <1>1 DEF MonitorInv, GlobalsOnce, Elements, Announced, AskedFor, BoundTo, AtMostOne
<1>9. QED
  BY <1>3, <1>4, <1>5, <1>6, <1>7, <1>8 DEF MonitorInv

LEMMA MonitorStutters == ASSUME MonitorInv, UNCHANGED monitorVars PROVE MonitorInv'
<1>1. UNCHANGED <<globals, gone, resources, toClient, toServer, made, proxies, proxies_t,
                  listeners, looping>>
  BY DEF monitorVars, server, program
<1>2. Shape' /\ Numbered' /\ MapsMirrorLibrary'
  BY <1>1 DEF MonitorInv, Shape, Numbered, MapsMirrorLibrary
<1>3. Elements(toServer)' = Elements(toServer) /\ Elements(toClient)' = Elements(toClient)
  BY <1>1 DEF Elements
<1>4. /\ \A x : (Asked(x)' <=> Asked(x)) /\ (Bound(x)' <=> Bound(x)) /\ (Ended(x)' <=> Ended(x))
      /\ \A h : /\ AskedFor(h)' <=> AskedFor(h)
                /\ BoundTo(h)' <=> BoundTo(h)
                /\ Announced(h)' <=> Announced(h)
  BY <1>1, <1>3 DEF Asked, Bound, Ended, AskedFor, BoundTo, Announced
<1>5. ServerAgrees' /\ InUse' /\ IdsOnce' /\ NoneOverlooked'
  BY <1>1, <1>3, <1>4 DEF MonitorInv, ServerAgrees, InUse, IdsOnce, AtMostOne, NoneOverlooked
<1>6. GlobalsOnce'
  BY <1>1, <1>3, <1>4 DEF MonitorInv, GlobalsOnce, AtMostOne
<1>7. Distinct(toClient)' /\ Distinct(toServer)'
  BY <1>1 DEF MonitorInv, Distinct
<1>8. QED
  BY <1>2, <1>5, <1>6, <1>7 DEF MonitorInv

(* MonitorInv is an invariant. *)
THEOREM MonitorInvariant == MonitorSpec => []MonitorInv
<1>1. MonitorInv /\ [MonitorNext]_monitorVars => MonitorInv'
  <2> SUFFICES ASSUME MonitorInv, [MonitorNext]_monitorVars PROVE MonitorInv'
    OBVIOUS
  <2>1. CASE UNCHANGED monitorVars
    BY <2>1, MonitorStutters
  <2>2. CASE Dispatch
    <3>1. PICK g : g = Head(toClient).global
      OBVIOUS
    <3>2. QED
      BY <2>2, <3>1, BindInv, PassInv, GlobalRemoveInv, RemovedInv DEF Dispatch
  <2>3. QED
    BY <2>1, <2>2, AppearInv, VanishInv, ServeInv, QuitInv DEF MonitorNext
<1>2. QED
  BY <1>1, MonitorStarts, PTL DEF MonitorSpec

(* The shape of the state of pw-mon and its server. *)
THEOREM MonitorTyping == MonitorSpec => []MonitorTypeOK
<1>1. ASSUME MonitorInv PROVE MonitorTypeOK
  <2>1. Shape /\ MapsMirrorLibrary
    BY <1>1 DEF MonitorInv
  <2>2. /\ Range(resources) \subseteq globals /\ Range(proxies) \subseteq 1..made
        /\ Range(proxies_t) \subseteq [proxy : 1..made, of : Globals]
    BY <2>1 DEF Shape, Range
  <2>3. UNION Range(listeners) \subseteq [on : 1..made, for : {"object", "removed"}]
    <3>1. ASSUME NEW id \in DOMAIN listeners, NEW l \in listeners[id]
          PROVE  l \in [on : 1..made, for : {"object", "removed"}]
      <4>1. id \in DOMAIN proxies
            /\ listeners[id] = {[on |-> proxies[id], for |-> k] : k \in {"object", "removed"}}
        BY <2>1 DEF MapsMirrorLibrary
      <4>2. proxies[id] \in 1..made
        BY <2>1, <4>1 DEF Shape
      <4>3. QED
        BY <4>1, <4>2
    <3>2. QED
      BY <3>1 DEF Range
  <2>4. DOMAIN listeners \subseteq Ids
    BY <2>1 DEF Shape, MapsMirrorLibrary
  <2>5. QED
    BY <2>1, <2>2, <2>3, <2>4 DEF Shape, MonitorTypeOK
<1>2. QED
  BY <1>1, MonitorInvariant, PTL

(* Between callbacks the maps of pw-mon.rs hold exactly the proxies that the *)
(* library has, for any number of globals and ids that are used again.       *)
THEOREM MapsAreInStep == MonitorSpec => []MapsMirrorLibrary
<1>1. MonitorInv => MapsMirrorLibrary
  BY DEF MonitorInv
<1>2. QED
  BY <1>1, MonitorInvariant, PTL

(* What the server has bound for an id is what pw-mon.rs keeps under it. *)
THEOREM ServerAndMapsAgree == MonitorSpec => []ServerAgrees
<1>1. MonitorInv => ServerAgrees
  BY DEF MonitorInv
<1>2. QED
  BY <1>1, MonitorInvariant, PTL

(* A sequence ranges over its elements. *)
LEMMA RangeIsElements == ASSUME NEW S, NEW s \in Seq(S) PROVE Range(s) = Elements(s)
BY LenProperties DEF Range, Elements

(* Whatever exists and is wanted is announced, asked for or bound, and what *)
(* pw-mon.rs keeps of a global that is gone is about to be removed.         *)
THEOREM NothingIsOverlooked == MonitorSpec => []NewsOnTheWay
<1>1. ASSUME MonitorInv PROVE NewsOnTheWay
  <2> SUFFICES ASSUME looping PROVE NewsOnTheWay
    BY DEF NewsOnTheWay
  <2>1. Shape /\ InUse /\ ServerAgrees /\ MapsMirrorLibrary /\ NoneOverlooked
    BY <1>1 DEF MonitorInv
  <2>2. Range(toClient) = Elements(toClient) /\ Range(toServer) = Elements(toServer)
    BY <2>1, RangeIsElements DEF Shape
  <2>3. ASSUME NEW g \in globals, TypeOf[g] \in {"Node", "Port", "Link", "Metadata"}
        PROVE  \/ [event |-> "global", global |-> g] \in Range(toClient)
               \/ \E call \in Range(toServer) : call.global = g
               \/ g \in Range(resources)
    <3>1. Announced(g) \/ AskedFor(g) \/ BoundTo(g)
      BY <2>1, <2>3 DEF NoneOverlooked, Wants
    <3>2. BoundTo(g) => g \in Range(resources)
      BY DEF BoundTo, Range
    <3>3. QED
      BY <2>2, <3>1, <3>2 DEF Announced, Announce, AskedFor
  <2>4. ASSUME NEW id \in DOMAIN proxies_t, proxies_t[id].of \in gone
        PROVE  \/ Removed(id) \in Range(toClient)
               \/ \E call \in Range(toServer) : call.id = id
    <3>1. Asked(id) \/ Bound(id) \/ Ended(id)
      BY <2>1 DEF InUse, MapsMirrorLibrary
    <3>2. ~Bound(id)
      BY <2>1, <2>4 DEF Bound, ServerAgrees, Shape
    <3>3. QED
      BY <2>2, <3>1, <3>2 DEF Asked, Ended
  <2>5. QED
    BY <2>3, <2>4 DEF NewsOnTheWay
<1>2. QED
  BY <1>1, MonitorInvariant, PTL
==============================================================================
