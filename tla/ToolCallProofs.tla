--------------------------- MODULE ToolCallProofs --------------------------
(***************************************************************************)
(* Theorems about ToolCall, for any number of runs, any crates, tools and  *)
(* inputs that keep NodesAssumption, any statuses and any rotations; and   *)
(* about the twelve crates themselves: what their tables say of every      *)
(* operation, and what follows for any inputs of theirs.                   *)
(***************************************************************************)
EXTENDS ToolCall, TLAPS

-----------------------------------------------------------------------------
(* The inductive invariant.                                                *)

(* How far a run has come tells what it has sent and what it has answered. *)
PlaceInv(r) ==
  /\ pc[r] \in {"idle", "credentials", "exchanging", "validate"} => wire[r] = "unsent"
  /\ pc[r] = "calling" => wire[r] # "unsent"
  /\ pc[r] = "done" <=> reply[r] # "none"
  /\ reply[r] = "refused" => wire[r] = "unsent"
  /\ reply[r] = "ok" => wire[r] = "answered" /\ answer[r].status \in 200..299

(* The service made the change when it answered with success, and none     *)
(* that it was not asked for.                                              *)
EffectInv(r) ==
  /\ wire[r] # "answered" => effect[r] = 0
  /\ effect[r] = 1 => CallOf(input[r]).writes
  /\ wire[r] = "answered" /\ answer[r].status \in 200..299 /\ CallOf(input[r]).writes
       => effect[r] = 1

(* What is read was read since the run began, and is read in order.        *)
ReadInv(r) ==
  /\ since[r] =< rotation
  /\ \A g \in got[r] : g.at >= since[r]
  /\ pc[r] = "idle" => got[r] = {}
  /\ pc[r] = "credentials" => ToSet(left[r]) \subseteq ToSet(NodeOf(input[r]).fields)
  /\ pc[r] \in {"credentials", "exchanging"}
       => Reads(got[r]) \subseteq ToSet(NodeOf(input[r]).fields)
  /\ pc[r] = "credentials" /\ NodeOf(input[r]).auth # "either"
       => ToSet(NodeOf(input[r]).fields) \subseteq Reads(got[r]) \union ToSet(left[r])
  /\ (pc[r] \in {"exchanging", "validate"} \/ wire[r] # "unsent")
     /\ NodeOf(input[r]).auth # "either"
       => ToSet(NodeOf(input[r]).fields) \subseteq Reads(got[r])

(* The credential a call goes out with.                                    *)
Granted(r) ==
  CASE NodeOf(input[r]).auth = "refresh" -> exchange[r] = "granted"
    [] NodeOf(input[r]).auth = "static"  -> exchange[r] = "none"
    [] NodeOf(input[r]).auth = "either"  ->
         \/ exchange[r] = "granted" /\ "access_token" \notin Reads(got[r])
         \/ exchange[r] = "none" /\ "access_token" \in Reads(got[r])

GrantInv(r) ==
  /\ pc[r] \in {"idle", "credentials"} => exchange[r] = "none"
  /\ pc[r] = "exchanging" => exchange[r] = "sent" /\ NodeOf(input[r]).auth # "static"
  /\ pc[r] = "validate" \/ wire[r] # "unsent" => Granted(r)

RunInv(r) == PlaceInv(r) /\ EffectInv(r) /\ ReadInv(r) /\ GrantInv(r)

TInv == TypeOK /\ \A r \in Runs : RunInv(r)

-----------------------------------------------------------------------------
(* Sequences and sets of what was read.                                    *)

LEMMA HeadAndTail ==
  ASSUME NEW T, NEW s \in Seq(T), s # <<>>
  PROVE  /\ Head(s) \in T /\ Tail(s) \in Seq(T)
         /\ Head(s) \in ToSet(s)
         /\ ToSet(Tail(s)) \subseteq ToSet(s)
         /\ ToSet(s) \subseteq {Head(s)} \union ToSet(Tail(s))
<1>1. Len(s) >= 1 /\ Head(s) = s[1] /\ Head(s) \in T /\ Tail(s) \in Seq(T)
  OBVIOUS
<1>2. /\ Len(Tail(s)) = Len(s) - 1
      /\ \A i \in 1 .. Len(s) - 1 : Tail(s)[i] = s[i + 1]
  BY <1>1
<1>3. ToSet(s) = {s[i] : i \in 1 .. Len(s)}
      /\ ToSet(Tail(s)) = {Tail(s)[i] : i \in 1 .. Len(s) - 1}
  <2>1. DOMAIN s = 1 .. Len(s)  OBVIOUS
  <2>2. Tail(s) \in Seq(T) /\ Len(Tail(s)) = Len(s) - 1  BY <1>1, <1>2
  <2>3. DOMAIN Tail(s) = 1 .. Len(s) - 1  BY <2>2
  <2> QED  BY <2>1, <2>3 DEF ToSet
<1>4. ToSet(Tail(s)) \subseteq ToSet(s)
  <2> SUFFICES ASSUME NEW i \in 1 .. Len(s) - 1 PROVE s[i + 1] \in ToSet(s)
    BY <1>2, <1>3
  <2>1. i + 1 \in 1 .. Len(s)  BY <1>1
  <2> QED  BY <1>3, <2>1
<1>5. ToSet(s) \subseteq {Head(s)} \union ToSet(Tail(s))
  <2> SUFFICES ASSUME NEW i \in 1 .. Len(s), i # 1 PROVE s[i] \in ToSet(Tail(s))
    BY <1>1, <1>3
  <2>1. i - 1 \in 1 .. Len(s) - 1 /\ (i - 1) + 1 = i  BY <1>1
  <2>2. Tail(s)[i - 1] = s[i]  BY <1>2, <2>1
  <2> QED  BY <1>3, <2>1, <2>2
<1>6. Head(s) \in ToSet(s)  BY <1>1, <1>3
<1> QED  BY <1>1, <1>4, <1>5, <1>6

LEMMA EmptySet == ToSet(<<>>) = {}
BY DEF ToSet

LEMMA SeqOfMore ==
  ASSUME NEW S, NEW T, S \subseteq T, NEW s \in Seq(S)
  PROVE  s \in Seq(T)
OBVIOUS

LEMMA ReadOneMore ==
  ASSUME NEW G, NEW f, NEW v
  PROVE  Reads(G \union {[field |-> f, at |-> v]}) = Reads(G) \union {f}
<1>1. [field |-> f, at |-> v].field = f  OBVIOUS
<1>2. Reads(G) = {g.field : g \in G}  BY DEF Reads
<1>3. Reads(G \union {[field |-> f, at |-> v]})
        = {g.field : g \in G \union {[field |-> f, at |-> v]}}
  BY Zenon DEF Reads
<1> QED  BY <1>1, <1>2, <1>3

-----------------------------------------------------------------------------
(* What NodesAssumption says of the input of a run under way.              *)

LEMMA InputTypes ==
  ASSUME TypeOK, NEW r \in Runs, pc[r] # "idle"
  PROVE  /\ input[r] \in Inputs
         /\ NodeOf(input[r]).auth \in {"static", "refresh", "either"}
         /\ NodeOf(input[r]).fields \in Seq(AllFields)
         /\ NodeOf(input[r]).auth = "either" =>
              /\ "access_token" \in AllFields
              /\ "access_token" \notin ToSet(NodeOf(input[r]).fields)
         /\ CallOf(input[r]).writes \in BOOLEAN
         /\ NodeOf(input[r]).transport.succeeds \subseteq 200..299
<1>1. input[r] \in Inputs  BY DEF TypeOK
<1>2. DOMAIN input[r].creds \subseteq AllFields  BY <1>1 DEF AllFields
<1>3. NodeOf(input[r]).fields \in Seq(DOMAIN input[r].creds)
  BY <1>1, NodesAssumption
<1>4. NodeOf(input[r]).fields \in Seq(AllFields)  BY <1>2, <1>3, SeqOfMore
<1> QED  BY <1>1, <1>2, <1>4, NodesAssumption

(* A step that leaves a run alone keeps its part of the invariant.         *)
Same(q) ==
  /\ pc'[q] = pc[q] /\ input'[q] = input[q] /\ left'[q] = left[q]
  /\ got'[q] = got[q] /\ since'[q] = since[q] /\ exchange'[q] = exchange[q]
  /\ wire'[q] = wire[q] /\ answer'[q] = answer[q] /\ effect'[q] = effect[q]
  /\ reply'[q] = reply[q]

LEMMA Frame ==
  ASSUME TypeOK, NEW q \in Runs, RunInv(q), Same(q),
         rotation' \in Nat, rotation =< rotation'
  PROVE  RunInv(q)'
<1>1. PlaceInv(q)'  BY DEF RunInv, PlaceInv, Same
<1>2. EffectInv(q)'  BY DEF RunInv, EffectInv, Same
<1>3. ReadInv(q)'
  <2>1. since[q] \in Nat /\ rotation \in Nat
    BY RotationsAssumption DEF TypeOK
  <2> QED  BY <2>1 DEF RunInv, ReadInv, Same
<1>4. GrantInv(q)'  BY DEF RunInv, GrantInv, Granted, Same
<1> QED  BY <1>1, <1>2, <1>3, <1>4 DEF RunInv

LEMMA InitInv == Init => TInv
<1> SUFFICES ASSUME Init PROVE TInv  OBVIOUS
<1>1. TypeOK
  BY RotationsAssumption DEF Init, TypeOK, Steps, Exchanges, Wires, Replies
<1>2. ASSUME NEW r \in Runs PROVE RunInv(r)
  BY EmptySet DEF Init, RunInv, PlaceInv, EffectInv, ReadInv, GrantInv
<1> QED  BY <1>1, <1>2 DEF TInv

(* Whatever happens to one run leaves every other one alone.               *)
LEMMA OtherRuns ==
  ASSUME TInv, NEW r \in Runs,
         Begin(r) \/ Step(r) \/ CarryOut(r) \/ TurnAway(r)
  PROVE  \A q \in Runs : q # r => RunInv(q)'
<1> SUFFICES ASSUME NEW q \in Runs, q # r PROVE RunInv(q)'
  OBVIOUS
<1>1. TypeOK /\ RunInv(q)  BY DEF TInv
<1>2. rotation' = rotation /\ rotation \in Nat
  <2>1. rotation \in Nat  BY <1>1, RotationsAssumption DEF TypeOK
  <2>2. CASE Begin(r)  BY <2>1, <2>2 DEF Begin
  <2>3. CASE Step(r)
    BY <2>1, <2>3 DEF Step, ReadCredential, SendExchange, UseStatic, FallBack,
         ExchangeAnswered, ExchangeTimesOut, RefuseInput, SendCall, Receive,
         GiveUp, store
  <2>4. CASE CarryOut(r) \/ TurnAway(r)  BY <2>1, <2>4 DEF CarryOut, TurnAway, store
  <2> QED  BY <2>2, <2>3, <2>4
<1>3. Same(q)
  <2>1. CASE Begin(r)  BY <1>1, <2>1 DEF Begin, TypeOK, Same
  <2>2. CASE ReadCredential(r)
    BY <1>1, <2>2 DEF ReadCredential, Finish, TypeOK, Same
  <2>3. CASE SendExchange(r) \/ UseStatic(r)
    BY <1>1, <2>3 DEF SendExchange, UseStatic, TypeOK, Same
  <2>4. CASE FallBack(r)  BY <1>1, <2>4 DEF FallBack, Finish, TypeOK, Same
  <2>5. CASE ExchangeAnswered(r) \/ ExchangeTimesOut(r)
    BY <1>1, <2>5 DEF ExchangeAnswered, ExchangeTimesOut, Finish, TypeOK, Same
  <2>6. CASE RefuseInput(r) \/ SendCall(r)
    BY <1>1, <2>6 DEF RefuseInput, SendCall, Finish, TypeOK, Same
  <2>7. CASE Receive(r) \/ GiveUp(r)
    BY <1>1, <2>7 DEF Receive, GiveUp, Finish, TypeOK, Same
  <2>8. CASE CarryOut(r) \/ TurnAway(r)
    <3>1. /\ UNCHANGED <<pc, input, left, got, since, exchange, reply>>
          /\ wire' = [wire EXCEPT ![r] = "answered"]
      BY <2>8 DEF CarryOut, TurnAway
    <3>2. \E e : effect' = [effect EXCEPT ![r] = e]
      <4>1. CASE CarryOut(r)  BY <4>1 DEF CarryOut
      <4>2. CASE TurnAway(r)
        <5>1. effect' = [effect EXCEPT ![r] = effect[r]]
          BY <1>1, <4>2 DEF TurnAway, TypeOK
        <5> QED  BY <5>1
      <4> QED  BY <2>8, <4>1, <4>2
    <3>3. \E a : answer' = [answer EXCEPT ![r] = a]
      BY <2>8 DEF CarryOut, TurnAway
    <3>4. wire'[q] = wire[q] /\ effect'[q] = effect[q] /\ answer'[q] = answer[q]
      BY <1>1, <3>1, <3>2, <3>3 DEF TypeOK
    <3> QED  BY <3>1, <3>4 DEF Same
  <2> QED  BY <2>1, <2>2, <2>3, <2>4, <2>5, <2>6, <2>7, <2>8 DEF Step
<1> QED  BY <1>1, <1>2, <1>3, Frame

-----------------------------------------------------------------------------
(* The steps of the run itself.                                            *)

LEMMA BeginInv ==
  ASSUME TInv, NEW r \in Runs, Begin(r)
  PROVE  TypeOK' /\ RunInv(r)'
<1>1. TypeOK /\ RunInv(r)  BY DEF TInv
<1>2. PICK i \in Inputs : input' = [input EXCEPT ![r] = i]
                         /\ left' = [left EXCEPT ![r] = NodeOf(i).fields]
  BY ConcurrentAssumption DEF Begin
<1>3. /\ pc[r] = "idle" /\ pc' = [pc EXCEPT ![r] = "credentials"]
      /\ since' = [since EXCEPT ![r] = rotation]
      /\ UNCHANGED <<provisioned, rotation, got, exchange, wire, answer, effect, reply>>
  BY DEF Begin
<1>4. NodeOf(i).fields \in Seq(AllFields)
  <2>1. DOMAIN i.creds \subseteq AllFields  BY DEF AllFields
  <2> QED  BY <2>1, NodesAssumption, SeqOfMore
<1>5. i # none  BY NoneAssumption
<1>6. TypeOK'
  <2>1. "credentials" \in Steps /\ "credentials" # "idle"  BY DEF Steps
  <2>2. pc' \in [Runs -> Steps]  BY <1>1, <1>3, <2>1 DEF TypeOK
  <2>3. input' \in [Runs -> Inputs \union {none}]  BY <1>1, <1>2 DEF TypeOK
  <2>4. \A q \in Runs : pc'[q] = "idle" <=> input'[q] = none
    BY <1>1, <1>2, <1>3, <1>5, <2>1 DEF TypeOK
  <2>5. left' \in [Runs -> Seq(AllFields)]  BY <1>1, <1>2, <1>4 DEF TypeOK
  <2>6. since' \in [Runs -> 0..MaxRotations]  BY <1>1, <1>3 DEF TypeOK
  <2> QED  BY <1>1, <1>3, <2>2, <2>3, <2>4, <2>5, <2>6 DEF TypeOK
<1>7. /\ pc'[r] = "credentials" /\ input'[r] = i /\ left'[r] = NodeOf(i).fields
      /\ since'[r] = rotation /\ got'[r] = {} /\ exchange'[r] = "none"
      /\ wire'[r] = "unsent" /\ effect'[r] = 0 /\ reply'[r] = "none"
  BY <1>1, <1>2, <1>3 DEF TypeOK, RunInv, PlaceInv, EffectInv, ReadInv, GrantInv
<1>8. rotation \in Nat /\ rotation' = rotation
  BY <1>1, <1>3, RotationsAssumption DEF TypeOK
<1>9. Reads({}) = {}  BY DEF Reads
<1>10. PlaceInv(r)' /\ EffectInv(r)' /\ GrantInv(r)'
  BY <1>7 DEF PlaceInv, EffectInv, GrantInv
<1>11. ReadInv(r)'  BY <1>7, <1>8, <1>9 DEF ReadInv
<1> QED  BY <1>6, <1>10, <1>11 DEF RunInv

(* A step that ends a run before its call is sent.                         *)
LEMMA RefusedInv ==
  ASSUME TInv, NEW r \in Runs, wire[r] = "unsent", pc[r] # "idle",
         Finish(r, "refused"),
         UNCHANGED <<store, input, got, left, since, exchange, wire, answer, effect>>
  PROVE  TypeOK' /\ RunInv(r)'
<1>1. TypeOK /\ RunInv(r)  BY DEF TInv
<1>2. pc' = [pc EXCEPT ![r] = "done"] /\ reply' = [reply EXCEPT ![r] = "refused"]
  BY DEF Finish
<1>3. pc'[r] = "done" /\ reply'[r] = "refused"  BY <1>1, <1>2 DEF TypeOK
<1>4. TypeOK'
  <2>1. pc' \in [Runs -> Steps] /\ reply' \in [Runs -> Replies]
    BY <1>1, <1>2 DEF TypeOK, Steps, Replies
  <2>2. \A q \in Runs : pc'[q] = "idle" <=> input'[q] = none
    BY <1>1, <1>2 DEF TypeOK
  <2> QED  BY <1>1, <2>1, <2>2 DEF TypeOK, store
<1>5. PlaceInv(r)'  BY <1>3 DEF PlaceInv
<1>6. EffectInv(r)'  BY <1>1 DEF RunInv, EffectInv
<1>7. ReadInv(r)'  BY <1>1, <1>3 DEF RunInv, ReadInv, store
<1>8. GrantInv(r)'  BY <1>3 DEF GrantInv
<1> QED  BY <1>4, <1>5, <1>6, <1>7, <1>8 DEF RunInv

(* A step that reads one more field.                                       *)
LEMMA ReadOneInv ==
  ASSUME TInv, NEW r \in Runs, NEW f \in AllFields, pc[r] # "idle",
         got' = [got EXCEPT ![r] = @ \union {[field |-> f, at |-> ValueReadAt(f)]}]
  PROVE  /\ got' \in [Runs -> SUBSET [field : AllFields, at : 0..MaxRotations]]
         /\ Reads(got'[r]) = Reads(got[r]) \union {f}
         /\ \A g \in got'[r] : g.at >= since[r]
<1>1. TypeOK /\ RunInv(r)  BY DEF TInv
<1> DEFINE g == [field |-> f, at |-> rotation]
<1>2. got' = [got EXCEPT ![r] = got[r] \union {g}]  BY DEF ValueReadAt
<1>3. g \in [field : AllFields, at : 0..MaxRotations]  BY <1>1 DEF TypeOK
<1>4. got'[r] = got[r] \union {g}  BY <1>1, <1>2 DEF TypeOK
<1>5. got' \in [Runs -> SUBSET [field : AllFields, at : 0..MaxRotations]]
  BY <1>1, <1>2, <1>3 DEF TypeOK
<1>6. Reads(got'[r]) = Reads(got[r]) \union {f}
  <2>1. Reads(got[r] \union {[field |-> f, at |-> rotation]})
          = Reads(got[r]) \union {f}
    BY ReadOneMore
  <2> QED  BY <1>4, <2>1
<1>7. g.at >= since[r]
  <2>1. since[r] \in Nat /\ rotation \in Nat /\ since[r] =< rotation
    BY <1>1, RotationsAssumption DEF TypeOK, RunInv, ReadInv
  <2> QED  BY <2>1
<1>8. \A h \in got[r] : h.at >= since[r]  BY <1>1 DEF RunInv, ReadInv
<1> QED  BY <1>4, <1>5, <1>6, <1>7, <1>8

LEMMA ReadCredentialInv ==
  ASSUME TInv, NEW r \in Runs, ReadCredential(r)
  PROVE  TypeOK' /\ RunInv(r)'
<1>1. TypeOK /\ RunInv(r)  BY DEF TInv
<1> DEFINE f == Head(left[r])
           F == ToSet(NodeOf(input[r]).fields)
<1>2. /\ pc[r] = "credentials" /\ left[r] # <<>>
      /\ UNCHANGED <<store, input, since, exchange, wire, answer, effect>>
  BY DEF ReadCredential
<1>3. /\ wire[r] = "unsent" /\ exchange[r] = "none" /\ reply[r] = "none"
      /\ ToSet(left[r]) \subseteq F /\ Reads(got[r]) \subseteq F
      /\ NodeOf(input[r]).auth # "either" => F \subseteq Reads(got[r]) \union ToSet(left[r])
      /\ effect[r] = 0 /\ since[r] =< rotation
      /\ \A g \in got[r] : g.at >= since[r]
  BY <1>1, <1>2 DEF RunInv, PlaceInv, EffectInv, ReadInv, GrantInv
<1>4. left[r] \in Seq(AllFields)  BY <1>1 DEF TypeOK
<1>5. /\ f \in AllFields /\ Tail(left[r]) \in Seq(AllFields) /\ f \in ToSet(left[r])
      /\ ToSet(Tail(left[r])) \subseteq ToSet(left[r])
      /\ ToSet(left[r]) \subseteq {f} \union ToSet(Tail(left[r]))
  BY <1>2, <1>4, HeadAndTail
<1>6. ASSUME left' = [left EXCEPT ![r] = Tail(@)], UNCHANGED <<pc, reply>>,
             got' \in [Runs -> SUBSET [field : AllFields, at : 0..MaxRotations]],
             \A g \in got'[r] : g.at >= since[r],
             Reads(got'[r]) \subseteq F,
             NodeOf(input[r]).auth # "either" =>
               F \subseteq Reads(got'[r]) \union ToSet(Tail(left[r]))
      PROVE  TypeOK' /\ RunInv(r)'
  <2>1. left' \in [Runs -> Seq(AllFields)] /\ left'[r] = Tail(left[r])
    BY <1>1, <1>5, <1>6 DEF TypeOK
  <2>2. TypeOK'  BY <1>1, <1>2, <1>6, <2>1 DEF TypeOK, store
  <2>3. PlaceInv(r)' /\ EffectInv(r)' /\ GrantInv(r)'
    BY <1>2, <1>3, <1>6 DEF PlaceInv, EffectInv, GrantInv
  <2>4. ReadInv(r)'  BY <1>2, <1>3, <1>5, <1>6, <2>1 DEF ReadInv, store
  <2> QED  BY <2>2, <2>3, <2>4 DEF RunInv
<1>7. CASE /\ got' = [got EXCEPT ![r] = @ \union {[field |-> f, at |-> ValueReadAt(f)]}]
           /\ left' = [left EXCEPT ![r] = Tail(@)] /\ UNCHANGED <<pc, reply>>
  <2>1. /\ got' \in [Runs -> SUBSET [field : AllFields, at : 0..MaxRotations]]
        /\ Reads(got'[r]) = Reads(got[r]) \union {f}
        /\ \A g \in got'[r] : g.at >= since[r]
    BY <1>2, <1>5, <1>7, ReadOneInv
  <2> QED  BY <1>3, <1>5, <1>6, <1>7, <2>1
<1>8. CASE /\ NodeOf(input[r]).auth = "either"
           /\ left' = [left EXCEPT ![r] = Tail(@)] /\ UNCHANGED <<got, pc, reply>>
  <2>1. got' \in [Runs -> SUBSET [field : AllFields, at : 0..MaxRotations]]
    BY <1>1, <1>8 DEF TypeOK
  <2> QED  BY <1>3, <1>6, <1>8, <2>1
<1>9. CASE Finish(r, "refused") /\ UNCHANGED <<got, left>>
  BY <1>2, <1>3, <1>9, RefusedInv
<1> QED  BY <1>7, <1>8, <1>9 DEF ReadCredential

LEMMA SendExchangeInv ==
  ASSUME TInv, NEW r \in Runs, SendExchange(r)
  PROVE  TypeOK' /\ RunInv(r)'
<1>1. TypeOK /\ RunInv(r)  BY DEF TInv
<1>2. /\ pc[r] = "credentials" /\ left[r] = <<>>
      /\ exchange' = [exchange EXCEPT ![r] = "sent"]
      /\ pc' = [pc EXCEPT ![r] = "exchanging"]
      /\ UNCHANGED <<store, input, left, got, since, wire, answer, effect, reply>>
      /\ Exchanging(input[r], Reads(got[r]))
  BY DEF SendExchange
<1>3. NodeOf(input[r]).auth # "static"  BY <1>2 DEF Exchanging
<1>4. pc'[r] = "exchanging" /\ exchange'[r] = "sent"  BY <1>1, <1>2 DEF TypeOK
<1>5. TypeOK'
  <2>1. pc' \in [Runs -> Steps] /\ exchange' \in [Runs -> Exchanges]
    BY <1>1, <1>2 DEF TypeOK, Steps, Exchanges
  <2>2. \A q \in Runs : pc'[q] = "idle" <=> input'[q] = none
    BY <1>1, <1>2 DEF TypeOK
  <2> QED  BY <1>1, <1>2, <2>1, <2>2 DEF TypeOK, store
<1>6. PlaceInv(r)' /\ EffectInv(r)' /\ GrantInv(r)'
  BY <1>1, <1>2, <1>3, <1>4 DEF RunInv, PlaceInv, EffectInv, GrantInv
<1>7. ReadInv(r)'  BY <1>1, <1>2, <1>4, EmptySet DEF RunInv, ReadInv, store
<1> QED  BY <1>5, <1>6, <1>7 DEF RunInv

(* A step that has the credential it goes on with.                         *)
LEMMA ProceedInv ==
  ASSUME TInv, NEW r \in Runs, pc[r] \in {"credentials", "exchanging"},
         pc' = [pc EXCEPT ![r] = "validate"],
         UNCHANGED <<store, input, left, since, wire, answer, effect, reply>>,
         got' \in [Runs -> SUBSET [field : AllFields, at : 0..MaxRotations]],
         \A g \in got'[r] : g.at >= since[r],
         NodeOf(input[r]).auth # "either" =>
           ToSet(NodeOf(input[r]).fields) \subseteq Reads(got'[r]),
         exchange' \in [Runs -> Exchanges],
         Granted(r)'
  PROVE  TypeOK' /\ RunInv(r)'
<1>1. TypeOK /\ RunInv(r)  BY DEF TInv
<1>2. pc'[r] = "validate"  BY <1>1 DEF TypeOK
<1>3. TypeOK'
  <2>1. pc' \in [Runs -> Steps]  BY <1>1 DEF TypeOK, Steps
  <2>2. \A q \in Runs : pc'[q] = "idle" <=> input'[q] = none
    BY <1>1 DEF TypeOK
  <2> QED  BY <1>1, <2>1, <2>2 DEF TypeOK, store
<1>4. PlaceInv(r)' /\ EffectInv(r)'
  BY <1>1, <1>2 DEF RunInv, PlaceInv, EffectInv
<1>5. ReadInv(r)'  BY <1>1, <1>2 DEF RunInv, ReadInv, store
<1>6. GrantInv(r)'  BY <1>2 DEF GrantInv
<1> QED  BY <1>3, <1>4, <1>5, <1>6 DEF RunInv

LEMMA UseStaticInv ==
  ASSUME TInv, NEW r \in Runs, UseStatic(r)
  PROVE  TypeOK' /\ RunInv(r)'
<1>1. TypeOK /\ RunInv(r)  BY DEF TInv
<1>2. /\ pc[r] = "credentials" /\ left[r] = <<>> /\ NodeOf(input[r]).auth = "static"
      /\ pc' = [pc EXCEPT ![r] = "validate"]
      /\ UNCHANGED <<store, input, left, got, since, exchange, wire, answer, effect, reply>>
  BY DEF UseStatic
<1>3. ToSet(NodeOf(input[r]).fields) \subseteq Reads(got[r])
  BY <1>1, <1>2, EmptySet DEF RunInv, ReadInv
<1>4. Granted(r)'
  BY <1>1, <1>2 DEF RunInv, GrantInv, Granted
<1>5. got' \in [Runs -> SUBSET [field : AllFields, at : 0..MaxRotations]]
      /\ exchange' \in [Runs -> Exchanges]
  BY <1>1, <1>2 DEF TypeOK
<1>6. \A g \in got'[r] : g.at >= since[r]  BY <1>1, <1>2 DEF RunInv, ReadInv
<1> QED  BY <1>2, <1>3, <1>4, <1>5, <1>6, ProceedInv

LEMMA FallBackInv ==
  ASSUME TInv, NEW r \in Runs, FallBack(r)
  PROVE  TypeOK' /\ RunInv(r)'
<1>1. TypeOK /\ RunInv(r)  BY DEF TInv
<1>2. /\ pc[r] = "credentials" /\ NodeOf(input[r]).auth = "either"
      /\ UNCHANGED <<store, input, left, since, exchange, wire, answer, effect>>
  BY DEF FallBack
<1>3. "access_token" \in AllFields  BY <1>1, <1>2, InputTypes
<1>4. wire[r] = "unsent" /\ exchange[r] = "none"
  BY <1>1, <1>2 DEF RunInv, PlaceInv, GrantInv
<1>5. CASE /\ got' = [got EXCEPT ![r] = @ \union {[field |-> "access_token",
                                                  at |-> ValueReadAt("access_token")]}]
           /\ pc' = [pc EXCEPT ![r] = "validate"] /\ UNCHANGED reply
  <2>1. /\ got' \in [Runs -> SUBSET [field : AllFields, at : 0..MaxRotations]]
        /\ Reads(got'[r]) = Reads(got[r]) \union {"access_token"}
        /\ \A g \in got'[r] : g.at >= since[r]
    BY <1>2, <1>3, <1>5, ReadOneInv
  <2>2. Granted(r)'  BY <1>2, <1>4, <2>1 DEF Granted
  <2>3. exchange' \in [Runs -> Exchanges]  BY <1>1, <1>2 DEF TypeOK
  <2> QED  BY <1>2, <1>5, <2>1, <2>2, <2>3, ProceedInv
<1>6. CASE Finish(r, "refused") /\ UNCHANGED got
  BY <1>2, <1>4, <1>6, RefusedInv
<1> QED  BY <1>5, <1>6 DEF FallBack

LEMMA ExchangeAnsweredInv ==
  ASSUME TInv, NEW r \in Runs, ExchangeAnswered(r)
  PROVE  TypeOK' /\ RunInv(r)'
<1>1. TypeOK /\ RunInv(r)  BY DEF TInv
<1>2. /\ pc[r] = "exchanging"
      /\ UNCHANGED <<store, input, left, got, since, wire, answer, effect>>
  BY DEF ExchangeAnswered
<1>3. /\ wire[r] = "unsent" /\ NodeOf(input[r]).auth # "static"
      /\ Reads(got[r]) \subseteq ToSet(NodeOf(input[r]).fields)
      /\ NodeOf(input[r]).auth # "either" =>
           ToSet(NodeOf(input[r]).fields) \subseteq Reads(got[r])
      /\ \A g \in got[r] : g.at >= since[r]
  BY <1>1, <1>2 DEF RunInv, PlaceInv, ReadInv, GrantInv
<1>4. CASE /\ exchange' = [exchange EXCEPT ![r] = "granted"]
           /\ pc' = [pc EXCEPT ![r] = "validate"] /\ UNCHANGED reply
  <2>1. exchange' \in [Runs -> Exchanges] /\ exchange'[r] = "granted"
    BY <1>1, <1>4 DEF TypeOK, Exchanges
  <2>2. NodeOf(input[r]).auth = "either" => "access_token" \notin Reads(got[r])
    BY <1>1, <1>2, <1>3, InputTypes
  <2>3. NodeOf(input[r]).auth \in {"static", "refresh", "either"}
    BY <1>1, <1>2, InputTypes
  <2>4. Granted(r)'  BY <1>2, <1>3, <2>1, <2>2, <2>3 DEF Granted
  <2>5. got' \in [Runs -> SUBSET [field : AllFields, at : 0..MaxRotations]]
    BY <1>1, <1>2 DEF TypeOK
  <2> QED  BY <1>2, <1>3, <1>4, <2>1, <2>4, <2>5, ProceedInv
<1>5. CASE Finish(r, "refused") /\ UNCHANGED exchange
  BY <1>2, <1>3, <1>5, RefusedInv
<1> QED  BY <1>4, <1>5 DEF ExchangeAnswered

(* An exchange that is not answered, or an input that cannot be sent, ends *)
(* the run with nothing sent.                                              *)
LEMMA EndedInv ==
  ASSUME TInv, NEW r \in Runs, ExchangeTimesOut(r) \/ RefuseInput(r)
  PROVE  TypeOK' /\ RunInv(r)'
<1>1. /\ pc[r] \in {"exchanging", "validate"} /\ Finish(r, "refused")
      /\ UNCHANGED <<store, input, left, got, since, exchange, wire, answer, effect>>
  BY DEF ExchangeTimesOut, RefuseInput
<1>2. wire[r] = "unsent"  BY <1>1 DEF TInv, RunInv, PlaceInv
<1> QED  BY <1>1, <1>2, RefusedInv

LEMMA SendCallInv ==
  ASSUME TInv, NEW r \in Runs, SendCall(r)
  PROVE  TypeOK' /\ RunInv(r)'
<1>1. TypeOK /\ RunInv(r)  BY DEF TInv
<1>2. /\ pc[r] = "validate" /\ pc' = [pc EXCEPT ![r] = "calling"]
      /\ wire' = [wire EXCEPT ![r] = "sent"]
      /\ UNCHANGED <<store, input, left, got, since, exchange, answer, effect, reply>>
  BY DEF SendCall
<1>3. pc'[r] = "calling" /\ wire'[r] = "sent"  BY <1>1, <1>2 DEF TypeOK
<1>4. TypeOK'
  <2>1. pc' \in [Runs -> Steps] /\ wire' \in [Runs -> Wires]
    BY <1>1, <1>2 DEF TypeOK, Steps, Wires
  <2>2. \A q \in Runs : pc'[q] = "idle" <=> input'[q] = none
    BY <1>1, <1>2 DEF TypeOK
  <2> QED  BY <1>1, <1>2, <2>1, <2>2 DEF TypeOK, store
<1>5. PlaceInv(r)' /\ EffectInv(r)'
  BY <1>1, <1>2, <1>3 DEF RunInv, PlaceInv, EffectInv
<1>6. ReadInv(r)'  BY <1>1, <1>2, <1>3 DEF RunInv, ReadInv, store
<1>7. GrantInv(r)'  BY <1>1, <1>2, <1>3 DEF RunInv, GrantInv, Granted
<1> QED  BY <1>4, <1>5, <1>6, <1>7 DEF RunInv

(* The answer that was received, or the deadline, ends the run.            *)
LEMMA RepliedInv ==
  ASSUME TInv, NEW r \in Runs, Receive(r) \/ GiveUp(r)
  PROVE  TypeOK' /\ RunInv(r)'
<1>1. TypeOK /\ RunInv(r)  BY DEF TInv
<1>2. /\ pc[r] = "calling"
      /\ UNCHANGED <<store, input, left, got, since, exchange, wire, answer, effect>>
  BY DEF Receive, GiveUp
<1>3. PICK v \in {"ok", "error"} :
        /\ Finish(r, v)
        /\ v = "ok" => wire[r] = "answered" /\ answer[r].status \in 200..299
  <2>1. CASE Receive(r)
    <3>1. NodeOf(input[r]).transport.succeeds \subseteq 200..299
      BY <1>1, <1>2, InputTypes
    <3>2. Verdict(input[r], answer[r]) = "ok" => answer[r].status \in 200..299
      BY <3>1 DEF Verdict
    <3>3. Verdict(input[r], answer[r]) \in {"ok", "error"}  BY DEF Verdict
    <3> QED  BY <2>1, <3>2, <3>3 DEF Receive
  <2>2. CASE GiveUp(r)  BY <2>2 DEF GiveUp
  <2> QED  BY <2>1, <2>2
<1>4. pc' = [pc EXCEPT ![r] = "done"] /\ reply' = [reply EXCEPT ![r] = v]
  BY <1>3 DEF Finish
<1>5. pc'[r] = "done" /\ reply'[r] = v  BY <1>1, <1>4 DEF TypeOK
<1>6. TypeOK'
  <2>1. pc' \in [Runs -> Steps] /\ reply' \in [Runs -> Replies]
    BY <1>1, <1>4 DEF TypeOK, Steps, Replies
  <2>2. \A q \in Runs : pc'[q] = "idle" <=> input'[q] = none
    BY <1>1, <1>2, <1>4 DEF TypeOK
  <2> QED  BY <1>1, <1>2, <2>1, <2>2 DEF TypeOK, store
<1>7. PlaceInv(r)'  BY <1>2, <1>3, <1>5 DEF PlaceInv
<1>8. EffectInv(r)'  BY <1>1, <1>2 DEF RunInv, EffectInv
<1>9. ReadInv(r)'  BY <1>1, <1>2, <1>5 DEF RunInv, ReadInv, PlaceInv, store
<1>10. GrantInv(r)'  BY <1>1, <1>2, <1>5 DEF RunInv, GrantInv, Granted
<1> QED  BY <1>6, <1>7, <1>8, <1>9, <1>10 DEF RunInv

-----------------------------------------------------------------------------
(* The steps of the service.                                               *)

LEMMA AnsweredInv ==
  ASSUME TInv, NEW r \in Runs, wire[r] = "sent",
         wire' = [wire EXCEPT ![r] = "answered"],
         NEW a \in Answers, answer' = [answer EXCEPT ![r] = a],
         NEW e \in 0..1, effect' = [effect EXCEPT ![r] = e],
         e = 1 => CallOf(input[r]).writes,
         a.status \in 200..299 /\ CallOf(input[r]).writes => e = 1,
         UNCHANGED <<store, pc, input, left, got, since, exchange, reply>>
  PROVE  TypeOK' /\ RunInv(r)'
<1>1. TypeOK /\ RunInv(r)  BY DEF TInv
<1>2. wire'[r] = "answered" /\ answer'[r] = a /\ effect'[r] = e
  BY <1>1 DEF TypeOK
<1>3. TypeOK'
  <2>1. wire' \in [Runs -> Wires]  BY <1>1 DEF TypeOK, Wires
  <2>2. answer' \in [Runs -> Answers \union {NoAnswer}]  BY <1>1 DEF TypeOK
  <2>3. effect' \in [Runs -> 0..1]  BY <1>1 DEF TypeOK
  <2> QED  BY <1>1, <2>1, <2>2, <2>3 DEF TypeOK, store
<1>4. PlaceInv(r)'  BY <1>1, <1>2 DEF RunInv, PlaceInv
<1>5. EffectInv(r)'  BY <1>2 DEF EffectInv
<1>6. ReadInv(r)'  BY <1>1, <1>2 DEF RunInv, ReadInv, store
<1>7. GrantInv(r)'  BY <1>1, <1>2 DEF RunInv, GrantInv, Granted
<1> QED  BY <1>3, <1>4, <1>5, <1>6, <1>7 DEF RunInv

LEMMA CarryOutInv ==
  ASSUME TInv, NEW r \in Runs, CarryOut(r)
  PROVE  TypeOK' /\ RunInv(r)'
<1>1. TypeOK /\ RunInv(r)  BY DEF TInv
<1>2. wire[r] = "sent" /\ effect[r] = 0 /\ pc[r] # "idle"
  BY <1>1 DEF CarryOut, RunInv, PlaceInv, EffectInv
<1>3. PICK status \in Statuses, body \in Bodies :
        answer' = [answer EXCEPT ![r] = [status |-> status, body |-> body]]
  BY DEF CarryOut
<1>4. CallOf(input[r]).writes \in BOOLEAN  BY <1>1, <1>2, InputTypes
<1> DEFINE e == IF CallOf(input[r]).writes THEN 1 ELSE 0
           a == [status |-> status, body |-> body]
<1>5. effect' = [effect EXCEPT ![r] = e]
  <2>1. effect' = [effect EXCEPT ![r] = IF CallOf(input[r]).writes
                                          THEN effect[r] + 1 ELSE effect[r]]
    BY DEF CarryOut
  <2>2. (IF CallOf(input[r]).writes THEN effect[r] + 1 ELSE effect[r]) = e
    BY <1>2
  <2> QED  BY <2>1, <2>2
<1>6. /\ e \in 0..1 /\ (e = 1 => CallOf(input[r]).writes)
      /\ (CallOf(input[r]).writes => e = 1)
  BY <1>4
<1>7. a \in Answers  BY DEF Answers
<1>8. /\ wire' = [wire EXCEPT ![r] = "answered"]
      /\ UNCHANGED <<store, pc, input, left, got, since, exchange, reply>>
  BY DEF CarryOut
<1> HIDE DEF e, a
<1>9. answer' = [answer EXCEPT ![r] = a]  BY <1>3 DEF a
<1> QED  BY <1>2, <1>5, <1>6, <1>7, <1>8, <1>9, AnsweredInv

LEMMA TurnAwayInv ==
  ASSUME TInv, NEW r \in Runs, TurnAway(r)
  PROVE  TypeOK' /\ RunInv(r)'
<1>1. TypeOK /\ RunInv(r)  BY DEF TInv
<1>2. wire[r] = "sent" /\ effect[r] = 0
  BY <1>1 DEF TurnAway, RunInv, PlaceInv, EffectInv
<1>3. PICK status \in Statuses \ 200..299, body \in Bodies :
        answer' = [answer EXCEPT ![r] = [status |-> status, body |-> body]]
  BY DEF TurnAway
<1> DEFINE a == [status |-> status, body |-> body]
<1>4. a \in Answers /\ a.status \notin 200..299  BY DEF Answers
<1>5. effect' = [effect EXCEPT ![r] = 0]
  BY <1>1, <1>2 DEF TurnAway, TypeOK
<1>6. /\ wire' = [wire EXCEPT ![r] = "answered"]
      /\ UNCHANGED <<store, pc, input, left, got, since, exchange, reply>>
  BY DEF TurnAway
<1> HIDE DEF a
<1>7. answer' = [answer EXCEPT ![r] = a]  BY <1>3 DEF a
<1>8. 0 \in 0..1 /\ 0 # 1  OBVIOUS
<1> QED  BY <1>2, <1>4, <1>5, <1>6, <1>7, <1>8, AnsweredInv

-----------------------------------------------------------------------------
(* The operator's steps: no run is touched.                                *)

LEMMA OperatorInv ==
  ASSUME TInv, Provision \/ Rotate \/ UNCHANGED vars
  PROVE  TInv'
<1>1. TypeOK  BY DEF TInv
<1>2. UNCHANGED <<pc, input, left, got, since, exchange, wire, answer, effect, reply>>
  BY DEF Provision, Rotate, vars
<1>3. rotation \in Nat /\ rotation' \in 0..MaxRotations /\ rotation =< rotation'
  <2>1. rotation \in 0..MaxRotations /\ MaxRotations \in Nat
    BY <1>1, RotationsAssumption DEF TypeOK
  <2> QED  BY <2>1 DEF Provision, Rotate, vars
<1>4. provisioned' \subseteq AllFields
  <2>1. CASE Provision
    <3>1. PICK r \in Runs : /\ pc[r] = "credentials"
                           /\ \E f \in Secrets(input[r]) \ Reads(got[r]) :
                                provisioned' = IF f \in provisioned
                                                 THEN provisioned \ {f}
                                                 ELSE provisioned \union {f}
      BY <2>1 DEF Provision
    <3>2. input[r] \in Inputs  BY <1>1, <3>1, InputTypes
    <3>3. Secrets(input[r]) \subseteq AllFields  BY <3>2 DEF Secrets, AllFields
    <3> QED  BY <1>1, <3>1, <3>3 DEF TypeOK
  <2>2. CASE UNCHANGED provisioned  BY <1>1, <2>2 DEF TypeOK
  <2> QED  BY <2>1, <2>2 DEF Rotate, vars
<1>5. TypeOK'  BY <1>1, <1>2, <1>3, <1>4 DEF TypeOK
<1>6. ASSUME NEW q \in Runs PROVE RunInv(q)'
  <2>1. RunInv(q) /\ Same(q)  BY <1>2 DEF TInv, Same
  <2>2. rotation' \in Nat  BY <1>3, RotationsAssumption
  <2> QED  BY <1>1, <1>3, <2>1, <2>2, Frame
<1> QED  BY <1>5, <1>6 DEF TInv

LEMMA NextInv == TInv /\ [Next]_vars => TInv'
<1> SUFFICES ASSUME TInv, [Next]_vars PROVE TInv'
  OBVIOUS
<1>1. ASSUME NEW r \in Runs, Begin(r) \/ Step(r) \/ CarryOut(r) \/ TurnAway(r)
      PROVE  TInv'
  <2>1. TypeOK' /\ RunInv(r)'
    BY <1>1, BeginInv, ReadCredentialInv, SendExchangeInv, UseStaticInv,
       FallBackInv, ExchangeAnsweredInv, EndedInv, SendCallInv, RepliedInv,
       CarryOutInv, TurnAwayInv DEF Step
  <2>2. \A q \in Runs : q # r => RunInv(q)'  BY <1>1, OtherRuns
  <2> QED  BY <2>1, <2>2 DEF TInv
<1>2. CASE Provision \/ Rotate \/ UNCHANGED vars  BY <1>2, OperatorInv
<1> QED  BY <1>1, <1>2 DEF Next

(* Every reachable state satisfies the invariant.                          *)
THEOREM TInvHolds == Spec => []TInv
BY InitInv, NextInv, PTL DEF Spec

(* Every reachable state is typed; in particular no run makes its change   *)
(* twice.                                                                  *)
THEOREM ToolCallTypeCorrect == Spec => []TypeOK
<1>1. TInv => TypeOK  BY DEF TInv
<1> QED  BY <1>1, TInvHolds, PTL

(* A rotated secret is never used by a run that begins after the rotation, *)
(* and no call leaves before every credential of its crate was read.       *)
THEOREM SecretsReadByTheRun == Spec => []SecretsAreReadByTheRun
<1>1. TInv => SecretsAreReadByTheRun
  BY DEF TInv, RunInv, ReadInv, SecretsAreReadByTheRun
<1> QED  BY <1>1, TInvHolds, PTL

(* A refused or unanswered OAuth grant is never papered over with the      *)
(* stored access token (component-hubspot/src/ops.rs).                     *)
THEOREM GrantEndsTheRun == Spec => []RefusedGrantEndsTheRun
<1>1. TInv => RefusedGrantEndsTheRun
  <2> SUFFICES ASSUME TInv, NEW r \in Runs, wire[r] # "unsent" PROVE Granted(r)
    BY DEF RefusedGrantEndsTheRun, Granted
  <2> QED  BY DEF TInv, RunInv, GrantInv
<1> QED  BY <1>1, TInvHolds, PTL

-----------------------------------------------------------------------------
(* The runs implement OneShotWrite.                                        *)

LEMMA PhaseOf ==
  ASSUME NEW r
  PROVE  /\ pc[r] = "idle" => Phase(r) = "idle"
         /\ pc[r] = "done" => Phase(r) = "answered"
         /\ pc[r] \notin {"idle", "done"} => Phase(r) = "running"
BY DEF Phase

LEMMA RefinesInit == Init => OneShot!AbsInit
<1> SUFFICES ASSUME Init PROVE OneShot!AbsInit  OBVIOUS
<1>1. [r \in Runs |-> Phase(r)] = [r \in Runs |-> "idle"]
  BY PhaseOf DEF Init
<1>2. [r \in Runs |-> OnlyReads(r)] \in [Runs -> BOOLEAN]  BY DEF OnlyReads
<1>3. [r \in Runs |-> pc[r] # "idle"] = [r \in Runs |-> FALSE]  BY DEF Init
<1>4. Changed = {}  BY DEF Init, Changed
<1>5. reply = [r \in Runs |-> "none"]  BY DEF Init
<1> QED  BY <1>1, <1>2, <1>3, <1>4, <1>5 DEF OneShot!AbsInit

(* A step of a run under way that changes nothing and answers nothing is   *)
(* invisible to the abstract specification.                                *)
LEMMA InvisibleSteps ==
  ASSUME UNCHANGED <<input, effect, reply>>,
         \A r \in Runs : \/ pc'[r] = pc[r]
                         \/ {pc[r], pc'[r]} \cap {"idle", "done"} = {}
  PROVE  UNCHANGED OneShot!absVars
<1>1. \A r \in Runs : Phase(r)' = Phase(r)  BY DEF Phase
<1>2. \A r \in Runs : OnlyReads(r)' = OnlyReads(r)  BY DEF OnlyReads
<1>3. [r \in Runs |-> Phase(r)]' = [r \in Runs |-> Phase(r)]  BY <1>1
<1>4. [r \in Runs |-> OnlyReads(r)]' = [r \in Runs |-> OnlyReads(r)]  BY <1>2
<1>5. [r \in Runs |-> pc[r] # "idle"]' = [r \in Runs |-> pc[r] # "idle"]
  OBVIOUS
<1>6. Changed' = Changed  BY DEF Changed
<1> QED  BY <1>3, <1>4, <1>5, <1>6 DEF OneShot!absVars

LEMMA RefinesBegin ==
  ASSUME TInv, NEW p \in Runs, Begin(p)
  PROVE  OneShot!Begin(p)
<1>1. TypeOK  BY DEF TInv
<1>2. PICK i \in Inputs : input' = [input EXCEPT ![p] = i]
  BY ConcurrentAssumption DEF Begin
<1>3. /\ pc[p] = "idle" /\ pc' = [pc EXCEPT ![p] = "credentials"]
      /\ UNCHANGED <<effect, reply>>
  BY DEF Begin
<1>4. \A r \in Runs : pc'[r] = IF r = p THEN "credentials" ELSE pc[r]
  BY <1>1, <1>3 DEF TypeOK
<1>5. \A r \in Runs : input'[r] = IF r = p THEN i ELSE input[r]
  BY <1>1, <1>2 DEF TypeOK
<1>6. [r \in Runs |-> Phase(r)]'
        = [[r \in Runs |-> Phase(r)] EXCEPT ![p] = "running"]
  BY <1>4 DEF Phase
<1>7. [r \in Runs |-> pc[r] # "idle"]'
        = [[r \in Runs |-> pc[r] # "idle"] EXCEPT ![p] = TRUE]
  BY <1>4
<1>8. \E b \in BOOLEAN :
        [r \in Runs |-> OnlyReads(r)]'
          = [[r \in Runs |-> OnlyReads(r)] EXCEPT ![p] = b]
  <2>1. OnlyReads(p)' \in BOOLEAN  BY DEF OnlyReads
  <2>2. \A r \in Runs : r # p => OnlyReads(r)' = OnlyReads(r)
    BY <1>4, <1>5 DEF OnlyReads
  <2>3. [r \in Runs |-> OnlyReads(r)]'
          = [[r \in Runs |-> OnlyReads(r)] EXCEPT ![p] = OnlyReads(p)']
    BY <2>2
  <2> QED  BY <2>1, <2>3
<1>9. Changed' = Changed  BY <1>3 DEF Changed
<1>10. [r \in Runs |-> Phase(r)][p] = "idle"  BY <1>3, PhaseOf
<1> QED  BY <1>3, <1>6, <1>7, <1>8, <1>9, <1>10 DEF OneShot!Begin

(* The answer of the run: "ok" after the change was made and confirmed, or *)
(* for a tool that reads; "refused" with nothing sent.                     *)
LEMMA RefinesAnswer ==
  ASSUME TInv, TInv', NEW p \in Runs, NEW v \in {"ok", "refused", "error"},
         pc[p] \notin {"idle", "done"}, Finish(p, v),
         UNCHANGED <<input, wire, answer, effect>>
  PROVE  OneShot!Answer(p, v)
<1>1. /\ \A r \in Runs : pc'[r] = IF r = p THEN "done" ELSE pc[r]
      /\ reply' = [reply EXCEPT ![p] = v] /\ reply'[p] = v
  BY DEF Finish, TInv, TypeOK
<1>2. RunInv(p)'  BY DEF TInv
<1>3. v = "ok" => (p \in Changed <=> ~OnlyReads(p))
  <2> SUFFICES ASSUME v = "ok" PROVE effect[p] = 1 <=> CallOf(input[p]).writes
    BY DEF Changed, OnlyReads
  <2>1. wire[p] = "answered" /\ answer[p].status \in 200..299
    BY <1>1, <1>2 DEF RunInv, PlaceInv
  <2> QED  BY <1>2, <2>1 DEF RunInv, EffectInv
<1>4. v = "refused" => p \notin Changed
  BY <1>1, <1>2 DEF RunInv, PlaceInv, EffectInv, Changed
<1>5. [r \in Runs |-> Phase(r)]'
        = [[r \in Runs |-> Phase(r)] EXCEPT ![p] = "answered"]
  BY <1>1 DEF Phase
<1>6. [r \in Runs |-> pc[r] # "idle"]' = [r \in Runs |-> pc[r] # "idle"]
  BY <1>1
<1>7. [r \in Runs |-> OnlyReads(r)]' = [r \in Runs |-> OnlyReads(r)]
  BY <1>1 DEF OnlyReads
<1>8. Changed' = Changed  BY DEF Changed
<1>9. [r \in Runs |-> Phase(r)][p] = "running" /\ pc[p] # "idle"
  BY PhaseOf
<1> QED  BY <1>1, <1>3, <1>4, <1>5, <1>6, <1>7, <1>8, <1>9 DEF OneShot!Answer

(* What the service carries out is the one effect of a run that writes,    *)
(* also of one that has given up waiting; of one that reads it is unseen.  *)
LEMMA RefinesCarryOut ==
  ASSUME TInv, NEW p \in Runs, CarryOut(p)
  PROVE  [OneShot!AbsNext]_(OneShot!absVars)
<1>1. TypeOK /\ RunInv(p)  BY DEF TInv
<1>2. /\ wire[p] = "sent" /\ UNCHANGED <<pc, input, reply>>
      /\ effect' = [effect EXCEPT ![p] = IF CallOf(input[p]).writes
                                           THEN effect[p] + 1 ELSE effect[p]]
  BY DEF CarryOut
<1>3. /\ pc[p] # "idle" /\ effect[p] = 0 /\ reply[p] \notin {"ok", "refused"}
  BY <1>1, <1>2 DEF RunInv, PlaceInv, EffectInv
<1>4. CASE CallOf(input[p]).writes
  <2>1. \A r \in Runs : effect'[r] = IF r = p THEN 1 ELSE effect[r]
    BY <1>1, <1>2, <1>3, <1>4 DEF TypeOK
  <2>2. Changed' = Changed \union {p} /\ p \notin Changed
    BY <1>3, <2>1 DEF Changed
  <2>3. reply[p] \in {"none", "error"}  BY <1>1, <1>3 DEF TypeOK, Replies
  <2>4. [r \in Runs |-> Phase(r)]' = [r \in Runs |-> Phase(r)]
    BY <1>2 DEF Phase
  <2>5. [r \in Runs |-> OnlyReads(r)]' = [r \in Runs |-> OnlyReads(r)]
    BY <1>2 DEF OnlyReads
  <2>6. Phase(p) # "idle" /\ ~OnlyReads(p)
    BY <1>3, <1>4, PhaseOf DEF OnlyReads
  <2>7. OneShot!Effect(p)
    BY <1>2, <1>3, <2>2, <2>3, <2>4, <2>5, <2>6 DEF OneShot!Effect
  <2> QED  BY <2>7 DEF OneShot!AbsNext
<1>5. CASE ~CallOf(input[p]).writes
  <2>1. effect' = effect  BY <1>1, <1>2, <1>5 DEF TypeOK
  <2> QED  BY <1>2, <2>1, InvisibleSteps
<1> QED  BY <1>4, <1>5

(* A step of a run under way answers the flow, or goes on unseen.          *)
LEMMA RefinesStep ==
  ASSUME TInv, TInv', NEW p \in Runs, Step(p)
  PROVE  [OneShot!AbsNext]_(OneShot!absVars)
<1>1. /\ pc[p] \notin {"idle", "done"} /\ UNCHANGED <<input, effect, answer>>
      /\ \/ \E v \in {"ok", "refused", "error"} : Finish(p, v) /\ UNCHANGED wire
         \/ /\ \E c \in Steps \ {"idle", "done"} : pc' = [pc EXCEPT ![p] = c]
            /\ UNCHANGED reply
         \/ UNCHANGED <<pc, reply>>
  <2>1. CASE ReadCredential(p)  BY <2>1 DEF ReadCredential
  <2>2. CASE SendExchange(p) \/ UseStatic(p) \/ SendCall(p)
    BY <2>2 DEF SendExchange, UseStatic, SendCall, Steps
  <2>3. CASE FallBack(p)  BY <2>3 DEF FallBack, Steps
  <2>4. CASE ExchangeAnswered(p)  BY <2>4 DEF ExchangeAnswered, Steps
  <2>5. CASE ExchangeTimesOut(p) \/ RefuseInput(p) \/ GiveUp(p)
    BY <2>5 DEF ExchangeTimesOut, RefuseInput, GiveUp
  <2>6. CASE Receive(p)
    <3>1. Verdict(input[p], answer[p]) \in {"ok", "error"}  BY DEF Verdict
    <3> QED  BY <2>6, <3>1 DEF Receive
  <2> QED  BY <2>1, <2>2, <2>3, <2>4, <2>5, <2>6 DEF Step
<1>2. ASSUME NEW v \in {"ok", "refused", "error"}, Finish(p, v), UNCHANGED wire
      PROVE  OneShot!AbsNext
  <2>1. OneShot!Answer(p, v)  BY <1>1, <1>2, RefinesAnswer
  <2>2. v \in OneShot!Verdicts \ {"none"}  BY DEF OneShot!Verdicts
  <2> QED  BY <2>1, <2>2 DEF OneShot!AbsNext
<1>3. ASSUME NEW c \in Steps \ {"idle", "done"}, pc' = [pc EXCEPT ![p] = c],
             UNCHANGED reply
      PROVE  UNCHANGED OneShot!absVars
  <2>1. pc \in [Runs -> Steps]  BY DEF TInv, TypeOK
  <2>2. \A r \in Runs : \/ pc'[r] = pc[r]
                        \/ {pc[r], pc'[r]} \cap {"idle", "done"} = {}
    BY <1>1, <1>3, <2>1
  <2> QED  BY <1>1, <1>3, <2>2, InvisibleSteps
<1>4. ASSUME UNCHANGED <<pc, reply>> PROVE UNCHANGED OneShot!absVars
  BY <1>1, <1>4, InvisibleSteps
<1> QED  BY <1>1, <1>2, <1>3, <1>4

LEMMA RefinesNext ==
  TInv /\ TInv' /\ [Next]_vars => [OneShot!AbsNext]_(OneShot!absVars)
<1> SUFFICES ASSUME TInv, TInv', [Next]_vars
             PROVE  [OneShot!AbsNext]_(OneShot!absVars)
  OBVIOUS
<1>1. ASSUME NEW p \in Runs, Begin(p) PROVE OneShot!AbsNext
  BY <1>1, RefinesBegin DEF OneShot!AbsNext
<1>2. ASSUME NEW p \in Runs, Step(p) PROVE [OneShot!AbsNext]_(OneShot!absVars)
  BY <1>2, RefinesStep
<1>3. ASSUME NEW p \in Runs, CarryOut(p)
      PROVE  [OneShot!AbsNext]_(OneShot!absVars)
  BY <1>3, RefinesCarryOut
<1>4. ASSUME UNCHANGED <<pc, input, reply, effect>>
      PROVE  UNCHANGED OneShot!absVars
  BY <1>4, InvisibleSteps
<1>5. ASSUME NEW p \in Runs, TurnAway(p)
      PROVE  UNCHANGED <<pc, input, reply, effect>>
  BY <1>5 DEF TurnAway
<1>6. ASSUME Provision \/ Rotate \/ UNCHANGED vars
      PROVE  UNCHANGED <<pc, input, reply, effect>>
  BY <1>6 DEF Provision, Rotate, vars
<1> QED  BY <1>1, <1>2, <1>3, <1>4, <1>5, <1>6 DEF Next

(* The runs of every crate implement the one-shot write, for every table   *)
(* of tools: through the reading of credentials, the exchange, a lost or   *)
(* late answer, a flow sees one change at most, none from a tool that      *)
(* reads, and none after an "ok" or a "refused".                           *)
THEOREM ToolCallImplementsOneShot == Spec => KeepsOneShotPromise
<1>1. Init => OneShot!AbsInit  BY RefinesInit
<1>2. TInv /\ TInv' /\ [Next]_vars => [OneShot!AbsNext]_(OneShot!absVars)
  BY RefinesNext
<1> QED
  BY <1>1, <1>2, TInvHolds, PTL DEF Spec, KeepsOneShotPromise, OneShot!AbsSpec

-----------------------------------------------------------------------------
(* The tables of the twelve crates.  Their rows are made of the words of   *)
(* ToolTable, so what holds of a word holds of every row it makes, and the *)
(* tables are compared with their metadata word by word.                   *)

Jira     == INSTANCE JiraTools
Trello   == INSTANCE TrelloTools
Stripe   == INSTANCE StripeTools
Clickup  == INSTANCE ClickupTools
Hubspot  == INSTANCE HubspotTools
Calendar == INSTANCE CalendarTools
Service  == INSTANCE ServiceTools

Crates ==
  {Jira!Node, Trello!Node, Stripe!Node, Clickup!Node, Hubspot!Node,
   Calendar!CalendlyNode, Calendar!GcalNode, Service!NotionNode,
   Service!TavilyNode, Service!FirecrawlNode, Service!ResendNode, Service!TwilioNode}

(* Every input asks for an operation of one of the crates.                 *)
InputsAreOfTheCrates ==
  \A i \in Inputs :
    /\ NodeOf(i) \in Crates
    /\ i.tool \in DOMAIN NodeOf(i).tools
    /\ i.op \in DOMAIN NodeOf(i).tools[i.tool]

(* A change that is confirmed by an empty body is not taken for garbled.   *)
Confirms(call) ==
  call.writes /\ call.empty => call.body \in {"any", "json_or_empty"}

(* The metadata asks for what the handler insists on, or for more of a     *)
(* call that changes nothing and insists on nothing.                       *)
Tells(call, asked) ==
  \/ call.needs = asked
  \/ ~ call.writes /\ call.needs = Needs({})

(* Every confirmation of a tool is understood, and what its metadata says  *)
(* of an operation is so; some operations are refused whatever it says.    *)
Acknowledges(tool) == \A o \in DOMAIN tool : Confirms(tool[o])

(* The one that is not understood updates an issue (issues.rs of           *)
(* component-jira).                                                        *)
Misread(t) == IF t = "jira_issues" THEN {"update"} ELSE {}
AcknowledgesAll(t, tool) == \A o \in DOMAIN tool \ Misread(t) : Confirms(tool[o])

Documents(tool, doc, refused) ==
  \A o \in DOMAIN doc.ops :
    /\ o \in DOMAIN tool /\ Tells(tool[o], doc.ops[o])
    /\ tool[o].served \/ o \in refused

Agrees(tool, doc, refused) == Acknowledges(tool) /\ Documents(tool, doc, refused)

(* Documented, and always refused (events.rs of component-gcal).           *)
Refused(t) == IF t = "gcal_events" THEN {"respond"} ELSE {}

(* What the theorems below need of a crate.                                *)
Consistent(n) ==
  /\ n.transport.succeeds = 200 .. 299
  /\ n.nonempty \subseteq ToSet(n.fields)
  /\ \A t \in DOMAIN n.tools : AcknowledgesAll(t, n.tools[t])
  /\ \A t \in DOMAIN n.docs : /\ t \in DOMAIN n.tools
                              /\ Documents(n.tools[t], n.docs[t], Refused(t))

(* What the words of ToolTable come to: a row made of them fits what the  *)
(* metadata asks in the same words.                                        *)
Fits(call, asked) == Tells(call, asked) /\ Confirms(call) /\ call.served

LEMMA PlainCalls ==
  /\ \A f : Fits(Get(f), Needs(f)) /\ Fits(Query(f), Needs(f))
  /\ \A asked : Tells(Get({}), asked)
  /\ \A m, f : /\ Fits(Change(m, f), Needs(f)) /\ Fits(Ack(m, f), Needs(f))
               /\ Fits(Bodiless(Ack(m, f)), Needs(f))
               /\ Tells(Bodiless(Change(m, f)), Needs(f)) /\ Bodiless(Change(m, f)).served
               /\ Confirms(Unserved(Change(m, f)))
               /\ Tells(Unserved(Change(m, f)), Needs(f))
BY DEF Fits, Tells, Confirms, Get, Query, Change, Ack, Bodiless, Unserved, Call

LEMMA JsonCalls ==
  /\ \A f : /\ Fits(ParsedBy("json", Get(f)), Needs(f))
            /\ Fits(ParsedBy("json", Query(f)), Needs(f))
  /\ \A m, f : /\ Fits(ParsedBy("json", Change(m, f)), Needs(f))
               /\ Confirms(ParsedBy("json", Unserved(Change(m, f))))
               /\ Tells(ParsedBy("json", Unserved(Change(m, f))), Needs(f))
BY DEF Fits, Tells, Confirms, Get, Query, Change, Unserved, ParsedBy, Call

LEMMA BodilessCalls ==
  \A m, f : \A p \in {"any", "json_or_empty"} :
    /\ Fits(ParsedBy(p, Change(m, f)), Needs(f))
    /\ Fits(Bodiless(ParsedBy(p, Change(m, f))), Needs(f))
    /\ Fits(ParsedBy(p, Bodiless(Change(m, f))), Needs(f))
BY DEF Fits, Tells, Confirms, Change, Bodiless, ParsedBy, Call

(* What is asked for where one of several fields will do.                  *)
NeedsSome(s, f) == [Needs(f) EXCEPT !.some = s]
NeedsOne(s, f)  == [Needs(f) EXCEPT !.one = s]

LEMMA SomeOfQuery ==
  \A s, f : Fits(ParsedBy("json", SomeOf(s, Query(f))), NeedsSome(s, f))
BY DEF Fits, Tells, Confirms, Query, SomeOf, ParsedBy, Call, NeedsSome

LEMMA SomeOfChange ==
  \A s, m, f : /\ Fits(SomeOf(s, Change(m, f)), NeedsSome(s, f))
               /\ Fits(ParsedBy("json", SomeOf(s, Change(m, f))), NeedsSome(s, f))
BY DEF Fits, Tells, Confirms, Change, SomeOf, ParsedBy, Call, NeedsSome

LEMMA OneOfGet == \A s, f : Fits(OneOf(s, Get(f)), NeedsOne(s, f))
BY DEF Fits, Tells, Confirms, Get, OneOf, Call, NeedsOne

LEMMA OneOfChange == \A s, m, f : Confirms(ParsedBy("json", OneOf(s, Change(m, f))))
BY DEF Confirms, Change, OneOf, ParsedBy, Call

(* The words are the same in every table.                                  *)
LEMMA JiraWords ==
  /\ \A f : /\ Jira!Get(f) = Get(f)
            /\ Jira!Needs(f) = Needs(f)
  /\ \A m, f : /\ Jira!Change(m, f) = Change(m, f)
               /\ Jira!Ack(m, f) = Ack(m, f)
  /\ \A c : /\ Jira!Bodiless(c) = Bodiless(c)
            /\ Jira!Unserved(c) = Unserved(c)
  /\ \A e, ops : Jira!Doc(e, ops).ops = ops
BY DEF Change, Jira!Change, Get, Jira!Get, Ack, Jira!Ack, Bodiless,
       Jira!Bodiless, Unserved, Jira!Unserved, Needs, Jira!Needs, Call,
       Jira!Call, Jira!Doc

LEMMA TrelloWords ==
  /\ \A f : /\ Trello!Get(f) = Get(f)
            /\ Trello!Needs(f) = Needs(f)
  /\ \A m, f : /\ Trello!Change(m, f) = Change(m, f)
               /\ Trello!Ack(m, f) = Ack(m, f)
  /\ \A c : /\ Trello!Bodiless(c) = Bodiless(c)
  /\ \A e, ops : Trello!Doc(e, ops).ops = ops
BY DEF Change, Trello!Change, Get, Trello!Get, Ack, Trello!Ack, Bodiless,
       Trello!Bodiless, Needs, Trello!Needs, Call, Trello!Call, Trello!Doc

LEMMA StripeWords ==
  /\ \A f : /\ Stripe!Get(f) = Get(f)
            /\ Stripe!Needs(f) = Needs(f)
  /\ \A m, f : /\ Stripe!Change(m, f) = Change(m, f)
               /\ Stripe!Ack(m, f) = Ack(m, f)
  /\ \A x, c : /\ Stripe!SomeOf(x, c) = SomeOf(x, c)
  /\ \A e, ops : Stripe!Doc(e, ops).ops = ops
BY DEF Change, Stripe!Change, Get, Stripe!Get, Ack, Stripe!Ack, SomeOf,
       Stripe!SomeOf, Needs, Stripe!Needs, Call, Stripe!Call, Stripe!Doc

LEMMA ClickupWords ==
  /\ \A f : /\ Clickup!Get(f) = Get(f)
            /\ Clickup!Needs(f) = Needs(f)
  /\ \A m, f : /\ Clickup!Change(m, f) = Change(m, f)
               /\ Clickup!Ack(m, f) = Ack(m, f)
  /\ \A c : /\ Clickup!Bodiless(c) = Bodiless(c)
  /\ \A e, ops : Clickup!Doc(e, ops).ops = ops
BY DEF Change, Clickup!Change, Get, Clickup!Get, Ack, Clickup!Ack, Bodiless,
       Clickup!Bodiless, Needs, Clickup!Needs, Call, Clickup!Call,
       Clickup!Doc

LEMMA HubspotWords ==
  /\ \A f : /\ Hubspot!Get(f) = Get(f)
            /\ Hubspot!Query(f) = Query(f)
            /\ Hubspot!Needs(f) = Needs(f)
  /\ \A m, f : /\ Hubspot!Change(m, f) = Change(m, f)
  /\ \A c : /\ Hubspot!Bodiless(c) = Bodiless(c)
  /\ \A x, c : /\ Hubspot!ParsedBy(x, c) = ParsedBy(x, c)
  /\ \A e, ops : Hubspot!Doc(e, ops).ops = ops
BY DEF Change, Hubspot!Change, Get, Hubspot!Get, Query, Hubspot!Query,
       Bodiless, Hubspot!Bodiless, ParsedBy, Hubspot!ParsedBy, Needs,
       Hubspot!Needs, Call, Hubspot!Call, Hubspot!Doc

LEMMA CalendarWords ==
  /\ \A f : /\ Calendar!Get(f) = Get(f)
            /\ Calendar!Query(f) = Query(f)
            /\ Calendar!Needs(f) = Needs(f)
  /\ \A m, f : /\ Calendar!Change(m, f) = Change(m, f)
  /\ \A c : /\ Calendar!Bodiless(c) = Bodiless(c)
            /\ Calendar!Unserved(c) = Unserved(c)
  /\ \A x, c : /\ Calendar!ParsedBy(x, c) = ParsedBy(x, c)
               /\ Calendar!OneOf(x, c) = OneOf(x, c)
  /\ \A e, ops : Calendar!Doc(e, ops).ops = ops
BY DEF Change, Calendar!Change, Get, Calendar!Get, Query, Calendar!Query,
       Bodiless, Calendar!Bodiless, Unserved, Calendar!Unserved, ParsedBy,
       Calendar!ParsedBy, OneOf, Calendar!OneOf, Needs, Calendar!Needs,
       Call, Calendar!Call, Calendar!Doc

LEMMA ServiceWords ==
  /\ \A f : /\ Service!Get(f) = Get(f)
            /\ Service!Query(f) = Query(f)
            /\ Service!Needs(f) = Needs(f)
  /\ \A m, f : /\ Service!Change(m, f) = Change(m, f)
  /\ \A x, c : /\ Service!ParsedBy(x, c) = ParsedBy(x, c)
               /\ Service!SomeOf(x, c) = SomeOf(x, c)
               /\ Service!OneOf(x, c) = OneOf(x, c)
  /\ \A e, ops : Service!Doc(e, ops).ops = ops
BY DEF Change, Service!Change, Get, Service!Get, Query, Service!Query,
       ParsedBy, Service!ParsedBy, SomeOf, Service!SomeOf, OneOf,
       Service!OneOf, Needs, Service!Needs, Call, Service!Call, Service!Doc

LEMMA JiraIsConsistent == Consistent(Jira!Node)
<1>1. /\ AcknowledgesAll("jira_issues", Jira!issues)
      /\ Documents(Jira!issues, Jira!issues_doc, {})
  BY PlainCalls, JiraWords DEF AcknowledgesAll, Misread, Documents, Fits,
      Jira!issues, Jira!issues_doc
<1>2. Agrees(Jira!comments, Jira!comments_doc, {})
  BY PlainCalls, JiraWords DEF Agrees, Acknowledges, Documents, Fits,
      Jira!comments, Jira!comments_doc
<1>3. Agrees(Jira!projects, Jira!projects_doc, {})
  BY PlainCalls, JiraWords DEF Agrees, Acknowledges, Documents, Fits,
      Jira!projects, Jira!projects_doc
<1>4. Agrees(Jira!boards, Jira!boards_doc, {})
  BY PlainCalls, JiraWords DEF Agrees, Acknowledges, Documents, Fits,
      Jira!boards, Jira!boards_doc
<1>5. Agrees(Jira!sprints, Jira!sprints_doc, {})
  BY PlainCalls, JiraWords DEF Agrees, Acknowledges, Documents, Fits,
      Jira!sprints, Jira!sprints_doc
<1>6. Agrees(Jira!worklogs, Jira!worklogs_doc, {})
  BY PlainCalls, JiraWords DEF Agrees, Acknowledges, Documents, Fits,
      Jira!worklogs, Jira!worklogs_doc
<1>7. Agrees(Jira!attachments, Jira!attachments_doc, {})
  BY PlainCalls, JiraWords DEF Agrees, Acknowledges, Documents, Fits,
      Jira!attachments, Jira!attachments_doc
<1>8. Agrees(Jira!users, Jira!users_doc, {})
  BY PlainCalls, JiraWords DEF Agrees, Acknowledges, Documents, Fits,
      Jira!users, Jira!users_doc
<1>9. \A t \in DOMAIN Jira!Tools : AcknowledgesAll(t, Jira!Tools[t])
  BY <1>1, <1>2, <1>3, <1>4, <1>5, <1>6, <1>7, <1>8
     DEF Agrees, AcknowledgesAll, Acknowledges, Jira!Tools
<1>10. \A t \in DOMAIN Jira!Docs :
         /\ t \in DOMAIN Jira!Tools
         /\ Documents(Jira!Tools[t], Jira!Docs[t], Refused(t))
  BY <1>1, <1>2, <1>3, <1>4, <1>5, <1>6, <1>7, <1>8
     DEF Agrees, Refused, Jira!Tools, Jira!Docs
<1>11. /\ Jira!Node.tools = Jira!Tools
       /\ Jira!Node.docs = Jira!Docs
       /\ Jira!Node.transport.succeeds = 200 .. 299
       /\ Jira!Node.nonempty = {}
       /\ Jira!Node.fields = Jira!Credentials
  BY DEF Jira!Node, Jira!NodeWith, Jira!Transport, Jira!HostTransport
<1> QED  BY <1>9, <1>10, <1>11 DEF Consistent, AcknowledgesAll, Acknowledges

LEMMA TrelloIsConsistent == Consistent(Trello!Node)
<1>1. Agrees(Trello!cards, Trello!cards_doc, {})
  BY PlainCalls, TrelloWords DEF Agrees, Acknowledges, Documents, Fits,
      Trello!cards, Trello!cards_doc
<1>2. Agrees(Trello!lists, Trello!lists_doc, {})
  BY PlainCalls, TrelloWords DEF Agrees, Acknowledges, Documents, Fits,
      Trello!lists, Trello!lists_doc
<1>3. Agrees(Trello!boards, Trello!boards_doc, {})
  BY PlainCalls, TrelloWords DEF Agrees, Acknowledges, Documents, Fits,
      Trello!boards, Trello!boards_doc
<1>4. Agrees(Trello!checklists, Trello!checklists_doc, {})
  BY PlainCalls, TrelloWords DEF Agrees, Acknowledges, Documents, Fits,
      Trello!checklists, Trello!checklists_doc
<1>5. Agrees(Trello!labels, Trello!labels_doc, {})
  BY PlainCalls, TrelloWords DEF Agrees, Acknowledges, Documents, Fits,
      Trello!labels, Trello!labels_doc
<1>6. Agrees(Trello!comments, Trello!comments_doc, {})
  BY PlainCalls, TrelloWords DEF Agrees, Acknowledges, Documents, Fits,
      Trello!comments, Trello!comments_doc
<1>7. Agrees(Trello!attachments, Trello!attachments_doc, {})
  BY PlainCalls, TrelloWords DEF Agrees, Acknowledges, Documents, Fits,
      Trello!attachments, Trello!attachments_doc
<1>8. Agrees(Trello!members, Trello!members_doc, {})
  BY PlainCalls, TrelloWords DEF Agrees, Acknowledges, Documents, Fits,
      Trello!members, Trello!members_doc
<1>9. \A t \in DOMAIN Trello!Tools : Acknowledges(Trello!Tools[t])
  BY <1>1, <1>2, <1>3, <1>4, <1>5, <1>6, <1>7, <1>8 DEF Agrees, Trello!Tools
<1>10. \A t \in DOMAIN Trello!Docs :
         /\ t \in DOMAIN Trello!Tools
         /\ Documents(Trello!Tools[t], Trello!Docs[t], Refused(t))
  BY <1>1, <1>2, <1>3, <1>4, <1>5, <1>6, <1>7, <1>8
     DEF Agrees, Refused, Trello!Tools, Trello!Docs
<1>11. /\ Trello!Node.tools = Trello!Tools
       /\ Trello!Node.docs = Trello!Docs
       /\ Trello!Node.transport.succeeds = 200 .. 299
       /\ Trello!Node.nonempty = {}
       /\ Trello!Node.fields = Trello!Credentials
  BY DEF Trello!Node, Trello!NodeWith, Trello!Transport,
       Trello!HostTransport
<1> QED  BY <1>9, <1>10, <1>11 DEF Consistent, AcknowledgesAll, Acknowledges

LEMMA StripeIsConsistent == Consistent(Stripe!Node)
<1>1. Agrees(Stripe!customers, Stripe!customers_doc, {})
  BY PlainCalls, StripeWords DEF Agrees, Acknowledges, Documents, Fits,
      Stripe!customers, Stripe!customers_doc
<1>2. Agrees(Stripe!products, Stripe!products_doc, {})
  BY PlainCalls, StripeWords DEF Agrees, Acknowledges, Documents, Fits,
      Stripe!products, Stripe!products_doc
<1>3. Agrees(Stripe!prices, Stripe!prices_doc, {})
  BY PlainCalls, StripeWords DEF Agrees, Acknowledges, Documents, Fits,
      Stripe!prices, Stripe!prices_doc
<1>4. Agrees(Stripe!payment_links, Stripe!payment_links_doc, {})
  BY PlainCalls, StripeWords DEF Agrees, Acknowledges, Documents, Fits,
      Stripe!payment_links, Stripe!payment_links_doc
<1>5. Agrees(Stripe!invoices, Stripe!invoices_doc, {})
  BY PlainCalls, StripeWords DEF Agrees, Acknowledges, Documents, Fits,
      Stripe!invoices, Stripe!invoices_doc
<1>6. Agrees(Stripe!subscriptions, Stripe!subscriptions_doc, {})
  BY PlainCalls, StripeWords DEF Agrees, Acknowledges, Documents, Fits,
      Stripe!subscriptions, Stripe!subscriptions_doc
<1>7. Agrees(Stripe!checkout_sessions, Stripe!checkout_sessions_doc, {})
  BY PlainCalls, StripeWords DEF Agrees, Acknowledges, Documents, Fits,
      Stripe!checkout_sessions, Stripe!checkout_sessions_doc
<1>8. Agrees(Stripe!refunds, Stripe!refunds_doc, {})
  <2> DEFINE either == NeedsSome({"payment_intent", "charge"}, {})
  <2>1. Stripe!refunds_doc.ops = [create |-> either, get |-> Needs({"id"}), list |-> either]
    BY StripeWords DEF Stripe!refunds_doc, NeedsSome
  <2> QED  BY <2>1, PlainCalls, SomeOfChange, StripeWords
           DEF Agrees, Acknowledges, Documents, Fits, Stripe!refunds
<1>9. Agrees(Stripe!payment_intents, Stripe!payment_intents_doc, {})
  BY PlainCalls, StripeWords DEF Agrees, Acknowledges, Documents, Fits,
      Stripe!payment_intents, Stripe!payment_intents_doc
<1>10. Agrees(Stripe!disputes, Stripe!disputes_doc, {})
  BY PlainCalls, StripeWords DEF Agrees, Acknowledges, Documents, Fits,
      Stripe!disputes, Stripe!disputes_doc
<1>11. Agrees(Stripe!coupons, Stripe!coupons_doc, {})
  BY PlainCalls, StripeWords DEF Agrees, Acknowledges, Documents, Fits,
      Stripe!coupons, Stripe!coupons_doc
<1>12. Agrees(Stripe!promotion_codes, Stripe!promotion_codes_doc, {})
  BY PlainCalls, StripeWords DEF Agrees, Acknowledges, Documents, Fits,
      Stripe!promotion_codes, Stripe!promotion_codes_doc
<1>13. Agrees(Stripe!files, Stripe!files_doc, {})
  BY PlainCalls, StripeWords DEF Agrees, Acknowledges, Documents, Fits,
      Stripe!files, Stripe!files_doc, Stripe!stripe_files
<1>14. \A t \in DOMAIN Stripe!Tools : Acknowledges(Stripe!Tools[t])
  BY <1>1, <1>2, <1>3, <1>4, <1>5, <1>6, <1>7, <1>8, <1>9, <1>10, <1>11,
     <1>12, <1>13
     DEF Agrees, Stripe!Tools
<1>15. \A t \in DOMAIN Stripe!Docs :
         /\ t \in DOMAIN Stripe!Tools
         /\ Documents(Stripe!Tools[t], Stripe!Docs[t], Refused(t))
  BY <1>1, <1>2, <1>3, <1>4, <1>5, <1>6, <1>7, <1>8, <1>9, <1>10, <1>11,
     <1>12, <1>13
     DEF Agrees, Refused, Stripe!Tools, Stripe!Docs
<1>16. /\ Stripe!Node.tools = Stripe!Tools
       /\ Stripe!Node.docs = Stripe!Docs
       /\ Stripe!Node.transport.succeeds = 200 .. 299
       /\ Stripe!Node.nonempty = {}
       /\ Stripe!Node.fields = Stripe!Credentials
  BY DEF Stripe!Node, Stripe!NodeWith, Stripe!Transport,
       Stripe!HostTransport
<1> QED  BY <1>14, <1>15, <1>16 DEF Consistent, AcknowledgesAll, Acknowledges

LEMMA ClickupIsConsistent == Consistent(Clickup!Node)
<1>1. Agrees(Clickup!tasks, Clickup!tasks_doc, {})
  BY PlainCalls, ClickupWords DEF Agrees, Acknowledges, Documents, Fits,
      Clickup!tasks, Clickup!tasks_doc
<1>2. Agrees(Clickup!spaces, Clickup!spaces_doc, {})
  BY PlainCalls, ClickupWords DEF Agrees, Acknowledges, Documents, Fits,
      Clickup!spaces, Clickup!spaces_doc
<1>3. Agrees(Clickup!folders, Clickup!folders_doc, {})
  BY PlainCalls, ClickupWords DEF Agrees, Acknowledges, Documents, Fits,
      Clickup!folders, Clickup!folders_doc
<1>4. Agrees(Clickup!lists, Clickup!lists_doc, {})
  BY PlainCalls, ClickupWords DEF Agrees, Acknowledges, Documents, Fits,
      Clickup!lists, Clickup!lists_doc
<1>5. Agrees(Clickup!comments, Clickup!comments_doc, {})
  BY PlainCalls, ClickupWords DEF Agrees, Acknowledges, Documents, Fits,
      Clickup!comments, Clickup!comments_doc
<1>6. Agrees(Clickup!time_entries, Clickup!time_entries_doc, {})
  BY PlainCalls, ClickupWords DEF Agrees, Acknowledges, Documents, Fits,
      Clickup!time_entries, Clickup!time_entries_doc
<1>7. Agrees(Clickup!custom_fields, Clickup!custom_fields_doc, {})
  BY PlainCalls, ClickupWords DEF Agrees, Acknowledges, Documents, Fits,
      Clickup!custom_fields, Clickup!custom_fields_doc
<1>8. Agrees(Clickup!members, Clickup!members_doc, {})
  BY PlainCalls, ClickupWords DEF Agrees, Acknowledges, Documents, Fits,
      Clickup!members, Clickup!members_doc
<1>9. \A t \in DOMAIN Clickup!Tools : Acknowledges(Clickup!Tools[t])
  BY <1>1, <1>2, <1>3, <1>4, <1>5, <1>6, <1>7, <1>8 DEF Agrees, Clickup!Tools
<1>10. \A t \in DOMAIN Clickup!Docs :
         /\ t \in DOMAIN Clickup!Tools
         /\ Documents(Clickup!Tools[t], Clickup!Docs[t], Refused(t))
  BY <1>1, <1>2, <1>3, <1>4, <1>5, <1>6, <1>7, <1>8
     DEF Agrees, Refused, Clickup!Tools, Clickup!Docs
<1>11. /\ Clickup!Node.tools = Clickup!Tools
       /\ Clickup!Node.docs = Clickup!Docs
       /\ Clickup!Node.transport.succeeds = 200 .. 299
       /\ Clickup!Node.nonempty = {}
       /\ Clickup!Node.fields = Clickup!Credentials
  BY DEF Clickup!Node, Clickup!NodeWith, Clickup!Transport,
       Clickup!HostTransport
<1> QED  BY <1>9, <1>10, <1>11 DEF Consistent, AcknowledgesAll, Acknowledges

LEMMA HubspotIsConsistent == Consistent(Hubspot!Node)
<1>1. Agrees(Hubspot!crud, Hubspot!crud_doc, {})
  BY JsonCalls, HubspotWords DEF Agrees, Acknowledges, Documents, Fits,
      Hubspot!crud, Hubspot!crud_doc, Hubspot!validate_crud,
      Hubspot!map_record, Hubspot!map_search
<1>2. Agrees(Hubspot!pipelines, Hubspot!pipelines_doc, {})
  BY PlainCalls, HubspotWords DEF Agrees, Acknowledges, Documents, Fits,
      Hubspot!pipelines, Hubspot!pipelines_doc
<1>3. Agrees(Hubspot!owners, Hubspot!owners_doc, {})
  BY PlainCalls, HubspotWords DEF Agrees, Acknowledges, Documents, Fits,
      Hubspot!owners, Hubspot!owners_doc
<1>4. Agrees(Hubspot!batch, Hubspot!batch_doc, {})
  BY PlainCalls, HubspotWords DEF Agrees, Acknowledges, Documents, Fits,
      Hubspot!batch, Hubspot!batch_doc
<1>5. Agrees(Hubspot!associate, Hubspot!associate_doc, {})
  BY BodilessCalls, HubspotWords DEF Agrees, Acknowledges, Documents, Fits,
      Hubspot!associate, Hubspot!associate_doc, Hubspot!associate_result
<1>6. \A t \in DOMAIN Hubspot!Tools : Acknowledges(Hubspot!Tools[t])
  BY <1>1, <1>2, <1>3, <1>4, <1>5
     DEF Agrees, Hubspot!Tools, Hubspot!CrudTools, Hubspot!OtherTools,
         Hubspot!OtherDocs
<1>7. \A t \in DOMAIN Hubspot!Docs :
         /\ t \in DOMAIN Hubspot!Tools
         /\ Documents(Hubspot!Tools[t], Hubspot!Docs[t], Refused(t))
  BY <1>1, <1>2, <1>3, <1>4, <1>5
     DEF Agrees, Refused, Hubspot!Tools, Hubspot!Docs, Hubspot!CrudTools,
         Hubspot!OtherTools, Hubspot!OtherDocs
<1>8. /\ Hubspot!Node.tools = Hubspot!Tools
      /\ Hubspot!Node.docs = Hubspot!Docs
      /\ Hubspot!Node.transport.succeeds = 200 .. 299
      /\ Hubspot!Node.nonempty = {}
      /\ Hubspot!Node.fields = Hubspot!Credentials
  BY DEF Hubspot!Node, Hubspot!NodeWith, Hubspot!Transport,
       Hubspot!HostTransport
<1> QED  BY <1>6, <1>7, <1>8 DEF Consistent, AcknowledgesAll, Acknowledges

LEMMA CalendlyIsConsistent == Consistent(Calendar!CalendlyNode)
<1>1. Agrees(Calendar!calendly_me, Calendar!calendly_me_doc, {})
  BY PlainCalls, CalendarWords DEF Agrees, Acknowledges, Documents, Fits,
      Calendar!calendly_me, Calendar!calendly_me_doc
<1>2. Agrees(Calendar!calendly_event_types, Calendar!calendly_event_types_doc, {})
  <2>1. Calendar!calendly_event_types_doc.ops
          = [list |-> NeedsOne(Calendar!Owner, {}), get |-> Needs({"uuid"})]
    BY CalendarWords DEF Calendar!calendly_event_types_doc, NeedsOne
  <2> QED  BY <2>1, PlainCalls, OneOfGet, CalendarWords
           DEF Agrees, Acknowledges, Documents, Fits, Calendar!calendly_event_types
<1>3. Agrees(Calendar!calendly_events, Calendar!calendly_events_doc, {})
  <2>1. Calendar!calendly_events_doc.ops
          = [list |-> NeedsOne(Calendar!Owner, {}), get |-> Needs({"uuid"}),
             cancel |-> Needs({"uuid"})]
    BY CalendarWords DEF Calendar!calendly_events_doc, NeedsOne
  <2>2. Calendar!calendly_events.cancel = ParsedBy("json_or_empty", Change("POST", {"uuid"}))
    BY CalendarWords DEF Calendar!calendly_events, Calendar!MaybeBodiless, ParsedBy
  <2>3. /\ DOMAIN Calendar!calendly_events = {"list", "get", "cancel"}
        /\ Calendar!calendly_events.list = OneOf(Calendar!Owner, Get({}))
        /\ Calendar!calendly_events.get = Get({"uuid"})
    BY CalendarWords DEF Calendar!calendly_events
  <2> QED  BY <2>1, <2>2, <2>3, PlainCalls, OneOfGet, BodilessCalls
           DEF Agrees, Acknowledges, Documents, Fits
<1>4. Agrees(Calendar!calendly_invitees, Calendar!calendly_invitees_doc, {})
  BY PlainCalls, CalendarWords DEF Agrees, Acknowledges, Documents, Fits,
      Calendar!calendly_invitees, Calendar!calendly_invitees_doc
<1>5. Agrees(Calendar!calendly_scheduling_links, Calendar!calendly_scheduling_links_doc, {})
  BY PlainCalls, CalendarWords DEF Agrees, Acknowledges, Documents, Fits,
      Calendar!calendly_scheduling_links,
      Calendar!calendly_scheduling_links_doc
<1>6. Agrees(Calendar!calendly_availability, Calendar!calendly_availability_doc, {})
  BY PlainCalls, CalendarWords DEF Agrees, Acknowledges, Documents, Fits,
      Calendar!calendly_availability, Calendar!calendly_availability_doc
<1>7. Agrees(Calendar!calendly_webhooks, Calendar!calendly_webhooks_doc, {})
  BY JsonCalls, BodilessCalls, CalendarWords DEF Agrees, Acknowledges,
      Documents, Fits, Calendar!calendly_webhooks,
      Calendar!calendly_webhooks_doc, Calendar!webhook_calls,
      Calendar!webhook_answer
<1>8. \A t \in DOMAIN Calendar!Calendly : Acknowledges(Calendar!Calendly[t])
  BY <1>1, <1>2, <1>3, <1>4, <1>5, <1>6, <1>7 DEF Agrees, Calendar!Calendly
<1>9. \A t \in DOMAIN Calendar!CalendlyDocs :
         /\ t \in DOMAIN Calendar!Calendly
         /\ Documents(Calendar!Calendly[t], Calendar!CalendlyDocs[t], Refused(t))
  BY <1>1, <1>2, <1>3, <1>4, <1>5, <1>6, <1>7
     DEF Agrees, Refused, Calendar!Calendly, Calendar!CalendlyDocs
<1>10. /\ Calendar!CalendlyNode.tools = Calendar!Calendly
       /\ Calendar!CalendlyNode.docs = Calendar!CalendlyDocs
       /\ Calendar!CalendlyNode.transport.succeeds = 200 .. 299
       /\ Calendar!CalendlyNode.nonempty = {}
       /\ Calendar!CalendlyNode.fields = Calendar!calendly_credentials
  BY DEF Calendar!CalendlyNode, Calendar!NodeWith,
       Calendar!calendly_transport, Calendar!HostTransport
<1> QED  BY <1>8, <1>9, <1>10 DEF Consistent, AcknowledgesAll, Acknowledges

LEMMA GcalIsConsistent == Consistent(Calendar!GcalNode)
<1>1. Agrees(Calendar!gcal_events, Calendar!gcal_events_doc, {"respond"})
  BY JsonCalls, BodilessCalls, CalendarWords DEF Agrees, Acknowledges,
      Documents, Fits, Calendar!gcal_events, Calendar!gcal_events_doc,
      Calendar!event_calls, Calendar!event_answer
<1>2. Agrees(Calendar!gcal_calendars, Calendar!gcal_calendars_doc, {})
  BY PlainCalls, CalendarWords DEF Agrees, Acknowledges, Documents, Fits,
      Calendar!gcal_calendars, Calendar!gcal_calendars_doc
<1>3. Agrees(Calendar!gcal_freebusy, Calendar!gcal_freebusy_doc, {})
  BY PlainCalls, CalendarWords DEF Agrees, Acknowledges, Documents, Fits,
      Calendar!gcal_freebusy, Calendar!gcal_freebusy_doc
<1>4. \A t \in DOMAIN Calendar!Gcal : Acknowledges(Calendar!Gcal[t])
  BY <1>1, <1>2, <1>3 DEF Agrees, Calendar!Gcal
<1>5. \A t \in DOMAIN Calendar!GcalDocs :
         /\ t \in DOMAIN Calendar!Gcal
         /\ Documents(Calendar!Gcal[t], Calendar!GcalDocs[t], Refused(t))
  BY <1>1, <1>2, <1>3 DEF Agrees, Refused, Calendar!Gcal, Calendar!GcalDocs
<1>6. /\ Calendar!GcalNode.tools = Calendar!Gcal
      /\ Calendar!GcalNode.docs = Calendar!GcalDocs
      /\ Calendar!GcalNode.transport.succeeds = 200 .. 299
      /\ Calendar!GcalNode.nonempty = {}
      /\ Calendar!GcalNode.fields = Calendar!gcal_credentials
  BY DEF Calendar!GcalNode, Calendar!NodeWith, Calendar!gcal_transport,
       Calendar!HostTransport
<1> QED  BY <1>4, <1>5, <1>6 DEF Consistent, AcknowledgesAll, Acknowledges

LEMMA TavilyIsConsistent == Consistent(Service!TavilyNode)
<1>1. Agrees(Service!tavily_search, Service!tavily_search_doc, {})
  BY JsonCalls, ServiceWords DEF Agrees, Acknowledges, Documents, Fits,
      Service!tavily_search, Service!tavily_search_doc,
      Service!map_search_response, Service!build_search_body
<1>2. Agrees(Service!tavily_extract, Service!tavily_extract_doc, {})
  BY JsonCalls, ServiceWords DEF Agrees, Acknowledges, Documents, Fits,
      Service!tavily_extract, Service!tavily_extract_doc,
      Service!map_extract_response, Service!build_extract_body
<1>3. \A t \in DOMAIN Service!Tavily : Acknowledges(Service!Tavily[t])
  BY <1>1, <1>2 DEF Agrees, Service!Tavily
<1>4. \A t \in DOMAIN Service!TavilyDocs :
         /\ t \in DOMAIN Service!Tavily
         /\ Documents(Service!Tavily[t], Service!TavilyDocs[t], Refused(t))
  BY <1>1, <1>2 DEF Agrees, Refused, Service!Tavily, Service!TavilyDocs
<1>5. /\ Service!TavilyNode.tools = Service!Tavily
      /\ Service!TavilyNode.docs = Service!TavilyDocs
      /\ Service!TavilyNode.transport.succeeds = 200 .. 299
      /\ Service!TavilyNode.nonempty = {}
      /\ Service!TavilyNode.fields = Service!tavily_credentials
  BY DEF Service!TavilyNode, Service!NodeWith, Service!tavily_transport,
       Service!HostTransport
<1> QED  BY <1>3, <1>4, <1>5 DEF Consistent, AcknowledgesAll, Acknowledges

LEMMA FirecrawlIsConsistent == Consistent(Service!FirecrawlNode)
<1>1. Agrees(Service!web_scrape, Service!web_scrape_doc, {})
  BY JsonCalls, ServiceWords DEF Agrees, Acknowledges, Documents, Fits,
      Service!web_scrape, Service!web_scrape_doc,
      Service!map_scrape_response, Service!build_scrape_body
<1>2. Agrees(Service!web_extract, Service!web_extract_doc, {})
  <2>1. Service!web_extract_doc.ops = [run |-> NeedsSome({"schema", "prompt"}, {"url"})]
    BY ServiceWords DEF Service!web_extract_doc, NeedsSome
  <2> QED  BY <2>1, SomeOfQuery, ServiceWords
           DEF Agrees, Acknowledges, Documents, Fits, Service!web_extract,
               Service!map_web_extract_response, Service!build_web_extract_body
<1>3. Agrees(Service!web_screenshot, Service!web_screenshot_doc, {})
  BY JsonCalls, ServiceWords DEF Agrees, Acknowledges, Documents, Fits,
      Service!web_screenshot, Service!web_screenshot_doc,
      Service!map_screenshot_response, Service!build_screenshot_body
<1>4. Agrees(Service!web_search, Service!web_search_doc, {})
  BY JsonCalls, ServiceWords DEF Agrees, Acknowledges, Documents, Fits,
      Service!web_search, Service!web_search_doc,
      Service!map_web_search_response, Service!build_web_search_body
<1>5. Agrees(Service!web_crawl_start, Service!web_crawl_doc, {})
  BY JsonCalls, ServiceWords DEF Agrees, Acknowledges, Documents, Fits,
      Service!web_crawl_start, Service!web_crawl_doc,
      Service!map_crawl_start_response, Service!build_crawl_body
<1>6. Agrees(Service!web_crawl_result, Service!web_crawl_result_doc, {})
  BY JsonCalls, ServiceWords DEF Agrees, Acknowledges, Documents, Fits,
      Service!web_crawl_result, Service!web_crawl_result_doc,
      Service!map_crawl_result_response
<1>7. Agrees(Service!browser_task, Service!browser_task_doc, {})
  BY JsonCalls, ServiceWords DEF Agrees, Acknowledges, Documents, Fits,
      Service!browser_task, Service!browser_task_doc,
      Service!map_browser_task_response, Service!build_browser_task_body
<1>8. \A t \in DOMAIN Service!Firecrawl : Acknowledges(Service!Firecrawl[t])
  BY <1>1, <1>2, <1>3, <1>4, <1>5, <1>6, <1>7 DEF Agrees, Service!Firecrawl
<1>9. \A t \in DOMAIN Service!FirecrawlDocs :
         /\ t \in DOMAIN Service!Firecrawl
         /\ Documents(Service!Firecrawl[t], Service!FirecrawlDocs[t], Refused(t))
  BY <1>1, <1>2, <1>3, <1>4, <1>5, <1>6, <1>7
     DEF Agrees, Refused, Service!Firecrawl, Service!FirecrawlDocs
<1>10. /\ Service!FirecrawlNode.tools = Service!Firecrawl
       /\ Service!FirecrawlNode.docs = Service!FirecrawlDocs
       /\ Service!FirecrawlNode.transport.succeeds = 200 .. 299
       /\ Service!FirecrawlNode.nonempty = {}
       /\ Service!FirecrawlNode.fields = Service!firecrawl_credentials
  BY DEF Service!FirecrawlNode, Service!NodeWith,
       Service!firecrawl_transport, Service!HostTransport
<1> QED  BY <1>8, <1>9, <1>10 DEF Consistent, AcknowledgesAll, Acknowledges

LEMMA ResendIsConsistent == Consistent(Service!ResendNode)
<1>1. Agrees(Service!send_email, Service!send_email_doc, {})
  <2>1. Service!send_email_doc.ops
          = [run |-> NeedsSome({"text", "html"}, {"from", "to", "subject"})]
    BY ServiceWords DEF Service!send_email_doc, NeedsSome
  <2> QED  BY <2>1, SomeOfChange, ServiceWords
           DEF Agrees, Acknowledges, Documents, Fits, Service!send_email,
               Service!map_send_email_response, Service!build_send_email_body
<1>2. \A t \in DOMAIN Service!Resend : Acknowledges(Service!Resend[t])
  BY <1>1 DEF Agrees, Service!Resend
<1>3. \A t \in DOMAIN Service!ResendDocs :
         /\ t \in DOMAIN Service!Resend
         /\ Documents(Service!Resend[t], Service!ResendDocs[t], Refused(t))
  BY <1>1 DEF Agrees, Refused, Service!Resend, Service!ResendDocs
<1>4. /\ Service!ResendNode.tools = Service!Resend
      /\ Service!ResendNode.docs = Service!ResendDocs
      /\ Service!ResendNode.transport.succeeds = 200 .. 299
      /\ Service!ResendNode.nonempty = {}
      /\ Service!ResendNode.fields = Service!resend_credentials
  BY DEF Service!ResendNode, Service!NodeWith, Service!resend_transport,
       Service!HostTransport
<1> QED  BY <1>2, <1>3, <1>4 DEF Consistent, AcknowledgesAll, Acknowledges

LEMMA TwilioIsConsistent == Consistent(Service!TwilioNode)
<1>1. Agrees(Service!send_sms, Service!send_sms_doc, {})
  BY JsonCalls, ServiceWords DEF Agrees, Acknowledges, Documents, Fits,
      Service!send_sms, Service!send_sms_doc, Service!map_send_sms_response,
      Service!build_send_sms_body
<1>2. \A t \in DOMAIN Service!Twilio : Acknowledges(Service!Twilio[t])
  BY <1>1 DEF Agrees, Service!Twilio
<1>3. \A t \in DOMAIN Service!TwilioDocs :
         /\ t \in DOMAIN Service!Twilio
         /\ Documents(Service!Twilio[t], Service!TwilioDocs[t], Refused(t))
  BY <1>1 DEF Agrees, Refused, Service!Twilio, Service!TwilioDocs
<1>4. /\ Service!TwilioNode.tools = Service!Twilio
      /\ Service!TwilioNode.docs = Service!TwilioDocs
      /\ Service!TwilioNode.transport.succeeds = 200 .. 299
      /\ Service!TwilioNode.nonempty = Service!twilio_nonempty
      /\ Service!TwilioNode.fields = Service!twilio_credentials
  BY DEF Service!TwilioNode, Service!NodeWith, Service!twilio_transport,
       Service!HostTransport
<1> QED  BY <1>2, <1>3, <1>4
         DEF Consistent, AcknowledgesAll, Acknowledges, Service!twilio_nonempty, Service!twilio_credentials, ToSet

LEMMA NotionIsConsistent == Consistent(Service!NotionNode)
<1>1. Acknowledges(Service!Notion.notion)
  BY JsonCalls, OneOfChange, ServiceWords
     DEF Acknowledges, Fits, Service!Notion, Service!as_json,
         Service!parse_query_response, Service!parse_create_page_response,
         Service!query_database, Service!create_page, Service!search,
         Service!list_users, Service!create_comment, Service!update_page,
         Service!append_block, Service!retrieve_block_children,
         Service!build_query_database_request, Service!build_create_page_request,
         Service!build_search_request, Service!build_retrieve_children_request,
         Service!build_list_users_request, Service!build_update_page_request,
         Service!build_append_block_request, Service!build_create_comment_request
<1>2. \A t \in DOMAIN Service!Notion : Acknowledges(Service!Notion[t])
  BY <1>1 DEF Agrees, Service!Notion
<1>3. \A t \in DOMAIN Service!NotionDocs :
         /\ t \in DOMAIN Service!Notion
         /\ Documents(Service!Notion[t], Service!NotionDocs[t], Refused(t))
  BY <1>1 DEF Agrees, Refused, Service!Notion, Service!NotionDocs
<1>4. /\ Service!NotionNode.tools = Service!Notion
      /\ Service!NotionNode.docs = Service!NotionDocs
      /\ Service!NotionNode.transport.succeeds = 200 .. 299
      /\ Service!NotionNode.nonempty = {}
      /\ Service!NotionNode.fields = Service!notion_credentials
  BY DEF Service!NotionNode, Service!NodeWith, Service!notion_transport,
       Service!HostTransport
<1> QED  BY <1>2, <1>3, <1>4 DEF Consistent, AcknowledgesAll, Acknowledges

LEMMA CratesAreConsistent == \A n \in Crates : Consistent(n)
BY JiraIsConsistent, TrelloIsConsistent, StripeIsConsistent, ClickupIsConsistent,
   HubspotIsConsistent, CalendlyIsConsistent, GcalIsConsistent, NotionIsConsistent,
   TavilyIsConsistent, FirecrawlIsConsistent, ResendIsConsistent, TwilioIsConsistent
   DEF Crates

-----------------------------------------------------------------------------
(* What the metadata promises and what an empty confirmation comes to.     *)

(* What was sent had been built.                                           *)
SentInv(r)   == wire[r] # "unsent" => Buildable(input[r])
SentWasBuilt == \A r \in Runs : SentInv(r)

LEMMA SentStep ==
  ASSUME TInv, SentWasBuilt, [Next]_vars
  PROVE  SentWasBuilt'
<1> SUFFICES ASSUME NEW q \in Runs PROVE SentInv(q)'  BY DEF SentWasBuilt
<1>1. TypeOK /\ SentInv(q)  BY DEF TInv, SentWasBuilt
<1>2. CASE wire' = wire /\ input' = input  BY <1>1, <1>2 DEF SentInv, Buildable
<1>3. ASSUME NEW r \in Runs, Begin(r) PROVE SentInv(q)'
  <2>1. PICK i : input' = [input EXCEPT ![r] = i]  BY <1>3 DEF Begin
  <2>2. wire' = wire  BY <1>3 DEF Begin
  <2>3. CASE q = r
    <3>1. wire[r] = "unsent"  BY <1>3 DEF Begin, TInv, RunInv, PlaceInv
    <3> QED  BY <2>2, <2>3, <3>1 DEF SentInv
  <2>4. CASE q # r
    <3>1. input'[q] = input[q]  BY <1>1, <2>1, <2>4 DEF TypeOK
    <3> QED  BY <1>1, <2>2, <3>1 DEF SentInv
  <2> QED  BY <2>3, <2>4
<1>4. ASSUME NEW r \in Runs, SendCall(r) \/ CarryOut(r) \/ TurnAway(r)
      PROVE  SentInv(q)'
  <2>1. input' = input  BY <1>4 DEF SendCall, CarryOut, TurnAway
  <2>2. Buildable(input[r])
    BY <1>4 DEF SendCall, CarryOut, TurnAway, SentWasBuilt, SentInv
  <2>3. q # r => wire'[q] = wire[q]
    BY <1>1, <1>4 DEF SendCall, CarryOut, TurnAway, TypeOK
  <2> QED  BY <1>1, <2>1, <2>2, <2>3 DEF SentInv
<1>5. ASSUME NEW r \in Runs, Step(r), ~SendCall(r) PROVE wire' = wire /\ input' = input
  BY <1>5 DEF Step, ReadCredential, SendExchange, UseStatic, FallBack,
     ExchangeAnswered, ExchangeTimesOut, RefuseInput, Receive, GiveUp
<1>6. CASE Provision \/ Rotate \/ UNCHANGED vars
  BY <1>2, <1>6 DEF Provision, Rotate, vars
<1> QED  BY <1>2, <1>3, <1>4, <1>5, <1>6 DEF Next

(* No call leaves for an input that fails a check of its handler: the     *)
(* request is built before it is sent (ops.rs of each crate).              *)
THEOREM SentIsBuilt == Spec => []SentWasBuilt
<1>1. Init => SentWasBuilt  BY DEF Init, SentWasBuilt, SentInv
<1> QED  BY <1>1, SentStep, TInvHolds, PTL DEF Spec

(* The tables about an input of one of the crates.                         *)
LEMMA OfACrate ==
  ASSUME InputsAreOfTheCrates, NEW i \in Inputs
  PROVE  /\ NodeOf(i).transport.succeeds = 200..299
         /\ \A f \in NodeOf(i).nonempty : f \in DOMAIN i.creds
         /\ Confirms(CallOf(i)) \/ UpdatesAnIssue(i)
         /\ Documented(i) =>
              /\ Tells(CallOf(i), NodeOf(i).docs[i.tool].ops[i.op])
              /\ <<i.tool, i.op>> # <<"gcal_events", "respond">> => CallOf(i).served
<1>1. Consistent(NodeOf(i)) /\ i.tool \in DOMAIN NodeOf(i).tools
      /\ i.op \in DOMAIN NodeOf(i).tools[i.tool]
  BY CratesAreConsistent DEF InputsAreOfTheCrates
<1>2. \A f \in NodeOf(i).nonempty : f \in DOMAIN i.creds
  <2>1. NodeOf(i).nonempty \subseteq ToSet(NodeOf(i).fields)  BY <1>1 DEF Consistent
  <2>2. NodeOf(i).fields \in Seq(DOMAIN i.creds)  BY NodesAssumption
  <2>3. ToSet(NodeOf(i).fields) \subseteq DOMAIN i.creds  BY <2>2 DEF ToSet
  <2> QED  BY <2>1, <2>3
<1>3. Confirms(CallOf(i)) \/ UpdatesAnIssue(i)
  BY <1>1 DEF Consistent, AcknowledgesAll, Misread, UpdatesAnIssue, CallOf
<1>4. ASSUME Documented(i)
      PROVE  /\ Tells(CallOf(i), NodeOf(i).docs[i.tool].ops[i.op])
             /\ CallOf(i).served \/ i.op \in Refused(i.tool)
  <2>1. Documents(NodeOf(i).tools[i.tool], NodeOf(i).docs[i.tool], Refused(i.tool))
    BY <1>1, <1>4 DEF Consistent, Documented
  <2> QED  BY <1>4, <2>1 DEF Documents, Documented, CallOf
<1>5. i.op \in Refused(i.tool) => <<i.tool, i.op>> = <<"gcal_events", "respond">>
  BY DEF Refused
<1> QED  BY <1>1, <1>2, <1>3, <1>4, <1>5 DEF Consistent

(* An input that gives what the metadata asks for is built, and nothing is *)
(* changed for one that does not: for every table of the twelve crates     *)
(* (tool_meta.rs against tools/).                                          *)
THEOREM MetadataIsTrue ==
  ASSUME InputsAreOfTheCrates
  PROVE  Spec => []MetadataMatchesChecks
<1>1. TInv /\ SentWasBuilt => MetadataMatchesChecks
  <2> SUFFICES ASSUME TInv, SentWasBuilt, NEW r \in Runs
               PROVE  /\ /\ pc[r] = "validate"
                         /\ GivesWhatIsAsked(input[r])
                         /\ HasNoEmptyCredential(input[r])
                         /\ <<input[r].tool, input[r].op>> # <<"gcal_events", "respond">>
                         => Buildable(input[r])
                      /\ r \in Changed /\ Documented(input[r]) => GivesWhatIsAsked(input[r])
    BY DEF MetadataMatchesChecks
  <2> DEFINE i     == input[r]
             asked == NodeOf(i).docs[i.tool].ops[i.op]
  <2>1. TypeOK /\ RunInv(r)  BY DEF TInv
  <2>2. ASSUME pc[r] = "validate", GivesWhatIsAsked(i), HasNoEmptyCredential(i),
               <<i.tool, i.op>> # <<"gcal_events", "respond">>
        PROVE  Buildable(i)
    <3>1. i \in Inputs  BY <2>1, <2>2, InputTypes
    <3>2. Documented(i) /\ Satisfied(asked, i.given)  BY <2>2 DEF GivesWhatIsAsked
    <3>3. CallOf(i).served /\ Tells(CallOf(i), asked)  BY <2>2, <3>1, <3>2, OfACrate
    <3>4. Satisfied(Needs({}), i.given)  BY DEF Satisfied, Needs
    <3>5. Satisfied(CallOf(i).needs, i.given)  BY <3>2, <3>3, <3>4 DEF Tells
    <3>6. \A f \in NodeOf(i).nonempty : i.creds[f] # "empty"
      BY <2>2, <3>1, OfACrate DEF HasNoEmptyCredential
    <3> QED  BY <3>3, <3>5, <3>6 DEF Buildable
  <2>3. ASSUME r \in Changed, Documented(i)
        PROVE  GivesWhatIsAsked(i)
    <3>1. wire[r] = "answered" /\ CallOf(i).writes /\ pc[r] # "idle"
      BY <2>1, <2>3 DEF Changed, RunInv, EffectInv, PlaceInv
    <3>2. i \in Inputs  BY <2>1, <3>1, InputTypes
    <3>3. Satisfied(CallOf(i).needs, i.given)
      BY <3>1 DEF SentWasBuilt, SentInv, Buildable
    <3>4. CallOf(i).needs = asked  BY <2>3, <3>1, <3>2, OfACrate DEF Tells
    <3> QED  BY <2>3, <3>3, <3>4 DEF GivesWhatIsAsked
  <2> QED  BY <2>2, <2>3
<1> QED  BY <1>1, TInvHolds, SentIsBuilt, PTL

(* No change that was made and confirmed as the service documents it is    *)
(* reported as an error, the update of a Jira issue excepted: for every    *)
(* other operation of the crates the parser takes the body the service     *)
(* confirms with (normalize and its like in tools/).                       *)
THEOREM ConfirmedChangeIsSaid ==
  ASSUME InputsAreOfTheCrates
  PROVE  Spec => ConfirmedChangeIsNotAnError
<1> DEFINE Said(r) == Confirmed(r) /\ ~ UpdatesAnIssue(input[r]) => reply'[r] = "ok"
<1>1. ASSUME TInv, [Next]_vars
      PROVE  [\A r \in Runs : Said(r)]_vars
  <2> SUFFICES ASSUME NEW r \in Runs, Confirmed(r), ~ UpdatesAnIssue(input[r])
               PROVE  reply'[r] = "ok"
    OBVIOUS
  <2> USE DEF Confirmed
  <2>1. TypeOK /\ RunInv(r)  BY <1>1 DEF TInv
  <2>2. Receive(r)
    <3>1. \A q \in Runs : q # r => pc'[r] = pc[r] \/ ~ (Begin(q) \/ Step(q))
      BY <2>1 DEF Begin, Step, ReadCredential, SendExchange, UseStatic, FallBack,
         ExchangeAnswered, ExchangeTimesOut, RefuseInput, SendCall, Receive, GiveUp,
         Finish, TypeOK
    <3>2. pc' = pc \/ ~ (Provision \/ Rotate \/ UNCHANGED vars)
      BY DEF Provision, Rotate, vars
    <3>3. \A q \in Runs : pc' = pc \/ ~ (CarryOut(q) \/ TurnAway(q))
      BY DEF CarryOut, TurnAway
    <3>4. Begin(r) \/ Step(r)  BY <1>1, <3>1, <3>2, <3>3 DEF Next
    <3> QED  BY <3>4 DEF Begin, Step, ReadCredential, SendExchange, UseStatic, FallBack,
         ExchangeAnswered, ExchangeTimesOut, RefuseInput, SendCall, GiveUp
  <2>3. reply'[r] = Verdict(input[r], answer[r])
    BY <2>1, <2>2 DEF Receive, Finish, TypeOK
  <2>4. input[r] \in Inputs  BY <2>1, InputTypes
  <2>5. CallOf(input[r]).writes  BY <2>1 DEF Changed, RunInv, EffectInv
  <2>6. Readable(CallOf(input[r]).body, answer[r].body)
    BY <2>4, <2>5, OfACrate DEF Confirms, Readable
  <2>7. answer[r].status \in NodeOf(input[r]).transport.succeeds
    BY <2>4, OfACrate
  <2> QED  BY <2>3, <2>6, <2>7 DEF Verdict
<1>2. TInv /\ [Next]_vars => [\A r \in Runs : Said(r)]_vars
  BY <1>1
<1> QED  BY <1>2, TInvHolds, PTL DEF Spec, ConfirmedChangeIsNotAnError
=============================================================================
