--------------------------- MODULE ManagerProofs ----------------------------
(***************************************************************************)
(* Proofs about the manager, first part.  Advertising, for any number of   *)
(* starts and refusals: the application is told the truth.  Commands of    *)
(* scanners and initiators, for any devices, scanners, connects, list size *)
(* and budgets: the invariant CallsInv ties the flags of the host to the   *)
(* commands and events under way, and every call is answered once.         *)
(***************************************************************************)
EXTENDS Advertising, ConnectionManager, SequenceTheorems, FiniteSetTheorems, TLAPS

-----------------------------------------------------------------------------
(* Advertising. *)

-----------------------------------------------------------------------------
(* Short sequences. *)

LEMMA AppendElements ==
  ASSUME NEW S, NEW s \in Seq(S), NEW e \in S
  PROVE  /\ Append(s, e) \in Seq(S) /\ Len(s) \in Nat
         /\ Len(Append(s, e)) = Len(s) + 1 /\ Append(s, e)[Len(s) + 1] = e
         /\ \A i \in 1 .. Len(s) : Append(s, e)[i] = s[i]
         /\ Append(s, e) # <<>>
BY AppendProperties, EmptySeq

\* A sequence that has the elements of s and then e.
LEMMA AppendIs ==
  ASSUME NEW S, NEW s \in Seq(S), NEW e \in S, NEW t \in Seq(S), Len(t) = Len(s) + 1,
         \A i \in 1 .. Len(s) : t[i] = s[i], t[Len(s) + 1] = e
  PROVE  Append(s, e) = t
<1>1. /\ Append(s, e) \in Seq(S) /\ Len(s) \in Nat
      /\ Len(Append(s, e)) = Len(s) + 1 /\ Append(s, e)[Len(s) + 1] = e
      /\ \A i \in 1 .. Len(s) : Append(s, e)[i] = s[i]
  BY AppendElements
<1> DEFINE a == Append(s, e)
<1> HIDE DEF a
<1>2. \A i \in 1 .. Len(a) : a[i] = t[i]
  BY <1>1 DEF a
<1>3. QED
  BY <1>1, <1>2, SeqEqual DEF a

LEMMA AppendTuple ==
  /\ \A a : Append(<<>>, a) = <<a>>
  /\ \A a, b : Append(<<a>>, b) = <<a, b>>
  /\ \A a, b, c : Append(<<a, b>>, c) = <<a, b, c>>
<1>1. \A a : Append(<<>>, a) = <<a>>
  OBVIOUS
<1>2. ASSUME NEW a, NEW b
      PROVE  Append(<<a>>, b) = <<a, b>>
  <2> DEFINE s == <<a>>
             t == <<a, b>>
             S == {a, b}
  <2>1. /\ s \in Seq(S) /\ b \in S /\ t \in Seq(S) /\ Len(t) = Len(s) + 1
        /\ \A i \in 1 .. Len(s) : t[i] = s[i]
        /\ t[Len(s) + 1] = b
    OBVIOUS
  <2> HIDE DEF s, t, S
  <2>2. Append(s, b) = t
    BY <2>1, AppendIs
  <2>3. QED
    BY <2>2 DEF s, t
<1>3. ASSUME NEW a, NEW b, NEW c
      PROVE  Append(<<a, b>>, c) = <<a, b, c>>
  <2> DEFINE s == <<a, b>>
             t == <<a, b, c>>
             S == {a, b, c}
  <2>1. /\ s \in Seq(S) /\ c \in S /\ t \in Seq(S) /\ Len(t) = Len(s) + 1
        /\ \A i \in 1 .. Len(s) : t[i] = s[i]
        /\ t[Len(s) + 1] = c
    OBVIOUS
  <2> HIDE DEF s, t, S
  <2>2. Append(s, c) = t
    BY <2>1, AppendIs
  <2>3. QED
    BY <2>2 DEF s, t
<1>4. QED
  BY <1>1, <1>2, <1>3

-----------------------------------------------------------------------------
(* Advertising: the inductive invariant. *)

\* The application stops advertising only after it was started.
StopsWait == ~StopsEarly

Par(s) == [op |-> "parameters", start |-> s]
Ena(s) == [op |-> "enable", start |-> s]
Dis(s) == [op |-> "disable", start |-> s]
AnswerTo(status) == [what |-> "answer", status |-> status]
End(what) == [what |-> what, status |-> "ok"]
Status == {"ok", "refused"}
EndKind == {"connected", "timeout"}
Told == EndKind \cup {"failed"}

LEMMA ToldSeq == \A e \in Told : <<e>> \in Seq(Told) /\ "failed" \in Told
BY DEF Told

\* What the queue of commands can hold, with the flag and the starts that are not answered.
CommandsFit ==
  \/ advCommands = <<>> /\ startAdvQueueSize = 0
  \/ /\ ~isAdvertisingUserSet /\ startAdvQueueSize = 0
     /\ \E d \in Start : advCommands = <<Dis(d)>>
  \/ /\ ~isAdvertisingUserSet /\ startAdvQueueSize = 1
     /\ advCommands = <<Ena(starts), Dis(starts)>>
     /\ starts \in Start
  \/ /\ isAdvertisingUserSet /\ startAdvQueueSize = 1
     /\ \/ advCommands = <<Par(starts)>>
        \/ advCommands = <<Ena(starts)>>
        \/ \E d \in Start : advCommands = <<Dis(d), Par(starts)>>
  \/ /\ isAdvertisingUserSet /\ startAdvQueueSize = 2
     /\ starts - 1 \in Start
     /\ advCommands = <<Ena(starts - 1), Dis(starts - 1), Par(starts)>>

Outstanding == IF advCommands = <<>> THEN "none" ELSE Head(advCommands).op

NoneOrEnd == advEvents = <<>> \/ \E k \in EndKind : advEvents = <<End(k)>>

\* What the controller did and what is under way to the host, by the command that was sent.
NoneFits ==
  Outstanding = "none" =>
    /\ ~executed /\ NoneOrEnd
    /\ isAdvertisingUserSet => (advertising \/ advEvents # <<>>)
    /\ ~isAdvertisingUserSet => ~advertising

ParametersFit ==
  Outstanding = "parameters" =>
    /\ ~advertising
    /\ ~executed => NoneOrEnd
    /\ executed => \E status \in Status :
         /\ \/ advEvents = <<AnswerTo(status)>>
            \/ \E k \in EndKind : advEvents = <<End(k), AnswerTo(status)>>
         /\ status = "ok" => parameters = Head(advCommands).start

EnableFits ==
  Outstanding = "enable" =>
    /\ parameters = Head(advCommands).start
    /\ ~executed => advEvents = <<>> /\ ~advertising
    /\ executed =>
         \/ advEvents = <<AnswerTo("ok")>> /\ advertising
         \/ /\ \E k \in EndKind : advEvents = <<AnswerTo("ok"), End(k)>>
            /\ ~advertising /\ parameters \in made
         \/ advEvents = <<AnswerTo("refused")>> /\ ~advertising

DisableFits ==
  Outstanding = "disable" =>
    /\ ~executed => NoneOrEnd
    /\ executed =>
         /\ ~advertising
         /\ \E status \in Status :
              \/ advEvents = <<AnswerTo(status)>>
              \/ \E k \in EndKind : \/ advEvents = <<End(k), AnswerTo(status)>>
                                    \/ advEvents = <<AnswerTo(status), End(k)>>

HasEnd ==
  \E k \in EndKind : \/ advEvents = <<End(k)>>
                     \/ \E status \in Status : \/ advEvents = <<End(k), AnswerTo(status)>>
                                               \/ advEvents = <<AnswerTo(status), End(k)>>

\* Unless its enabling is still to be answered, what advertises has its callback in place,
\* and so has the end of it that is under way.
CallbackFits ==
  /\ advertising => ~HasEnd /\ parameters \in Start
  /\ advertising /\ Outstanding # "enable" => advCallback = parameters
  /\ HasEnd /\ Outstanding # "enable" => advCallback # 0 /\ advCallback \in made
  /\ advCallback # 0 => calls[advCallback] = <<>>

\* A start that is not answered, or was not made, has not been told anything.
CallsFit ==
  /\ killed = 0
  /\ \A s \in Start : s + startAdvQueueSize > starts => calls[s] = <<>> /\ s # advCallback
  /\ \A s \in Start : /\ Len(calls[s]) <= 1
                      /\ \A i \in DOMAIN calls[s] : calls[s][i] # "failed" => s \in made

AdvTypes ==
  /\ isAdvertisingUserSet \in BOOLEAN /\ executed \in BOOLEAN /\ advertising \in BOOLEAN
  /\ starts \in Nat /\ (isAdvertisingUserSet => starts \in Start)
  /\ advCallback \in 0 .. MaxStarts /\ parameters \in Nat /\ made \in SUBSET Start
  /\ calls \in [Start -> Seq(Told)]

AdvInv ==
  /\ AdvTypes /\ CommandsFit
  /\ NoneFits /\ ParametersFit /\ EnableFits /\ DisableFits
  /\ CallbackFits /\ CallsFit

LEMMA InitAdvInv == AdvInit => AdvInv
<1> SUFFICES ASSUME AdvInit
             PROVE  AdvInv
  OBVIOUS
<1> USE DEF AdvInit, Start
<1>1. AdvTypes
  <2>1. calls \in [Start -> Seq(Told)]
    BY EmptySeq
  <2>2. starts \in Nat /\ advCallback \in 0 .. MaxStarts
    BY AdvertisingAssumption
  <2>3. QED
    BY <2>1, <2>2 DEF AdvTypes
<1>2. CommandsFit
  BY DEF CommandsFit
<1>3. Outstanding = "none"
  BY DEF Outstanding
<1>4. NoneFits /\ ParametersFit /\ EnableFits /\ DisableFits
  BY <1>3 DEF NoneFits, ParametersFit, EnableFits, DisableFits, NoneOrEnd
<1>5. ~HasEnd
  BY DEF HasEnd
<1>6. CallbackFits
  BY <1>5 DEF CallbackFits
<1>7. CallsFit
  BY AdvertisingAssumption DEF CallsFit
<1>8. QED
  BY <1>1, <1>2, <1>4, <1>6, <1>7 DEF AdvInv

LEMMA AdvInvTruthful == AdvInv => AdvertisingIsTruthful
BY DEF AdvInv, NoneFits, CallsFit, Outstanding, AdvertisingIsTruthful, FlagIsTruthful, Quiet,
       ConnectionsReachTheirStart, AdvTypes

-----------------------------------------------------------------------------
(* The application. *)

\* An action that leaves the callbacks alone keeps what was told.
LEMMA StartAdvertisingStep ==
  ASSUME AdvInv, StartAdvertising
  PROVE  AdvInv'
<1> USE DEF Start
<1>1. /\ ~isAdvertisingUserSet /\ starts' = starts + 1 /\ starts' \in Start /\ isAdvertisingUserSet'
      /\ startAdvQueueSize' = startAdvQueueSize + 1
      /\ advCommands' = Append(advCommands, Par(starts + 1))
      /\ UNCHANGED <<executed, advCallback, advertising, parameters, made, refusals, advEvents,
                     calls, killed>>
  BY DEF StartAdvertising, advController, Par
<1>2. AdvTypes /\ AdvTypes'
  BY <1>1 DEF AdvInv, AdvTypes, StartAdvertising
<1>3. CASE advCommands = <<>>
  <2>1. /\ advCommands' = <<Par(starts')>>
        /\ Outstanding = "none" /\ Outstanding' = "parameters" /\ startAdvQueueSize = 0
    BY <1>1, <1>3, AppendTuple DEF Outstanding, Par, AdvInv, CommandsFit
  <2>2. CommandsFit'
    <3>1. startAdvQueueSize' = 1
      BY <1>1, <2>1
    <3>2. QED
      BY <1>1, <2>1, <3>1 DEF CommandsFit
  <2>3. NoneFits' /\ ParametersFit' /\ EnableFits' /\ DisableFits'
    BY <1>1, <2>1
       DEF AdvInv, NoneFits, ParametersFit, EnableFits, DisableFits, NoneOrEnd
  <2>4. CallbackFits'
    BY <1>1, <2>1 DEF AdvInv, CallbackFits, HasEnd
  <2>5. CallsFit'
    BY <1>1, <1>2, <2>1 DEF AdvInv, CallsFit, AdvTypes
  <2>6. QED
    BY <1>2, <2>2, <2>3, <2>4, <2>5 DEF AdvInv
<1>4. CASE advCommands # <<>>
  <2>1. /\ Outstanding' = Outstanding /\ Head(advCommands') = Head(advCommands)
        /\ Outstanding # "none"
        /\ CommandsFit'
    <3>1. CASE startAdvQueueSize = 0 /\ \E d \in Start : advCommands = <<Dis(d)>>
      <4>1. PICK d \in Start : advCommands = <<Dis(d)>>
        BY <3>1
      <4>2. advCommands' = <<Dis(d), Par(starts')>>
        BY <1>1, <4>1, AppendTuple
      <4>3. isAdvertisingUserSet' /\ startAdvQueueSize' = 1
        BY <1>1, <3>1
      <4>4. CommandsFit'
        BY <4>2, <4>3 DEF CommandsFit
      <4>5. QED
        BY <4>1, <4>2, <4>4 DEF Outstanding, Dis
    <3>2. CASE /\ startAdvQueueSize = 1 /\ advCommands = <<Ena(starts), Dis(starts)>>
               /\ starts \in Start
      <4>1. advCommands' = <<Ena(starts), Dis(starts), Par(starts')>>
        BY <1>1, <3>2, AppendTuple
      <4>2. starts' - 1 = starts /\ startAdvQueueSize' = 2 /\ isAdvertisingUserSet'
        BY <1>1, <1>2, <3>2 DEF AdvTypes
      <4>3. CommandsFit'
        BY <3>2, <4>1, <4>2 DEF CommandsFit
      <4>4. QED
        BY <3>2, <4>1, <4>3 DEF Outstanding, Ena
    <3>3. QED
      BY <1>1, <1>4, <3>1, <3>2 DEF AdvInv, CommandsFit
  <2>2. NoneFits' /\ ParametersFit' /\ EnableFits' /\ DisableFits'
    BY <1>1, <2>1
       DEF AdvInv, NoneFits, ParametersFit, EnableFits, DisableFits, NoneOrEnd
  <2>3. CallbackFits'
    BY <1>1, <2>1 DEF AdvInv, CallbackFits, HasEnd
  <2>4. CallsFit'
    BY <1>1, <1>2, <2>1 DEF AdvInv, CallsFit, AdvTypes, CommandsFit
  <2>5. QED
    BY <1>2, <2>1, <2>2, <2>3, <2>4 DEF AdvInv
<1>5. QED
  BY <1>3, <1>4

LEMMA StopAdvertisingStep ==
  ASSUME AdvInv, StopsWait, StopAdvertising
  PROVE  AdvInv'
<1> USE DEF Start
<1>1. /\ isAdvertisingUserSet /\ ~isAdvertisingUserSet'
      /\ \A i \in DOMAIN advCommands : advCommands[i].op # "parameters"
      /\ advCommands' = Append(advCommands, Dis(starts))
      /\ UNCHANGED <<startAdvQueueSize, executed, advCallback, advertising, parameters, made,
                     refusals, advEvents, calls, killed, starts>>
  BY DEF StopAdvertising, advController, Dis, IsStarted, StopsWait
<1>2. AdvTypes /\ AdvTypes' /\ starts \in Start
  BY <1>1 DEF AdvInv, AdvTypes, StopAdvertising
<1>3. CASE advCommands = <<>>
  <2>1. /\ advCommands' = <<Dis(starts)>> /\ Outstanding = "none" /\ Outstanding' = "disable"
        /\ startAdvQueueSize = 0
    BY <1>1, <1>3, AppendTuple DEF Outstanding, Dis, AdvInv, CommandsFit
  <2>2. CommandsFit'
    BY <1>1, <1>2, <2>1 DEF CommandsFit
  <2>3. NoneFits' /\ ParametersFit' /\ EnableFits' /\ DisableFits'
    BY <1>1, <2>1
       DEF AdvInv, NoneFits, ParametersFit, EnableFits, DisableFits, NoneOrEnd
  <2>4. CallbackFits' /\ CallsFit'
    BY <1>1, <2>1 DEF AdvInv, CallbackFits, HasEnd, CallsFit
  <2>5. QED
    BY <1>2, <2>2, <2>3, <2>4 DEF AdvInv
<1>4. CASE advCommands # <<>>
  <2>1. /\ startAdvQueueSize = 1 /\ advCommands = <<Ena(starts)>>
    <3>1. advCommands # <<Par(starts)>>
      BY <1>1 DEF Par
    <3>2. \A d : advCommands # <<Dis(d), Par(starts)>>
      <4> SUFFICES ASSUME NEW d, advCommands = <<Dis(d), Par(starts)>>
                   PROVE  FALSE
        OBVIOUS
      <4>1. 2 \in DOMAIN advCommands /\ advCommands[2].op = "parameters"
        BY DEF Par
      <4>2. QED
        BY <1>1, <4>1
    <3>3. advCommands # <<Ena(starts - 1), Dis(starts - 1), Par(starts)>>
      <4> SUFFICES ASSUME advCommands = <<Ena(starts - 1), Dis(starts - 1), Par(starts)>>
                   PROVE  FALSE
        OBVIOUS
      <4>1. 3 \in DOMAIN advCommands /\ advCommands[3].op = "parameters"
        BY DEF Par
      <4>2. QED
        BY <1>1, <4>1
    <3>4. QED
      BY <1>1, <1>4, <3>1, <3>2, <3>3 DEF AdvInv, CommandsFit
  <2>2. /\ advCommands' = <<Ena(starts), Dis(starts)>> /\ Head(advCommands') = Head(advCommands)
        /\ Outstanding = "enable" /\ Outstanding' = "enable"
    BY <1>1, <2>1, AppendTuple DEF Outstanding, Ena
  <2>3. CommandsFit'
    BY <1>1, <1>2, <2>1, <2>2 DEF CommandsFit
  <2>4. NoneFits' /\ ParametersFit' /\ EnableFits' /\ DisableFits'
    BY <1>1, <2>2 DEF AdvInv, NoneFits, ParametersFit, EnableFits, DisableFits
  <2>5. CallbackFits' /\ CallsFit'
    BY <1>1, <2>2 DEF AdvInv, CallbackFits, HasEnd, CallsFit
  <2>6. QED
    BY <1>2, <2>3, <2>4, <2>5 DEF AdvInv
<1>5. QED
  BY <1>3, <1>4

-----------------------------------------------------------------------------
(* The host. *)

\* Only an answer heads the events when one is handled, so that its command was executed.
LEMMA AnswerIsExecuted ==
  ASSUME AdvInv, NEW status \in Status, Answered(status)
  PROVE  /\ executed /\ Outstanding # "none"
         /\ \/ advEvents = <<AnswerTo(status)>> /\ advEvents' = <<>>
            \/ \E k \in EndKind : advEvents = <<AnswerTo(status), End(k)>> /\ advEvents' = <<End(k)>>
<1>1. /\ advEvents # <<>> /\ Head(advEvents).what = "answer" /\ Head(advEvents).status = status
      /\ advEvents' = Tail(advEvents)
  BY DEF Answered
<1>2. Outstanding \in {"none", "parameters", "enable", "disable"}
  BY DEF AdvInv, CommandsFit, Outstanding, Par, Ena, Dis
<1>3. ~NoneOrEnd
  BY <1>1 DEF NoneOrEnd, End, EndKind
<1>4. executed /\ Outstanding # "none"
  BY <1>1, <1>2, <1>3 DEF AdvInv, NoneFits, ParametersFit, EnableFits, DisableFits
<1>5. \E st \in Status :
        \/ advEvents = <<AnswerTo(st)>>
        \/ \E k \in EndKind : \/ advEvents = <<End(k), AnswerTo(st)>>
                              \/ advEvents = <<AnswerTo(st), End(k)>>
  BY <1>2, <1>4 DEF AdvInv, ParametersFit, EnableFits, DisableFits, Status
<1>6. PICK st \in Status :
        \/ advEvents = <<AnswerTo(st)>>
        \/ \E k \in EndKind : \/ advEvents = <<End(k), AnswerTo(st)>>
                              \/ advEvents = <<AnswerTo(st), End(k)>>
  BY <1>5
<1>7. CASE advEvents = <<AnswerTo(st)>>
  BY <1>1, <1>4, <1>7 DEF AnswerTo
<1>8. ASSUME NEW k \in EndKind, advEvents = <<End(k), AnswerTo(st)>>
      PROVE  FALSE
  BY <1>1, <1>8 DEF End, EndKind
<1>9. ASSUME NEW k \in EndKind, advEvents = <<AnswerTo(st), End(k)>>
      PROVE  advEvents = <<AnswerTo(status), End(k)>> /\ advEvents' = <<End(k)>>
  BY <1>1, <1>9 DEF AnswerTo
<1>10. QED
  BY <1>4, <1>6, <1>7, <1>8, <1>9

\* The start whose command is answered was not told anything before.
LEMMA OutstandingStart ==
  ASSUME AdvInv, Outstanding \in {"parameters", "enable"}
  PROVE  /\ Head(advCommands).start = starts - startAdvQueueSize + 1
         /\ Head(advCommands).start \in Start
         /\ calls[Head(advCommands).start] = <<>> /\ Head(advCommands).start # advCallback
         /\ startAdvQueueSize \in {1, 2} /\ starts \in Start
<1> USE DEF Start
<1>1. AdvTypes /\ starts \in Nat
  BY DEF AdvInv, AdvTypes
<1>2. /\ startAdvQueueSize \in {1, 2} /\ starts \in Start
      /\ Head(advCommands).start = starts - startAdvQueueSize + 1
      /\ Head(advCommands).start \in Start
  <2>1. CASE advCommands = <<>> \/ \E d : advCommands = <<Dis(d)>>
    BY <2>1 DEF Outstanding, Dis
  <2>2. CASE /\ startAdvQueueSize = 1 /\ advCommands = <<Ena(starts), Dis(starts)>>
             /\ starts \in Start
    <3>1. Head(advCommands).start = starts
      BY <2>2 DEF Ena
    <3>2. QED
      BY <1>1, <2>2, <3>1
  <2>3. CASE /\ startAdvQueueSize = 1 /\ isAdvertisingUserSet
             /\ advCommands = <<Par(starts)>> \/ advCommands = <<Ena(starts)>>
    <3>1. Head(advCommands).start = starts
      BY <2>3 DEF Ena, Par
    <3>2. QED
      BY <1>1, <2>3, <3>1 DEF AdvTypes
  <2>4. CASE \E d \in Start : advCommands = <<Dis(d), Par(starts)>>
    BY <2>4 DEF Outstanding, Dis
  <2>5. CASE /\ startAdvQueueSize = 2 /\ isAdvertisingUserSet /\ starts - 1 \in Start
             /\ advCommands = <<Ena(starts - 1), Dis(starts - 1), Par(starts)>>
    <3>1. Head(advCommands).start = starts - 1
      BY <2>5 DEF Ena
    <3>2. QED
      BY <1>1, <2>5, <3>1 DEF AdvTypes
  <2>6. QED
    BY <2>1, <2>2, <2>3, <2>4, <2>5 DEF AdvInv, CommandsFit
<1>3. Head(advCommands).start + startAdvQueueSize > starts
  BY <1>1, <1>2
<1>4. QED
  BY <1>2, <1>3 DEF AdvInv, CallsFit

LEMMA ParametersAnsweredStep ==
  ASSUME AdvInv, ParametersAnswered
  PROVE  AdvInv'
<1> USE DEF Start
<1>1. Outstanding = "parameters" /\ AdvTypes
  BY DEF ParametersAnswered, Outstanding, AdvInv
<1>2. /\ Head(advCommands).start = starts /\ starts \in Start /\ calls[starts] = <<>>
      /\ starts # advCallback /\ startAdvQueueSize = 1 /\ advCommands = <<Par(starts)>>
  <2>1. startAdvQueueSize = 1 /\ advCommands = <<Par(starts)>>
    BY <1>1 DEF AdvInv, CommandsFit, Outstanding, Par, Ena, Dis
  <2>2. starts \in Nat /\ starts - 1 + 1 = starts
    BY <1>1 DEF AdvTypes
  <2>3. QED
    BY <1>1, <2>1, <2>2, OutstandingStart
<1>3. UNCHANGED <<advCallback, advertising, parameters, made, refusals, killed, starts>> /\ ~advertising
  BY <1>1 DEF ParametersAnswered, advController, AdvInv, ParametersFit
<1>4. ASSUME NEW status \in Status, Answered(status)
      PROVE  /\ executed /\ ~executed' /\ advEvents' = <<>>
             /\ status = "ok" => parameters = starts
  <2>1. /\ executed /\ executed' = FALSE
        /\ \/ advEvents = <<AnswerTo(status)>> /\ advEvents' = <<>>
           \/ \E k \in EndKind : advEvents = <<AnswerTo(status), End(k)>> /\ advEvents' = <<End(k)>>
    BY <1>4, AnswerIsExecuted DEF Answered
  <2>2. PICK st \in Status :
          /\ \/ advEvents = <<AnswerTo(st)>>
             \/ \E k \in EndKind : advEvents = <<End(k), AnswerTo(st)>>
          /\ st = "ok" => parameters = starts
    BY <1>1, <1>2, <2>1 DEF AdvInv, ParametersFit
  <2>3. \A k : advEvents # <<AnswerTo(status), End(k)>>
    BY <2>2 DEF AnswerTo, End, EndKind
  <2>4. advEvents = <<AnswerTo(status)>> /\ st = status
    BY <2>1, <2>2, <2>3 DEF AnswerTo, End, EndKind
  <2>5. QED
    BY <2>1, <2>2, <2>3, <2>4
<1>5. CASE Answered("ok")
  <2>1. /\ advCommands' = Append(Tail(advCommands), [Head(advCommands) EXCEPT !.op = "enable"])
        /\ UNCHANGED <<isAdvertisingUserSet, startAdvQueueSize, calls>>
    BY <1>5 DEF ParametersAnswered, Answered
  <2>2. /\ advCommands' = <<Ena(starts)>>
        /\ executed' = FALSE /\ advEvents' = <<>> /\ parameters' = starts /\ ~advertising'
    <3>1. Tail(advCommands) = <<>> /\ [Head(advCommands) EXCEPT !.op = "enable"] = Ena(starts)
      BY <1>2 DEF Par, Ena
    <3>2. "ok" \in Status /\ executed' = FALSE
      BY <1>5 DEF Status, Answered
    <3>3. QED
      BY <1>3, <1>4, <1>5, <2>1, <3>1, <3>2, AppendTuple
  <2>3. Outstanding' = "enable" /\ Head(advCommands').start = starts'
    BY <1>3, <2>2 DEF Outstanding, Ena
  <2>4. AdvTypes' /\ CommandsFit'
    <3>1. isAdvertisingUserSet
      BY <1>1, <1>2 DEF AdvInv, CommandsFit, Outstanding, Par, Ena, Dis
    <3>2. QED
      BY <1>1, <1>2, <1>3, <2>1, <2>2, <3>1 DEF AdvTypes, CommandsFit
  <2>5. NoneFits' /\ ParametersFit' /\ EnableFits' /\ DisableFits'
    BY <1>3, <2>2, <2>3 DEF NoneFits, ParametersFit, EnableFits, DisableFits
  <2>6. ~HasEnd'
    BY <2>2 DEF HasEnd
  <2>7. CallbackFits' /\ CallsFit'
    BY <1>3, <2>1, <2>2, <2>3, <2>6 DEF AdvInv, CallbackFits, CallsFit
  <2>8. QED
    BY <2>4, <2>5, <2>7 DEF AdvInv
<1>6. CASE Answered("refused")
  <2>1. advCommands' = Tail(advCommands) /\ Fails(starts)
    BY <1>2, <1>6 DEF ParametersAnswered, Answered
  <2>2. /\ advCommands' = <<>> /\ startAdvQueueSize' = 0 /\ isAdvertisingUserSet' = FALSE
        /\ calls' = [calls EXCEPT ![starts] = <<"failed">>]
    BY <1>2, <2>1, AppendTuple DEF Fails, FlagAfter
  <2>3. advEvents' = <<>> /\ executed' = FALSE /\ ~advertising'
    BY <1>3, <1>4, <1>6 DEF Status, Answered
  <2>4. Outstanding' = "none"
    BY <2>2 DEF Outstanding
  <2>5. AdvTypes'
    <3>1. <<"failed">> \in Seq(Told)
      BY ToldSeq DEF Told
    <3>2. QED
      BY <1>1, <1>2, <1>3, <2>2, <2>3, <3>1 DEF AdvTypes
  <2>6. CommandsFit' /\ NoneFits' /\ ParametersFit' /\ EnableFits' /\ DisableFits'
    BY <2>2, <2>3, <2>4
       DEF CommandsFit, NoneFits, ParametersFit, EnableFits, DisableFits, NoneOrEnd
  <2>7. ~HasEnd'
    BY <2>3 DEF HasEnd
  <2>8. CallbackFits'
    BY <1>1, <1>2, <1>3, <2>2, <2>7 DEF AdvInv, AdvTypes, CallbackFits
  <2>9. CallsFit'
    BY <1>1, <1>2, <1>3, <2>2 DEF AdvInv, AdvTypes, CallsFit
  <2>10. QED
    BY <2>5, <2>6, <2>8, <2>9 DEF AdvInv
<1>7. QED
  BY <1>5, <1>6 DEF ParametersAnswered

LEMMA EnableAnsweredStep ==
  ASSUME AdvInv, EnableAnswered
  PROVE  AdvInv'
<1> USE DEF Start
<1> DEFINE s == Head(advCommands).start
<1>1. Outstanding = "enable" /\ AdvTypes /\ starts \in Nat
  BY DEF EnableAnswered, Outstanding, AdvInv, AdvTypes
<1>2. /\ s = starts - startAdvQueueSize + 1 /\ s \in Start /\ calls[s] = <<>> /\ s # advCallback
      /\ startAdvQueueSize \in {1, 2} /\ starts \in Start /\ parameters = s
  BY <1>1, OutstandingStart DEF AdvInv, EnableFits
<1>3. /\ UNCHANGED <<advertising, parameters, made, refusals, killed, starts>>
      /\ advCommands' = Tail(advCommands)
  BY DEF EnableAnswered, advController
<1>4. PICK status \in Status :
        /\ Answered(status)
        /\ advCallback' = CallbackAfter(s, status)
        /\ IF status = "ok"
           THEN /\ startAdvQueueSize' = startAdvQueueSize - 1
                /\ UNCHANGED <<isAdvertisingUserSet, calls>>
           ELSE Fails(s)
  BY DEF EnableAnswered, Status
<1>5. executed' = FALSE /\ startAdvQueueSize' = startAdvQueueSize - 1
  BY <1>4 DEF Answered, Fails
<1>6. \/ status = "ok" /\ advEvents' = <<>> /\ advertising
      \/ /\ status = "ok" /\ \E k \in EndKind : advEvents' = <<End(k)>>
         /\ ~advertising /\ parameters \in made
      \/ status = "refused" /\ advEvents' = <<>> /\ ~advertising
  <2>1. /\ executed
        /\ \/ advEvents = <<AnswerTo(status)>> /\ advEvents' = <<>>
           \/ \E k \in EndKind : advEvents = <<AnswerTo(status), End(k)>> /\ advEvents' = <<End(k)>>
    BY <1>4, AnswerIsExecuted
  <2>2. \/ advEvents = <<AnswerTo("ok")>> /\ advertising
        \/ /\ \E k \in EndKind : advEvents = <<AnswerTo("ok"), End(k)>>
           /\ ~advertising /\ parameters \in made
        \/ advEvents = <<AnswerTo("refused")>> /\ ~advertising
    BY <1>1, <2>1 DEF AdvInv, EnableFits
  <2>3. CASE advEvents = <<AnswerTo("ok")>> /\ advertising
    <3>1. status = "ok" /\ \A k : advEvents # <<AnswerTo(status), End(k)>>
      BY <2>1, <2>3 DEF AnswerTo
    <3>2. QED
      BY <2>1, <2>3, <3>1
  <2>4. CASE advEvents = <<AnswerTo("refused")>> /\ ~advertising
    <3>1. status = "refused" /\ \A k : advEvents # <<AnswerTo(status), End(k)>>
      BY <2>1, <2>4 DEF AnswerTo
    <3>2. QED
      BY <2>1, <2>4, <3>1
  <2>5. CASE /\ \E k \in EndKind : advEvents = <<AnswerTo("ok"), End(k)>>
             /\ ~advertising /\ parameters \in made
    <3>1. status = "ok" /\ advEvents # <<AnswerTo(status)>>
      BY <2>1, <2>5 DEF AnswerTo
    <3>2. QED
      BY <2>1, <2>5, <3>1
  <2>6. QED
    BY <2>2, <2>3, <2>4, <2>5
<1>7. \/ /\ status = "ok" /\ advCallback' = s
         /\ UNCHANGED <<isAdvertisingUserSet, calls>>
      \/ /\ status = "refused" /\ advCallback' = advCallback
         /\ isAdvertisingUserSet' = FlagAfter(startAdvQueueSize - 1)
         /\ calls' = [calls EXCEPT ![s] = <<"failed">>]
  BY <1>2, <1>4, AppendTuple DEF Status, CallbackAfter, Fails
<1>8. AdvTypes' /\ calls' \in [Start -> Seq(Told)]
  <2>1. <<"failed">> \in Seq(Told)
    BY ToldSeq DEF Told
  <2>2. isAdvertisingUserSet' \in BOOLEAN
    BY <1>1, <1>7 DEF AdvTypes, FlagAfter
  <2>3. calls' \in [Start -> Seq(Told)]
    BY <1>1, <1>2, <1>7, <2>1 DEF AdvTypes
  <2>4. advCallback' \in 0 .. MaxStarts
    BY <1>1, <1>2, <1>7 DEF AdvTypes
  <2>5. QED
    BY <1>1, <1>2, <1>3, <1>5, <1>7, <2>2, <2>3, <2>4 DEF AdvTypes
<1>9. ASSUME startAdvQueueSize = 1, ~isAdvertisingUserSet, advCommands = <<Ena(starts), Dis(starts)>>
      PROVE  /\ Outstanding' # "enable" /\ CommandsFit'
             /\ NoneFits' /\ ParametersFit' /\ EnableFits' /\ DisableFits'
  <2>1. startAdvQueueSize' = 0 /\ ~isAdvertisingUserSet' /\ advCommands' = <<Dis(starts)>>
    <3>1. startAdvQueueSize' = 0 /\ advCommands' = <<Dis(starts)>>
      BY <1>3, <1>5, <1>9
    <3>2. ~FlagAfter(startAdvQueueSize - 1)
      BY <1>9 DEF FlagAfter
    <3>3. QED
      BY <1>7, <1>9, <3>1, <3>2
  <2>2. Outstanding' = "disable"
    BY <2>1 DEF Outstanding, Dis
  <2>3. CommandsFit'
    BY <1>2, <2>1 DEF CommandsFit
  <2>4. NoneFits' /\ ParametersFit' /\ EnableFits' /\ DisableFits'
    BY <1>5, <1>6, <2>2
       DEF NoneFits, ParametersFit, EnableFits, DisableFits, NoneOrEnd
  <2>5. QED
    BY <2>1, <2>2, <2>3, <2>4
<1>10. ASSUME startAdvQueueSize = 1, isAdvertisingUserSet, advCommands = <<Ena(starts)>>
       PROVE  /\ Outstanding' # "enable" /\ CommandsFit'
              /\ NoneFits' /\ ParametersFit' /\ EnableFits' /\ DisableFits'
  <2>1. /\ startAdvQueueSize' = 0 /\ advCommands' = <<>>
        /\ isAdvertisingUserSet' <=> status = "ok"
    <3>1. startAdvQueueSize' = 0 /\ advCommands' = <<>>
      BY <1>3, <1>5, <1>10
    <3>2. ~FlagAfter(startAdvQueueSize - 1) /\ "ok" # "refused"
      BY <1>10 DEF FlagAfter
    <3>3. QED
      BY <1>7, <1>10, <3>1, <3>2
  <2>2. Outstanding' = "none"
    BY <2>1 DEF Outstanding
  <2>3. CommandsFit'
    BY <2>1 DEF CommandsFit
  <2>4. advEvents' # <<>> \/ advertising' \/ ~isAdvertisingUserSet'
    <3>1. \A k : <<End(k)>> # <<>>
      OBVIOUS
    <3>2. QED
      BY <1>3, <1>6, <2>1, <3>1
  <2>5. NoneFits' /\ ParametersFit' /\ EnableFits' /\ DisableFits'
    BY <1>3, <1>5, <1>6, <2>1, <2>2, <2>4
       DEF NoneFits, ParametersFit, EnableFits, DisableFits, NoneOrEnd
  <2>6. QED
    BY <2>1, <2>2, <2>3, <2>5
<1>11. ASSUME startAdvQueueSize = 2, isAdvertisingUserSet, starts - 1 \in Start,
              advCommands = <<Ena(starts - 1), Dis(starts - 1), Par(starts)>>
       PROVE  /\ Outstanding' # "enable" /\ CommandsFit'
              /\ NoneFits' /\ ParametersFit' /\ EnableFits' /\ DisableFits'
  <2>1. /\ startAdvQueueSize' = 1 /\ isAdvertisingUserSet'
        /\ advCommands' = <<Dis(starts - 1), Par(starts)>>
    <3>1. startAdvQueueSize' = 1
      BY <1>5, <1>11
    <3>2. advCommands' = <<Dis(starts - 1), Par(starts)>>
      BY <1>3, <1>11
    <3>3. FlagAfter(startAdvQueueSize - 1) = isAdvertisingUserSet
      BY <1>11 DEF FlagAfter
    <3>4. QED
      BY <1>7, <1>11, <3>1, <3>2, <3>3
  <2>2. Outstanding' = "disable"
    BY <2>1 DEF Outstanding, Dis
  <2>3. CommandsFit'
    BY <1>3, <1>11, <2>1 DEF CommandsFit
  <2>4. NoneFits' /\ ParametersFit' /\ EnableFits' /\ DisableFits'
    BY <1>5, <1>6, <2>2
       DEF NoneFits, ParametersFit, EnableFits, DisableFits, NoneOrEnd
  <2>5. QED
    BY <2>1, <2>2, <2>3, <2>4
<1>12. /\ Outstanding' # "enable" /\ CommandsFit'
       /\ NoneFits' /\ ParametersFit' /\ EnableFits' /\ DisableFits'
  <2>1. advCommands # <<Par(starts)>> /\ \A d : advCommands # <<Dis(d), Par(starts)>> /\ advCommands # <<Dis(d)>>
    BY <1>1 DEF Outstanding, Par, Dis
  <2>2. advCommands # <<>>
    BY DEF EnableAnswered
  <2>3. QED
    BY <1>9, <1>10, <1>11, <2>1, <2>2 DEF AdvInv, CommandsFit
<1>13. CASE status = "ok"
  <2>1. advCallback' = s /\ UNCHANGED calls /\ s # 0
    BY <1>2, <1>7, <1>13
  <2>2. HasEnd' => parameters \in made /\ ~advertising
    BY <1>6, <1>13 DEF HasEnd
  <2>3. CallbackFits'
    BY <1>2, <1>3, <1>12, <2>1, <2>2 DEF CallbackFits
  <2>4. CallsFit'
    BY <1>1, <1>2, <1>3, <1>5, <2>1 DEF AdvInv, CallsFit
  <2>5. QED
    BY <1>8, <1>12, <2>3, <2>4 DEF AdvInv
<1>14. CASE status = "refused"
  <2>1. advCallback' = advCallback /\ calls' = [calls EXCEPT ![s] = <<"failed">>]
    BY <1>7, <1>14
  <2>2. ~HasEnd' /\ ~advertising
    BY <1>6, <1>14 DEF HasEnd
  <2>3. CallbackFits'
    BY <1>1, <1>2, <1>3, <2>1, <2>2 DEF AdvInv, AdvTypes, CallbackFits
  <2>4. CallsFit'
    BY <1>1, <1>2, <1>3, <1>5, <2>1 DEF AdvInv, AdvTypes, CallsFit
  <2>5. QED
    BY <1>8, <1>12, <2>3, <2>4 DEF AdvInv
<1>15. QED
  BY <1>13, <1>14 DEF Status

LEMMA DisableAnsweredStep ==
  ASSUME AdvInv, DisableAnswered
  PROVE  AdvInv'
<1> USE DEF Start
<1>1. Outstanding = "disable" /\ AdvTypes
  BY DEF DisableAnswered, Outstanding, AdvInv
<1>2. /\ UNCHANGED <<isAdvertisingUserSet, startAdvQueueSize, advCallback, calls, killed, starts,
                     advertising, parameters, made, refusals>>
      /\ advCommands' = Tail(advCommands) /\ executed' = FALSE
  BY DEF DisableAnswered, advController, advHost, Answered
<1>3. /\ ~advertising /\ NoneOrEnd'
      /\ HasEnd' => HasEnd
  <2>1. PICK status \in Status : Answered(status)
    BY DEF DisableAnswered, Status
  <2>2. /\ executed
        /\ \/ advEvents = <<AnswerTo(status)>> /\ advEvents' = <<>>
           \/ \E k \in EndKind : advEvents = <<AnswerTo(status), End(k)>> /\ advEvents' = <<End(k)>>
    BY <2>1, AnswerIsExecuted
  <2>3. ~advertising
    BY <1>1, <2>2 DEF AdvInv, DisableFits
  <2>4. QED
    BY <2>2, <2>3 DEF NoneOrEnd, HasEnd
<1>4. \/ /\ startAdvQueueSize = 0 /\ ~isAdvertisingUserSet /\ advCommands' = <<>>
         /\ Outstanding' = "none"
      \/ /\ startAdvQueueSize = 1 /\ isAdvertisingUserSet /\ advCommands' = <<Par(starts)>>
         /\ Outstanding' = "parameters"
  <2>1. /\ advCommands # <<>> /\ advCommands # <<Par(starts)>> /\ advCommands # <<Ena(starts)>>
        /\ advCommands # <<Ena(starts), Dis(starts)>>
        /\ advCommands # <<Ena(starts - 1), Dis(starts - 1), Par(starts)>>
    BY <1>1 DEF Outstanding, Par, Ena
  <2>2. CASE /\ startAdvQueueSize = 0 /\ ~isAdvertisingUserSet
             /\ \E d \in Start : advCommands = <<Dis(d)>>
    BY <1>2, <2>2 DEF Outstanding
  <2>3. CASE /\ startAdvQueueSize = 1 /\ isAdvertisingUserSet
             /\ \E d \in Start : advCommands = <<Dis(d), Par(starts)>>
    BY <1>2, <2>3 DEF Outstanding, Par
  <2>4. QED
    BY <2>1, <2>2, <2>3 DEF AdvInv, CommandsFit
<1>5. AdvTypes'
  BY <1>1, <1>2 DEF AdvTypes
<1>6. CommandsFit'
  BY <1>2, <1>4 DEF CommandsFit
<1>7. NoneFits' /\ ParametersFit' /\ EnableFits' /\ DisableFits'
  <2>1. NoneOrEnd' /\ ~executed' /\ ~advertising'
    BY <1>2, <1>3
  <2>2. QED
    BY <1>2, <1>4, <2>1 DEF NoneFits, ParametersFit, EnableFits, DisableFits
<1>8. CallbackFits' /\ CallsFit'
  BY <1>1, <1>2, <1>3 DEF AdvInv, CallbackFits, CallsFit
<1>9. QED
  BY <1>5, <1>6, <1>7, <1>8 DEF AdvInv

LEMMA HandleLeConnectionCompleteStep ==
  ASSUME AdvInv, HandleLeConnectionComplete
  PROVE  AdvInv'
<1> USE DEF Start
<1> DEFINE kind == Head(advEvents).what
           s == advCallback
<1>1. AdvTypes /\ starts \in Nat /\ kind \in EndKind /\ advEvents # <<>>
  BY DEF HandleLeConnectionComplete, AdvInv, AdvTypes, EndKind
<1>2. /\ UNCHANGED <<startAdvQueueSize, advCommands, executed, advertising, parameters, made, refusals,
                     starts>>
      /\ advCallback' = 0 /\ advEvents' = Tail(advEvents)
      /\ Outstanding' = Outstanding
  BY DEF HandleLeConnectionComplete, advController, Outstanding
<1>3. Outstanding \in {"none", "parameters", "enable", "disable"}
  BY DEF AdvInv, CommandsFit, Outstanding, Par, Ena, Dis
<1>4. Outstanding # "enable"
  <2> SUFFICES ASSUME Outstanding = "enable"
               PROVE  FALSE
    OBVIOUS
  <2>1. \/ advEvents = <<>>
        \/ \E status \in Status : \/ advEvents = <<AnswerTo(status)>>
                                  \/ \E k \in EndKind : advEvents = <<AnswerTo(status), End(k)>>
    BY DEF AdvInv, AdvTypes, EnableFits, Status
  <2>2. QED
    BY <1>1, <2>1 DEF AnswerTo, EndKind
<1>5. \/ ~executed /\ advEvents = <<End(kind)>> /\ advEvents' = <<>>
      \/ /\ executed /\ Outstanding \in {"parameters", "disable"}
         /\ \E status \in Status : advEvents = <<End(kind), AnswerTo(status)>> /\ advEvents' = <<AnswerTo(status)>>
  <2>1. CASE ~executed
    <3>1. NoneOrEnd
      BY <1>3, <1>4, <2>1 DEF AdvInv, NoneFits, ParametersFit, DisableFits
    <3>2. PICK k \in EndKind : advEvents = <<End(k)>>
      BY <1>1, <3>1 DEF NoneOrEnd
    <3>3. k = kind /\ Tail(advEvents) = <<>>
      BY <3>2 DEF End
    <3>4. QED
      BY <1>2, <2>1, <3>2, <3>3
  <2>2. CASE executed
    <3>1. /\ Outstanding \in {"parameters", "disable"}
          /\ \E status \in Status :
               \/ advEvents = <<AnswerTo(status)>>
               \/ \E k \in EndKind : \/ advEvents = <<End(k), AnswerTo(status)>>
                                     \/ advEvents = <<AnswerTo(status), End(k)>>
      BY <1>3, <1>4, <2>2 DEF AdvInv, NoneFits, ParametersFit, DisableFits
    <3>2. PICK status \in Status :
               \/ advEvents = <<AnswerTo(status)>>
               \/ \E k \in EndKind : \/ advEvents = <<End(k), AnswerTo(status)>>
                                     \/ advEvents = <<AnswerTo(status), End(k)>>
      BY <3>1
    <3>3. PICK k \in EndKind : advEvents = <<End(k), AnswerTo(status)>>
      BY <1>1, <3>2 DEF AnswerTo, EndKind
    <3>4. k = kind /\ Tail(advEvents) = <<AnswerTo(status)>>
      BY <3>3 DEF End
    <3>5. QED
      BY <1>2, <2>2, <3>1, <3>3, <3>4
  <2>3. QED
    BY <2>1, <2>2
<1>6. HasEnd /\ ~HasEnd'
  <2>1. HasEnd
    BY <1>1, <1>5 DEF HasEnd
  <2>2. ASSUME advEvents' = <<>>
        PROVE  ~HasEnd'
    BY <2>2 DEF HasEnd
  <2>3. ASSUME NEW status \in Status, advEvents' = <<AnswerTo(status)>>
        PROVE  ~HasEnd'
    BY <2>3 DEF HasEnd, AnswerTo, End, EndKind
  <2>4. QED
    BY <1>5, <2>1, <2>2, <2>3
<1>7. /\ s \in Start /\ s \in made /\ calls[s] = <<>> /\ ~advertising
  BY <1>1, <1>4, <1>6 DEF AdvInv, AdvTypes, CallbackFits
<1>8. /\ isAdvertisingUserSet' = FlagAfter(startAdvQueueSize) /\ UNCHANGED killed
      /\ calls' = [calls EXCEPT ![s] = <<kind>>]
  <2>1. calls' = [calls EXCEPT ![s] = Append(@, kind)]
    BY <1>7 DEF HandleLeConnectionComplete
  <2>2. calls' = [calls EXCEPT ![s] = <<kind>>]
    BY <1>7, <2>1, AppendTuple
  <2>3. s # 0
    BY <1>7
  <2>4. QED
    BY <2>2, <2>3 DEF HandleLeConnectionComplete
<1>9. IF startAdvQueueSize = 0 THEN ~isAdvertisingUserSet' ELSE UNCHANGED isAdvertisingUserSet
  BY <1>8 DEF FlagAfter
<1>10. AdvTypes'
  <2>1. <<kind>> \in Seq(Told)
    BY <1>1, ToldSeq DEF Told
  <2>2. calls' \in [Start -> Seq(Told)]
    BY <1>1, <1>8, <2>1 DEF AdvTypes
  <2>3. 0 \in 0 .. MaxStarts
    BY AdvertisingAssumption
  <2>4. isAdvertisingUserSet' \in BOOLEAN /\ (isAdvertisingUserSet' => isAdvertisingUserSet)
    BY <1>1, <1>9, <1>8 DEF AdvTypes, FlagAfter
  <2>5. QED
    BY <1>1, <1>2, <2>2, <2>3, <2>4 DEF AdvTypes
<1>11. CommandsFit'
  <2>1. CommandsFit
    BY DEF AdvInv
  <2>2. CASE startAdvQueueSize = 0
    BY <1>2, <1>9, <2>1, <2>2 DEF CommandsFit
  <2>3. CASE startAdvQueueSize # 0
    BY <1>2, <1>9, <2>1, <2>3 DEF CommandsFit
  <2>4. QED
    BY <2>2, <2>3
<1>12. Outstanding = "none" => ~isAdvertisingUserSet'
  <2>1. Outstanding = "none" => advCommands = <<>>
    BY DEF AdvInv, CommandsFit, Outstanding, Par, Ena, Dis
  <2>2. advCommands = <<>> => startAdvQueueSize = 0
    BY DEF AdvInv, CommandsFit
  <2>3. QED
    BY <1>9, <2>1, <2>2
<1>13. NoneFits' /\ ParametersFit' /\ EnableFits' /\ DisableFits'
  <2>1. ~executed => advEvents' = <<>> /\ NoneOrEnd'
    BY <1>5 DEF NoneOrEnd
  <2>2. NoneFits' /\ EnableFits'
    BY <1>2, <1>4, <1>7, <1>12, <2>1 DEF AdvInv, NoneFits, EnableFits
  <2>3. ASSUME Outstanding = "parameters"
        PROVE  ParametersFit'
    <3>1. ASSUME executed
          PROVE  \E status \in Status :
                   advEvents' = <<AnswerTo(status)>> /\ (status = "ok" => parameters = Head(advCommands).start)
      <4>1. PICK status \in Status : /\ advEvents = <<End(kind), AnswerTo(status)>>
                                     /\ advEvents' = <<AnswerTo(status)>>
        BY <1>5, <3>1
      <4>2. PICK st \in Status :
              /\ \/ advEvents = <<AnswerTo(st)>>
                 \/ \E k \in EndKind : advEvents = <<End(k), AnswerTo(st)>>
              /\ st = "ok" => parameters = Head(advCommands).start
        BY <2>3, <3>1 DEF AdvInv, ParametersFit
      <4>3. st = status
        BY <4>1, <4>2 DEF AnswerTo
      <4>4. QED
        BY <4>1, <4>2, <4>3
    <3>2. QED
      BY <1>2, <1>7, <2>1, <3>1 DEF ParametersFit
  <2>4. DisableFits'
    BY <1>2, <1>5, <1>7, <2>1 DEF DisableFits
  <2>5. QED
    BY <1>2, <2>2, <2>3, <2>4 DEF ParametersFit
<1>14. CallbackFits'
  BY <1>2, <1>6, <1>7 DEF CallbackFits
<1>15. CallsFit'
  <2>1. ASSUME NEW t \in Start
        PROVE  /\ Len(calls'[t]) <= 1
               /\ \A i \in DOMAIN calls'[t] : calls'[t][i] # "failed" => t \in made'
    BY <1>1, <1>2, <1>7, <1>8, <2>1 DEF AdvInv, AdvTypes, CallsFit
  <2>2. ASSUME NEW t \in Start, t + startAdvQueueSize' > starts'
        PROVE  calls'[t] = <<>> /\ t # 0
    BY <1>1, <1>2, <1>8, <2>2 DEF AdvInv, AdvTypes, CallsFit
  <2>3. QED
    BY <1>2, <1>8, <2>1, <2>2 DEF AdvInv, CallsFit
<1>16. QED
  BY <1>10, <1>11, <1>13, <1>14, <1>15 DEF AdvInv

-----------------------------------------------------------------------------
(* The controller. *)

LEMMA AdvExecuteStep ==
  ASSUME AdvInv, NEW refuse \in BOOLEAN, AdvExecute(refuse)
  PROVE  AdvInv'
<1> USE DEF Start
<1> DEFINE c == Head(advCommands)
           refused == refuse \/ (c.op = "parameters" /\ advertising)
           status == IF refused THEN "refused" ELSE "ok"
<1>1. /\ AdvTypes /\ advCommands # <<>> /\ ~executed
      /\ Outstanding = c.op
  BY DEF AdvInv, AdvExecute, Outstanding
<1>2. /\ UNCHANGED <<isAdvertisingUserSet, startAdvQueueSize, advCallback, calls, killed, starts,
                     advCommands, made>>
      /\ executed' = TRUE /\ Outstanding' = Outstanding
      /\ advEvents' = Append(advEvents, AnswerTo(status))
      /\ parameters' = IF c.op = "parameters" /\ ~refused THEN c.start ELSE parameters
      /\ advertising' = CASE refused \/ c.op = "parameters" -> advertising
                          [] ~refused /\ c.op = "enable" -> TRUE
                          [] OTHER -> FALSE
      /\ refuse => c.op # "disable"
  BY DEF AdvExecute, advHost, Outstanding, AnswerTo
<1>3. c.op \in {"parameters", "enable", "disable"} /\ status \in Status
  BY <1>1 DEF AdvInv, CommandsFit, Par, Ena, Dis, Status
<1>4. CommandsFit'
  BY <1>2 DEF AdvInv, CommandsFit
<1>5. ASSUME NoneOrEnd
      PROVE  /\ \/ advEvents' = <<AnswerTo(status)>>
                \/ \E k \in EndKind : advEvents' = <<End(k), AnswerTo(status)>>
             /\ HasEnd' => HasEnd
  <2>1. CASE advEvents = <<>>
    <3>1. advEvents' = <<AnswerTo(status)>>
      BY <1>2, <2>1, AppendTuple
    <3>2. ~HasEnd'
      BY <3>1 DEF HasEnd, AnswerTo, End, EndKind
    <3>3. QED
      BY <3>1, <3>2
  <2>2. ASSUME NEW k \in EndKind, advEvents = <<End(k)>>
        PROVE  advEvents' = <<End(k), AnswerTo(status)>> /\ HasEnd
    BY <1>2, <2>2, AppendTuple DEF HasEnd
  <2>3. QED
    BY <1>5, <2>1, <2>2 DEF NoneOrEnd
<1>6. CASE c.op = "parameters"
  <2>1. NoneOrEnd /\ ~advertising /\ c.start \in Start
    BY <1>1, <1>6, OutstandingStart DEF AdvInv, ParametersFit
  <2>2. ~advertising' /\ (status = "ok" => parameters' = c.start)
    BY <1>2, <1>6, <2>1
  <2>3. AdvTypes'
    <3>1. parameters' \in {parameters, c.start} /\ advertising' = advertising
      BY <1>2, <1>6, <2>1
    <3>2. parameters' \in Nat /\ advertising' \in BOOLEAN
      BY <1>1, <2>1, <3>1 DEF AdvTypes
    <3>3. QED
      BY <1>1, <1>2, <3>2 DEF AdvTypes
  <2>4. NoneFits' /\ ParametersFit' /\ EnableFits' /\ DisableFits'
    <3>1. NoneFits' /\ EnableFits' /\ DisableFits'
      BY <1>1, <1>2, <1>6 DEF NoneFits, EnableFits, DisableFits
    <3>2. ParametersFit'
      BY <1>2, <1>3, <1>5, <2>1, <2>2 DEF ParametersFit
    <3>3. QED
      BY <3>1, <3>2
  <2>5. CallbackFits' /\ CallsFit'
    BY <1>1, <1>2, <1>5, <1>6, <2>1, <2>2 DEF AdvInv, CallbackFits, CallsFit
  <2>6. QED
    BY <1>4, <2>3, <2>4, <2>5 DEF AdvInv
<1>7. CASE c.op = "enable"
  <2>1. advEvents = <<>> /\ ~advertising /\ c.start \in Start /\ parameters = c.start
    BY <1>1, <1>7, OutstandingStart DEF AdvInv, EnableFits
  <2>2. /\ advEvents' = <<AnswerTo(status)>> /\ parameters' = parameters
        /\ advertising' \in BOOLEAN /\ (advertising' <=> ~refused) /\ ~HasEnd'
    <3>1. advEvents' = <<AnswerTo(status)>>
      BY <1>2, <2>1, AppendTuple
    <3>2. ~HasEnd'
      BY <3>1 DEF HasEnd, AnswerTo, End, EndKind
    <3>3. parameters' = parameters
      BY <1>2, <1>7
    <3>4. advertising' \in BOOLEAN /\ (advertising' <=> ~refused)
      <4>1. refused => advertising' = advertising
        BY <1>2
      <4>2. ~refused => advertising' = TRUE
        BY <1>2, <1>7
      <4>3. advertising \in BOOLEAN
        BY <1>1 DEF AdvTypes
      <4> HIDE DEF refused
      <4>4. CASE refused
        BY <2>1, <4>1, <4>3, <4>4
      <4>5. CASE ~refused
        BY <4>2, <4>5
      <4>6. QED
        BY <4>4, <4>5
    <3>5. QED
      BY <3>1, <3>2, <3>3, <3>4
  <2>3. AdvTypes'
    BY <1>1, <1>2, <2>1, <2>2 DEF AdvTypes
  <2>4. NoneFits' /\ ParametersFit' /\ EnableFits' /\ DisableFits'
    BY <1>1, <1>2, <1>7, <2>1, <2>2
       DEF NoneFits, ParametersFit, EnableFits, DisableFits
  <2>5. CallbackFits' /\ CallsFit'
    BY <1>1, <1>2, <1>7, <2>1, <2>2 DEF AdvInv, CallbackFits, CallsFit
  <2>6. QED
    BY <1>4, <2>3, <2>4, <2>5 DEF AdvInv
<1>8. CASE c.op = "disable"
  <2>1. NoneOrEnd /\ ~refused
    BY <1>1, <1>2, <1>8 DEF AdvInv, DisableFits
  <2>2. ~advertising' /\ parameters' = parameters
    BY <1>2, <1>8, <2>1
  <2>3. AdvTypes'
    BY <1>1, <1>2, <2>2 DEF AdvTypes
  <2>4. NoneFits' /\ ParametersFit' /\ EnableFits' /\ DisableFits'
    <3>1. NoneFits' /\ EnableFits' /\ ParametersFit'
      BY <1>1, <1>2, <1>8 DEF NoneFits, EnableFits, ParametersFit
    <3>2. DisableFits'
      BY <1>2, <1>3, <1>5, <2>1, <2>2 DEF DisableFits
    <3>3. QED
      BY <3>1, <3>2
  <2>5. CallbackFits' /\ CallsFit'
    BY <1>1, <1>2, <1>5, <1>8, <2>1, <2>2 DEF AdvInv, CallbackFits, CallsFit
  <2>6. QED
    BY <1>4, <2>3, <2>4, <2>5 DEF AdvInv
<1>9. QED
  BY <1>3, <1>6, <1>7, <1>8

LEMMA EndsStep ==
  ASSUME AdvInv, NEW what \in EndKind, Ends(what)
  PROVE  AdvInv'
<1> USE DEF Start
<1>1. /\ AdvTypes /\ advertising /\ ~advertising' /\ advertising' = FALSE
      /\ advEvents' = Append(advEvents, End(what)) /\ made' = made \cup {parameters}
      /\ UNCHANGED <<isAdvertisingUserSet, startAdvQueueSize, advCallback, calls, killed, starts,
                     advCommands, executed, parameters, refusals>>
      /\ Outstanding' = Outstanding
  BY DEF AdvInv, Ends, End, advHost, Outstanding
<1>2. Outstanding \in {"none", "parameters", "enable", "disable"}
  BY DEF AdvInv, CommandsFit, Outstanding, Par, Ena, Dis
<1>3. parameters \in Start /\ ~HasEnd /\ (Outstanding # "enable" => advCallback = parameters)
  BY <1>1 DEF AdvInv, CallbackFits
<1>4. AdvTypes' /\ CommandsFit'
  BY <1>1, <1>3 DEF AdvInv, AdvTypes, CommandsFit
<1>5. \/ advEvents = <<>> /\ advEvents' = <<End(what)>> /\ ~executed /\ Outstanding \in {"none", "disable"}
      \/ /\ Outstanding = "enable" /\ executed /\ advEvents = <<AnswerTo("ok")>>
         /\ advEvents' = <<AnswerTo("ok"), End(what)>>
  <2>1. CASE Outstanding = "enable"
    <3>1. executed /\ advEvents = <<AnswerTo("ok")>>
      BY <1>1, <2>1 DEF AdvInv, EnableFits
    <3>2. QED
      BY <1>1, <2>1, <3>1, AppendTuple
  <2>2. CASE Outstanding # "enable"
    <3>1. ~executed /\ NoneOrEnd /\ Outstanding \in {"none", "disable"}
      BY <1>1, <1>2, <2>2 DEF AdvInv, NoneFits, ParametersFit, DisableFits
    <3>2. advEvents = <<>>
      BY <1>3, <3>1 DEF NoneOrEnd, HasEnd
    <3>3. QED
      BY <1>1, <3>1, <3>2, AppendTuple
  <2>3. QED
    BY <2>1, <2>2
<1>6. NoneFits' /\ ParametersFit' /\ EnableFits' /\ DisableFits'
  <2>1. CASE Outstanding = "enable"
    <3>1. advEvents' = <<AnswerTo("ok"), End(what)>> /\ parameters \in made' /\ executed
      BY <1>1, <1>5, <2>1
    <3>2. QED
      BY <1>1, <2>1, <3>1 DEF AdvInv, NoneFits, ParametersFit, EnableFits, DisableFits
  <2>2. CASE Outstanding # "enable"
    <3>1. /\ advEvents' = <<End(what)>> /\ NoneOrEnd' /\ ~executed /\ advEvents' # <<>>
          /\ Outstanding \in {"none", "disable"}
      BY <1>5, <2>2 DEF NoneOrEnd
    <3>2. QED
      BY <1>1, <3>1 DEF AdvInv, NoneFits, ParametersFit, EnableFits, DisableFits
  <2>3. QED
    BY <2>1, <2>2
<1>7. CallbackFits' /\ CallsFit'
  <2>1. /\ Outstanding' # "enable" => advCallback' # 0 /\ advCallback' \in made'
    BY <1>1, <1>3
  <2>2. QED
    BY <1>1, <2>1 DEF AdvInv, CallbackFits, CallsFit
<1>8. QED
  BY <1>4, <1>6, <1>7 DEF AdvInv

LEMMA OvertakesStep ==
  ASSUME AdvInv, Overtakes
  PROVE  AdvInv'
<1> USE DEF Start
<1>1. PICK i \in DOMAIN advEvents :
        /\ i < Len(advEvents) /\ advEvents[i].what = "connected" /\ Head(advCommands).op = "disable"
        /\ advEvents[i + 1].what = "answer"
        /\ advEvents' = [advEvents EXCEPT ![i] = advEvents[i + 1], ![i + 1] = advEvents[i]]
  BY DEF Overtakes, IsDisabled
<1>2. /\ AdvTypes /\ Outstanding = "disable" /\ Outstanding' = Outstanding
      /\ UNCHANGED <<isAdvertisingUserSet, startAdvQueueSize, advCallback, calls, killed, starts,
                     advCommands, executed, advertising, parameters, made, refusals>>
  BY <1>1 DEF AdvInv, Overtakes, advHost, advController, Outstanding
<1>3. PICK k \in EndKind, status \in Status : executed /\ advEvents = <<End(k), AnswerTo(status)>>
  <2>1. CASE NoneOrEnd
    BY <1>1, <2>1 DEF NoneOrEnd
  <2>2. CASE \E st \in Status : advEvents = <<AnswerTo(st)>>
    BY <1>1, <2>2
  <2>3. CASE \E st \in Status, k \in EndKind : advEvents = <<AnswerTo(st), End(k)>>
    BY <1>1, <2>3 DEF AnswerTo
  <2>4. QED
    BY <1>2, <2>1, <2>2, <2>3 DEF AdvInv, AdvTypes, DisableFits
<1>4. advEvents' = <<AnswerTo(status), End(k)>> /\ HasEnd
  <2>1. i = 1
    BY <1>1, <1>3 DEF AnswerTo, End
  <2>2. advEvents' = <<AnswerTo(status), End(k)>>
    BY <1>1, <1>3, <2>1
  <2>3. QED
    BY <1>3, <2>2 DEF HasEnd
<1>5. AdvTypes' /\ CommandsFit'
  BY <1>2 DEF AdvInv, AdvTypes, CommandsFit
<1>6. NoneFits' /\ ParametersFit' /\ EnableFits' /\ DisableFits'
  BY <1>2, <1>3, <1>4 DEF AdvInv, NoneFits, ParametersFit, EnableFits, DisableFits
<1>7. CallbackFits' /\ CallsFit'
  <2>1. ~advertising
    BY <1>2, <1>4 DEF AdvInv, CallbackFits
  <2>2. QED
    BY <1>2, <1>4, <2>1 DEF AdvInv, CallbackFits, CallsFit
<1>8. QED
  BY <1>5, <1>6, <1>7 DEF AdvInv

-----------------------------------------------------------------------------

\* The inductive invariant of advertising: the queue of commands, the flag, the callback
\* and what is under way between host and controller agree.
THEOREM AdvertisingInvariant == StopsWait => (AdvSpec => []AdvInv)
<1> SUFFICES ASSUME StopsWait
             PROVE  AdvSpec => []AdvInv
  OBVIOUS
<1>1. AdvInit => AdvInv
  BY InitAdvInv
<1>2. AdvInv /\ [AdvNext]_advVars => AdvInv'
  <2> SUFFICES ASSUME AdvInv, [AdvNext]_advVars
               PROVE  AdvInv'
    OBVIOUS
  <2>1. CASE StartAdvertising \/ StopAdvertising
    BY <2>1, StartAdvertisingStep, StopAdvertisingStep
  <2>2. CASE AdvHandles
    BY <2>2, ParametersAnsweredStep, EnableAnsweredStep, DisableAnsweredStep,
       HandleLeConnectionCompleteStep
       DEF AdvHandles
  <2>3. CASE AdvExecute(TRUE) \/ AdvExecute(FALSE)
    BY <2>3, AdvExecuteStep
  <2>4. CASE Ends("connected") \/ Ends("timeout") \/ Overtakes
    BY <2>4, EndsStep, OvertakesStep DEF EndKind
  <2>5. CASE UNCHANGED advVars
    BY <2>5
       DEF AdvInv, AdvTypes, CommandsFit, NoneFits, ParametersFit, EnableFits, DisableFits,
           CallbackFits, CallsFit, Outstanding, NoneOrEnd, HasEnd,
           advVars, advController, advHost
  <2>6. QED
    BY <2>1, <2>2, <2>3, <2>4, <2>5 DEF AdvNext
<1>3. QED
  BY <1>1, <1>2, PTL DEF AdvSpec

\* Once everything is answered the flag says what the controller does, and a connection
\* that came of advertising reaches the start it came of, for any number of starts and
\* refusals, as long as advertising is stopped only after it was started.
THEOREM AdvertisingTruthful == StopsWait => (AdvSpec => []AdvertisingIsTruthful)
BY AdvertisingInvariant, AdvInvTruthful, PTL

-----------------------------------------------------------------------------
(* Sequences of commands and events: which kinds there are in them. *)

Has(q, S) == \E i \in DOMAIN q : q[i] \in S
One(q, S) == \A i, j \in DOMAIN q : q[i] \in S /\ q[j] \in S => i = j
Before(q, S, T) == \A i, j \in DOMAIN q : q[i] \in S /\ q[j] \in T => i < j

LEMMA EmptyQueue ==
  ASSUME NEW S, NEW T
  PROVE  ~Has(<<>>, S) /\ One(<<>>, S) /\ Before(<<>>, S, T)
BY DEF Has, One, Before

LEMMA AppendFacts ==
  ASSUME NEW U, NEW q \in Seq(U), NEW e \in U
  PROVE  /\ Append(q, e) \in Seq(U) /\ Append(q, e) # <<>>
         /\ Len(q) \in Nat /\ DOMAIN q = 1 .. Len(q)
         /\ DOMAIN Append(q, e) = 1 .. Len(q) + 1
         /\ \A i \in 1 .. Len(q) : Append(q, e)[i] = q[i]
         /\ Append(q, e)[Len(q) + 1] = e
BY AppendProperties, LenProperties

LEMMA AppendHead ==
  ASSUME NEW U, NEW q \in Seq(U), NEW e \in U
  PROVE  Head(Append(q, e)) = IF q = <<>> THEN e ELSE Head(q)
BY HeadTailAppend

LEMMA AppendHas ==
  ASSUME NEW U, NEW q \in Seq(U), NEW e \in U, NEW S
  PROVE  Has(Append(q, e), S) <=> Has(q, S) \/ e \in S
<1> DEFINE a == Append(q, e)
<1>1. /\ Len(q) \in Nat /\ DOMAIN q = 1 .. Len(q)
      /\ DOMAIN a = 1 .. Len(q) + 1
      /\ \A i \in 1 .. Len(q) : a[i] = q[i]
      /\ a[Len(q) + 1] = e
  BY AppendFacts
<1> HIDE DEF a
<1>2. QED
  BY <1>1 DEF Has, a

LEMMA AppendOne ==
  ASSUME NEW U, NEW q \in Seq(U), NEW e \in U, NEW S, One(q, S), e \in S => ~Has(q, S)
  PROVE  One(Append(q, e), S)
<1> DEFINE a == Append(q, e)
<1>1. /\ Len(q) \in Nat /\ DOMAIN q = 1 .. Len(q)
      /\ DOMAIN a = 1 .. Len(q) + 1
      /\ \A i \in 1 .. Len(q) : a[i] = q[i]
      /\ a[Len(q) + 1] = e
  BY AppendFacts
<1> HIDE DEF a
<1>2. One(a, S)
  BY <1>1 DEF Has, One
<1>3. QED
  BY <1>2 DEF a

LEMMA AppendBefore ==
  ASSUME NEW U, NEW q \in Seq(U), NEW e \in U, NEW S, NEW T, Before(q, S, T),
         e \in S => ~Has(q, T) /\ e \notin T
  PROVE  Before(Append(q, e), S, T)
<1> DEFINE a == Append(q, e)
<1>1. /\ Len(q) \in Nat /\ DOMAIN q = 1 .. Len(q)
      /\ DOMAIN a = 1 .. Len(q) + 1
      /\ \A i \in 1 .. Len(q) : a[i] = q[i]
      /\ a[Len(q) + 1] = e
  BY AppendFacts
<1> HIDE DEF a
<1>2. Before(a, S, T)
  BY <1>1 DEF Has, Before
<1>3. QED
  BY <1>2 DEF a

LEMMA TailFacts ==
  ASSUME NEW U, NEW q \in Seq(U), q # <<>>
  PROVE  /\ Tail(q) \in Seq(U) /\ Head(q) \in U /\ Head(q) = q[1]
         /\ Len(q) \in Nat \ {0} /\ DOMAIN q = 1 .. Len(q)
         /\ DOMAIN Tail(q) = 1 .. Len(q) - 1
         /\ \A i \in 1 .. Len(q) - 1 : Tail(q)[i] = q[i + 1]
<1>1. /\ Head(q) \in U /\ Tail(q) \in Seq(U) /\ Len(Tail(q)) = Len(q) - 1
      /\ \A i \in 1 .. Len(Tail(q)) : Tail(q)[i] = q[i + 1]
  BY HeadTailProperties
<1>2. Len(q) \in Nat /\ Len(q) # 0 /\ DOMAIN q = 1 .. Len(q)
  BY EmptySeq, LenProperties
<1>3. DOMAIN Tail(q) = 1 .. Len(q) - 1
  BY <1>1, LenProperties
<1>4. QED
  BY <1>1, <1>2, <1>3

LEMMA TailHas ==
  ASSUME NEW U, NEW q \in Seq(U), q # <<>>, NEW S
  PROVE  /\ Has(q, S) <=> Head(q) \in S \/ Has(Tail(q), S)
         /\ One(q, S) => One(Tail(q), S)
         /\ One(q, S) /\ Head(q) \in S => ~Has(Tail(q), S)
<1> DEFINE t == Tail(q)
<1>1. /\ Head(q) = q[1] /\ Len(q) \in Nat \ {0} /\ DOMAIN q = 1 .. Len(q)
      /\ DOMAIN t = 1 .. Len(q) - 1
      /\ \A i \in 1 .. Len(q) - 1 : t[i] = q[i + 1]
  BY TailFacts
<1> HIDE DEF t
<1>2. ASSUME NEW i \in DOMAIN q
      PROVE  i = 1 \/ (i - 1 \in DOMAIN t /\ t[i - 1] = q[i])
  BY <1>1
<1>3. ASSUME NEW i \in DOMAIN t
      PROVE  i + 1 \in DOMAIN q /\ t[i] = q[i + 1] /\ i + 1 # 1
  BY <1>1
<1>4. 1 \in DOMAIN q
  BY <1>1
<1>5. Has(q, S) <=> Head(q) \in S \/ Has(t, S)
  BY <1>1, <1>2, <1>3, <1>4 DEF Has
<1>6. ASSUME One(q, S)
      PROVE  One(t, S)
  <2> SUFFICES ASSUME NEW i \in DOMAIN t, NEW j \in DOMAIN t, t[i] \in S, t[j] \in S
               PROVE  i = j
    BY DEF One
  <2>1. i + 1 = j + 1
    BY <1>3, <1>6 DEF One
  <2>2. QED
    BY <1>1, <2>1
<1>7. ASSUME One(q, S), Head(q) \in S
      PROVE  ~Has(t, S)
  BY <1>1, <1>3, <1>4, <1>7 DEF One, Has
<1>8. QED
  BY <1>5, <1>6, <1>7 DEF t

LEMMA TailBefore ==
  ASSUME NEW U, NEW q \in Seq(U), q # <<>>, NEW S, NEW T, Before(q, S, T)
  PROVE  /\ Before(Tail(q), S, T)
         /\ Head(q) \in T => ~Has(q, S)
<1> DEFINE t == Tail(q)
<1>1. /\ Head(q) = q[1] /\ Len(q) \in Nat \ {0} /\ DOMAIN q = 1 .. Len(q)
      /\ DOMAIN t = 1 .. Len(q) - 1
      /\ \A i \in 1 .. Len(q) - 1 : t[i] = q[i + 1]
  BY TailFacts
<1> HIDE DEF t
<1>2. Before(t, S, T)
  <2> SUFFICES ASSUME NEW i \in DOMAIN t, NEW j \in DOMAIN t, t[i] \in S, t[j] \in T
               PROVE  i < j
    BY DEF Before
  <2>1. i + 1 \in DOMAIN q /\ j + 1 \in DOMAIN q /\ t[i] = q[i + 1] /\ t[j] = q[j + 1]
    BY <1>1
  <2>2. i + 1 < j + 1
    BY <2>1 DEF Before
  <2>3. QED
    BY <1>1, <2>2
<1>3. Head(q) \in T => ~Has(q, S)
  BY <1>1 DEF Before, Has
<1>4. QED
  BY <1>2, <1>3 DEF t

-----------------------------------------------------------------------------
(* Every set of addresses can be put in order. *)

InOrderOf(S, s) ==
  s \in [1 .. Cardinality(S) -> S] /\ \A i, j \in DOMAIN s : i < j => s[i] < s[j]

LEMMA Least ==
  ASSUME NEW T \in SUBSET Nat, T # {}
  PROVE  \E m \in T : \A k \in T : m <= k
<1> DEFINE R == {ss \in Nat \X Nat : ss[1] < ss[2]}
<1>1. IsWellFoundedOn(R, Nat)
  BY NatLessThanWellFounded DEF OpToRel
<1> HIDE DEF R
<1>2. PICK m \in T : \A k \in T : ~(<<k, m>> \in R)
  BY <1>1, WFMin
<1>3. \A k \in T : ~(k < m)
  BY <1>2 DEF R
<1>4. QED
  BY <1>3

\* A smallest set without an order would have an order: that of its elements but the
\* least, which comes first.
LEMMA OrderExists == \A S \in SUBSET Device : \E s : InOrderOf(S, s)
<1> DEFINE Bad == {S \in SUBSET Device : ~\E s : InOrderOf(S, s)}
<1> SUFFICES ASSUME Bad # {}
             PROVE  FALSE
  OBVIOUS
<1> DEFINE R == StrictSubsetOrdering(Device)
<1>1. IsWellFoundedOn(R, FiniteSubsetsOf(Device)) /\ FiniteSubsetsOf(Device) = SUBSET Device
  BY ManagerAssumption, FS_StrictSubsetOrderingWellFounded, FS_FiniteSubsetsOfFinite
<1>2. PICK S \in Bad : \A P \in Bad : ~(<<P, S>> \in R)
  <2>1. Bad \subseteq FiniteSubsetsOf(Device)
    BY <1>1
  <2> HIDE DEF R, Bad
  <2>2. QED
    BY <1>1, <2>1, WFMin
<1>3. S \in SUBSET Device /\ IsFiniteSet(S) /\ S \subseteq Nat /\ Cardinality(S) \in Nat
  BY ManagerAssumption, FS_Subset, FS_CardinalityType
<1>4. S # {}
  <2> SUFFICES ASSUME S = {}
               PROVE  FALSE
    OBVIOUS
  <2>1. Cardinality(S) = 0
    BY FS_EmptySet
  <2> DEFINE s == [i \in 1 .. 0 |-> 0]
  <2>2. InOrderOf(S, s)
    BY <2>1 DEF InOrderOf
  <2>3. QED
    BY <2>2
<1>5. PICK m \in S : \A k \in S : m <= k
  BY <1>3, <1>4, Least
<1> DEFINE P == S \ {m}
           n == Cardinality(P)
<1>6. /\ n \in Nat /\ Cardinality(S) = n + 1 /\ P \in SUBSET Device /\ P # S
      /\ \A k \in P : m < k
  <2>1. IsFiniteSet(P) /\ n = Cardinality(S) - 1
    BY <1>3, FS_RemoveElement
  <2>2. n \in Nat
    BY <2>1, FS_CardinalityType
  <2>3. QED
    BY <1>3, <1>5, <2>1, <2>2
<1>7. <<P, S>> \in R
  BY <1>3, <1>6 DEF StrictSubsetOrdering
<1>8. PICK p : InOrderOf(P, p)
  BY <1>2, <1>6, <1>7
<1>9. p \in [1 .. n -> P] /\ \A i, j \in 1 .. n : i < j => p[i] < p[j]
  BY <1>8 DEF InOrderOf
<1> DEFINE s == [i \in 1 .. n + 1 |-> IF i = 1 THEN m ELSE p[i - 1]]
<1> HIDE DEF P, n
<1>10. ASSUME NEW i \in 1 .. n + 1, i # 1
       PROVE  i - 1 \in 1 .. n /\ s[i] = p[i - 1] /\ p[i - 1] \in P
  <2>1. n \in Nat
    BY <1>6
  <2>2. i - 1 \in 1 .. n
    BY <1>10, <2>1
  <2>3. s[i] = p[i - 1]
    BY <1>10
  <2>4. QED
    BY <1>9, <2>2, <2>3
<1>11. P \subseteq S
  BY DEF P
<1>12. s \in [1 .. n + 1 -> S]
  BY <1>5, <1>10, <1>11
<1>13. ASSUME NEW i \in 1 .. n + 1, NEW j \in 1 .. n + 1, i < j
       PROVE  s[i] < s[j]
  <2>1. j # 1
    BY <1>6, <1>13
  <2>2. CASE i = 1
    BY <1>6, <1>10, <2>1, <2>2
  <2>3. CASE i # 1
    <3>1. i - 1 < j - 1
      BY <1>6, <1>13
    <3>2. QED
      BY <1>9, <1>10, <2>1, <2>3, <3>1
  <2>4. QED
    BY <2>2, <2>3
<1>14. InOrderOf(S, s)
  BY <1>6, <1>12, <1>13 DEF InOrderOf
<1>15. QED
  BY <1>14

LEMMA InOrderFacts ==
  ASSUME NEW S \in SUBSET Device
  PROVE  /\ InOrder[S] \in Seq(Device) /\ Cardinality(S) \in Nat /\ IsFiniteSet(S)
         /\ DOMAIN InOrder[S] = 1 .. Cardinality(S) /\ Len(InOrder[S]) = Cardinality(S)
         /\ \A i \in DOMAIN InOrder[S] : InOrder[S][i] \in S
         /\ \A d \in S : \E i \in DOMAIN InOrder[S] : InOrder[S][i] = d
<1> DEFINE s == InOrder[S]
           n == Cardinality(S)
<1>1. IsFiniteSet(S) /\ n \in Nat
  BY ManagerAssumption, FS_Subset, FS_CardinalityType
<1>2. s = CHOOSE t \in [1 .. n -> S] : \A i, j \in DOMAIN t : i < j => t[i] < t[j]
  BY DEF InOrder
<1>3. s \in [1 .. n -> S] /\ \A i, j \in 1 .. n : i < j => s[i] < s[j]
  <2>1. \E t \in [1 .. n -> S] : \A i, j \in DOMAIN t : i < j => t[i] < t[j]
    BY OrderExists DEF InOrderOf
  <2> HIDE DEF s, n
  <2>2. QED
    BY <1>2, <2>1
<1> HIDE DEF s, n
<1>4. s \in Injection(1 .. n, S)
  <2>1. \A i \in 1 .. n : s[i] \in Nat
    BY <1>3, ManagerAssumption
  <2>2. ASSUME NEW i \in 1 .. n, NEW j \in 1 .. n, s[i] = s[j]
        PROVE  i = j
    <3>1. ~(i < j) /\ ~(j < i)
      BY <1>3, <2>1, <2>2
    <3>2. QED
      BY <1>1, <3>1
  <2>3. QED
    BY <1>3, <2>2 DEF Injection, IsInjective
<1>5. Cardinality(1 .. n) = n
  BY <1>1, FS_Interval
<1>6. s \in Surjection(1 .. n, S)
  BY <1>1, <1>4, <1>5, FS_Injection DEF n
<1>7. \A d \in S : \E i \in 1 .. n : s[i] = d
  BY <1>6 DEF Surjection
<1>8. s \in Seq(S) /\ Len(s) = n
  BY <1>1, <1>3, IsASeq
<1>9. s \in Seq(Device)
  BY <1>8, SeqMonotonic
<1>10. QED
  BY <1>1, <1>3, <1>7, <1>8, <1>9 DEF s, n

-----------------------------------------------------------------------------
(* The commands that turn one white list into another. *)

Who == {"scanner", "initiator"}
ListOp == {"clear", "add", "remove"}
ListBy(who) ==
  [op : {"clear"}, device : {None}, who : {who}, last : BOOLEAN]
    \cup [op : {"add", "remove"}, device : Device, who : {who}, last : BOOLEAN]
Edit(who) == [op : {"add", "remove"}, device : Device, who : {who}, last : {FALSE}]

After(list, c) ==
  IF c.op = "clear" THEN {}
  ELSE IF c.op = "add" THEN list \cup {c.device} ELSE list \ {c.device}

Touched(ops, op) == {d \in Device : \E i \in DOMAIN ops : ops[i].op = op /\ ops[i].device = d}

\* From list, the edits ops lead to new: all that is removed is removed first.
Leads(list, ops, new, who) ==
  /\ ops \in Seq(Edit(who))
  /\ new = (list \ Touched(ops, "remove")) \cup Touched(ops, "add")
  /\ Touched(ops, "remove") \cap Touched(ops, "add") = {}
  /\ \A i, j \in DOMAIN ops : i < j /\ ops[i].op = "add" => ops[j].op = "add"

LEMMA EditIsListCommand ==
  ASSUME NEW who \in Who
  PROVE  Edit(who) \subseteq ListBy(who) /\ Seq(Edit(who)) \subseteq Seq(ListBy(who))
<1>1. Edit(who) \subseteq ListBy(who)
  BY DEF Edit, ListBy, ListOp, Who
<1>2. QED
  BY <1>1, SeqMonotonic

LEMMA LeadsNowhere ==
  ASSUME NEW list, NEW new, NEW who, Leads(list, <<>>, new, who)
  PROVE  new = list
BY DEF Leads, Touched

\* Once the first edit is done the others lead on, and an addition stays within the goal.
LEMMA LeadsOn ==
  ASSUME NEW list \in SUBSET Device, NEW ops, NEW new, NEW who \in Who, Leads(list, ops, new, who),
         ops # <<>>
  PROVE  /\ Head(ops) \in Edit(who) /\ Head(ops) \in ListBy(who) /\ Tail(ops) \in Seq(ListBy(who))
         /\ Leads(After(list, Head(ops)), Tail(ops), new, who)
         /\ Head(ops).op = "add" => After(list, Head(ops)) \subseteq new
<1> DEFINE t == Tail(ops)
           c == Head(ops)
<1>1. /\ t \in Seq(Edit(who)) /\ c \in Edit(who) /\ c = ops[1]
      /\ Len(ops) \in Nat \ {0} /\ DOMAIN ops = 1 .. Len(ops)
      /\ DOMAIN t = 1 .. Len(ops) - 1
      /\ \A i \in 1 .. Len(ops) - 1 : t[i] = ops[i + 1]
  BY TailFacts DEF Leads
<1> HIDE DEF t, c
<1>2. c.op \in {"add", "remove"} /\ c.device \in Device
  BY <1>1 DEF Edit
<1>3. ASSUME NEW i \in DOMAIN ops
      PROVE  i = 1 \/ (i - 1 \in DOMAIN t /\ t[i - 1] = ops[i])
  BY <1>1
<1>4. ASSUME NEW i \in DOMAIN t
      PROVE  i + 1 \in DOMAIN ops /\ t[i] = ops[i + 1] /\ 1 < i + 1
  BY <1>1
<1>5. 1 \in DOMAIN ops
  BY <1>1
<1>6. ASSUME NEW op
      PROVE  Touched(ops, op) = Touched(t, op) \cup (IF c.op = op THEN {c.device} ELSE {})
  <2>1. ASSUME NEW d \in Touched(ops, op)
        PROVE  d \in Touched(t, op) \/ (c.op = op /\ c.device = d)
    BY <1>1, <1>3, <2>1 DEF Touched
  <2>2. ASSUME NEW d \in Touched(t, op)
        PROVE  d \in Touched(ops, op)
    BY <1>4, <2>2 DEF Touched
  <2>3. c.op = op => c.device \in Touched(ops, op)
    BY <1>1, <1>2, <1>5 DEF Touched
  <2>4. QED
    BY <2>1, <2>2, <2>3
<1>7. \A i, j \in DOMAIN t : i < j /\ t[i].op = "add" => t[j].op = "add"
  <2> SUFFICES ASSUME NEW i \in DOMAIN t, NEW j \in DOMAIN t, i < j, t[i].op = "add"
               PROVE  t[j].op = "add"
    OBVIOUS
  <2>1. i + 1 < j + 1
    BY <1>1
  <2>2. QED
    BY <1>4, <2>1 DEF Leads
<1>8. CASE c.op = "add"
  <2>1. \A i \in DOMAIN ops : ops[i].op = "add"
    <3> SUFFICES ASSUME NEW i \in DOMAIN ops
                 PROVE  ops[i].op = "add"
      OBVIOUS
    <3>1. i = 1 \/ 1 < i
      BY <1>1
    <3>2. QED
      BY <1>1, <1>5, <1>8, <3>1 DEF Leads
  <2>2. Touched(ops, "remove") = {}
    BY <2>1 DEF Touched
  <2>3. Touched(t, "remove") = {}
    BY <1>6, <2>2
  <2>4. Touched(ops, "add") = Touched(t, "add") \cup {c.device}
    BY <1>6, <1>8
  <2>5. After(list, c) = list \cup {c.device}
    BY <1>8 DEF After
  <2>6. new = After(list, c) \cup Touched(t, "add")
    BY <2>2, <2>4, <2>5 DEF Leads
  <2>7. Leads(After(list, c), t, new, who)
    BY <1>1, <1>7, <2>3, <2>6 DEF Leads
  <2>8. QED
    BY <1>1, <1>8, <2>6, <2>7, EditIsListCommand DEF t, c
<1>9. CASE c.op = "remove"
  <2>1. Touched(ops, "remove") = Touched(t, "remove") \cup {c.device}
    BY <1>6, <1>9
  <2>2. Touched(ops, "add") = Touched(t, "add")
    BY <1>6, <1>9
  <2>3. After(list, c) = list \ {c.device}
    BY <1>9 DEF After
  <2>4. Leads(After(list, c), t, new, who)
    BY <1>1, <1>7, <2>1, <2>2, <2>3 DEF Leads
  <2>5. QED
    BY <1>1, <1>9, <2>4, EditIsListCommand DEF t, c
<1>10. QED
  BY <1>2, <1>8, <1>9

Edits1(op, S, who) ==
  [i \in DOMAIN InOrder[S] |-> [op |-> op, device |-> InOrder[S][i], who |-> who, last |-> FALSE]]

LEMMA Edits1Facts ==
  ASSUME NEW op \in {"add", "remove"}, NEW S \in SUBSET Device, NEW who \in Who
  PROVE  /\ Edits1(op, S, who) \in Seq(Edit(who))
         /\ Len(Edits1(op, S, who)) \in Nat /\ DOMAIN Edits1(op, S, who) = 1 .. Len(Edits1(op, S, who))
         /\ \A i \in DOMAIN Edits1(op, S, who) : Edits1(op, S, who)[i].op = op
         /\ Touched(Edits1(op, S, who), op) = S
         /\ \A o : o # op => Touched(Edits1(op, S, who), o) = {}
         /\ Edits1(op, S, who) = <<>> => S = {}
<1> DEFINE e == Edits1(op, S, who)
           n == Cardinality(S)
<1>1. /\ n \in Nat /\ DOMAIN InOrder[S] = 1 .. n
      /\ \A i \in 1 .. n : InOrder[S][i] \in S
      /\ \A d \in S : \E i \in 1 .. n : InOrder[S][i] = d
  BY InOrderFacts
<1> HIDE DEF n
<1>2. /\ DOMAIN e = 1 .. n
      /\ \A i \in 1 .. n : e[i] = [op |-> op, device |-> InOrder[S][i], who |-> who, last |-> FALSE]
  BY <1>1 DEF Edits1
<1>3. e \in [1 .. n -> Edit(who)]
  BY <1>1 DEF Edits1, Edit
<1> HIDE DEF e
<1>4. e \in Seq(Edit(who)) /\ Len(e) = n
  BY <1>1, <1>3, IsASeq
<1>5. \A i \in DOMAIN e : e[i].op = op /\ e[i].device = InOrder[S][i]
  BY <1>2
<1>6. Touched(e, op) = S
  BY <1>1, <1>2, <1>5 DEF Touched
<1>7. \A o : o # op => Touched(e, o) = {}
  BY <1>5 DEF Touched
<1>8. e = <<>> => S = {}
  <2>1. e = <<>> => DOMAIN e = {}
    OBVIOUS
  <2>2. QED
    BY <1>1, <1>2, <2>1
<1>9. QED
  BY <1>1, <1>2, <1>4, <1>5, <1>6, <1>7, <1>8 DEF e

LEMMA ConcatEdits ==
  ASSUME NEW s, NEW t, NEW who \in Who, s \in Seq(Edit(who)), t \in Seq(Edit(who))
  PROVE  /\ s \o t \in Seq(Edit(who))
         /\ \A op : Touched(s \o t, op) = Touched(s, op) \cup Touched(t, op)
         /\ (\A i \in DOMAIN t : t[i].op = "add") /\ (\A i, j \in DOMAIN s : s[i].op = s[j].op) =>
              \A i, j \in DOMAIN (s \o t) :
                i < j /\ (s \o t)[i].op = "add" => (s \o t)[j].op = "add"
<1> DEFINE u == s \o t
           m == Len(s)
           n == Len(t)
<1>1. /\ u \in Seq(Edit(who)) /\ Len(u) = m + n
      /\ \A i \in 1 .. m + n : u[i] = IF i <= m THEN s[i] ELSE t[i - m]
  BY ConcatProperties
<1>2. /\ m \in Nat /\ n \in Nat /\ DOMAIN s = 1 .. m /\ DOMAIN t = 1 .. n /\ DOMAIN u = 1 .. m + n
  BY <1>1, LenProperties
<1> HIDE DEF u, m, n
<1>3. ASSUME NEW i \in DOMAIN u
      PROVE  (i \in DOMAIN s /\ u[i] = s[i]) \/ (i - m \in DOMAIN t /\ u[i] = t[i - m] /\ i > m)
  BY <1>1, <1>2
<1>4. ASSUME NEW i \in DOMAIN s
      PROVE  i \in DOMAIN u /\ u[i] = s[i]
  BY <1>1, <1>2
<1>5. ASSUME NEW i \in DOMAIN t
      PROVE  i + m \in DOMAIN u /\ u[i + m] = t[i]
  <2>1. i + m \in 1 .. m + n /\ ~(i + m <= m) /\ (i + m) - m = i
    BY <1>2
  <2>2. QED
    BY <1>1, <1>2, <2>1
<1>6. ASSUME NEW op
      PROVE  Touched(u, op) = Touched(s, op) \cup Touched(t, op)
  <2>1. ASSUME NEW d \in Touched(u, op)
        PROVE  d \in Touched(s, op) \cup Touched(t, op)
    BY <1>3, <2>1 DEF Touched
  <2>2. ASSUME NEW d \in Touched(s, op) \cup Touched(t, op)
        PROVE  d \in Touched(u, op)
    BY <1>4, <1>5, <2>2 DEF Touched
  <2>3. QED
    BY <2>1, <2>2
<1>7. ASSUME \A i \in DOMAIN t : t[i].op = "add", \A i, j \in DOMAIN s : s[i].op = s[j].op,
             NEW i \in DOMAIN u, NEW j \in DOMAIN u, i < j, u[i].op = "add"
      PROVE  u[j].op = "add"
  <2>1. CASE j \in DOMAIN s
    <3>1. i \in DOMAIN s
      BY <1>2, <1>7, <2>1
    <3>2. QED
      BY <1>4, <1>7, <2>1, <3>1
  <2>2. CASE j \notin DOMAIN s
    BY <1>3, <1>7, <2>2
  <2>3. QED
    BY <2>1, <2>2
<1>8. QED
  BY <1>1, <1>6, <1>7 DEF u

LEMMA PutFirst ==
  ASSUME NEW U, NEW c \in U, NEW s \in Seq(U)
  PROVE  <<c>> \o s \in Seq(U) /\ <<c>> \o s # <<>> /\ Head(<<c>> \o s) = c /\ Tail(<<c>> \o s) = s
<1> DEFINE u == <<c>> \o s
           t == Tail(u)
<1>1. <<c>> \in Seq(U) /\ Len(<<c>>) = 1 /\ <<c>>[1] = c
  OBVIOUS
<1>2. /\ u \in Seq(U) /\ Len(u) = 1 + Len(s)
      /\ \A i \in 1 .. 1 + Len(s) : u[i] = IF i <= 1 THEN <<c>>[i] ELSE s[i - 1]
  BY <1>1, ConcatProperties
<1>3. Len(s) \in Nat
  BY LenProperties
<1> HIDE DEF u
<1>4. u # <<>>
  BY <1>2, <1>3, EmptySeq
<1>5. /\ t \in Seq(U) /\ Len(t) = Len(u) - 1 /\ Head(u) = u[1]
      /\ \A i \in 1 .. Len(t) : t[i] = u[i + 1]
  BY <1>2, <1>4, HeadTailProperties
<1>6. Head(u) = c
  BY <1>1, <1>2, <1>3, <1>5
<1>7. Len(t) = Len(s)
  BY <1>2, <1>3, <1>5
<1>8. \A i \in 1 .. Len(s) : t[i] = s[i]
  BY <1>2, <1>3, <1>5, <1>7
<1>9. t = s
  BY <1>5, <1>7, <1>8, SeqEqual
<1>10. QED
  BY <1>2, <1>4, <1>6, <1>9 DEF u, t

\* What ListCommands answers leads from the one list to the other.
LEMMA ListCommandsLead ==
  ASSUME NEW cur \in SUBSET Device, NEW new \in SUBSET Device, NEW who \in Who
  PROVE  LET ops == ListCommands(cur, new, who)
         IN /\ ops \in Seq(ListBy(who))
            /\ ops = <<>> => cur = new
            /\ ops # <<>> =>
                 /\ Head(ops) \in ListBy(who) /\ Head(ops).who = who /\ ~Head(ops).last
                 /\ Tail(ops) \in Seq(ListBy(who))
                 /\ Leads(After(cur, Head(ops)), Tail(ops), new, who)
                 /\ Head(ops).op = "add" => After(cur, Head(ops)) \subseteq new
<1> DEFINE ops == ListCommands(cur, new, who)
           keep == cur \cap new
           minus == cur \ new
           plus == new \ cur
           clear == [op |-> "clear", device |-> None, who |-> who, last |-> FALSE]
           a == Edits1("add", keep, who)
           b == Edits1("add", plus, who)
           r == Edits1("remove", minus, who)
<1>1. /\ a \in Seq(Edit(who)) /\ (\A i \in DOMAIN a : a[i].op = "add")
      /\ Touched(a, "add") = keep /\ Touched(a, "remove") = {}
  <2>1. keep \in SUBSET Device
    OBVIOUS
  <2> HIDE DEF keep, a
  <2>2. /\ a \in Seq(Edit(who)) /\ (\A i \in DOMAIN a : a[i].op = "add")
        /\ Touched(a, "add") = keep /\ (a = <<>> => keep = {})
        /\ \A o : o # "add" => Touched(a, o) = {}
    <3>1. "add" \in {"add", "remove"}
      OBVIOUS
    <3>2. QED
      BY <2>1, <3>1, Edits1Facts DEF a
  <2>3. QED
    BY <2>2
<1>2. /\ b \in Seq(Edit(who)) /\ (\A i \in DOMAIN b : b[i].op = "add")
      /\ Touched(b, "add") = plus /\ Touched(b, "remove") = {} /\ (b = <<>> => plus = {})
  <2>1. plus \in SUBSET Device
    OBVIOUS
  <2> HIDE DEF plus, b
  <2>2. /\ b \in Seq(Edit(who)) /\ (\A i \in DOMAIN b : b[i].op = "add")
        /\ Touched(b, "add") = plus /\ (b = <<>> => plus = {})
        /\ \A o : o # "add" => Touched(b, o) = {}
    <3>1. "add" \in {"add", "remove"}
      OBVIOUS
    <3>2. QED
      BY <2>1, <3>1, Edits1Facts DEF b
  <2>3. QED
    BY <2>2
<1>3. /\ r \in Seq(Edit(who)) /\ (\A i \in DOMAIN r : r[i].op = "remove")
      /\ Touched(r, "remove") = minus /\ Touched(r, "add") = {} /\ (r = <<>> => minus = {})
  <2>1. minus \in SUBSET Device
    OBVIOUS
  <2> HIDE DEF minus, r
  <2>2. "remove" \in {"add", "remove"}
    OBVIOUS
  <2>3. r \in Seq(Edit(who))
    BY <2>1, <2>2, Edits1Facts DEF r
  <2>4. \A i \in DOMAIN r : r[i].op = "remove"
    BY DEF r, Edits1
  <2>5. Touched(r, "remove") = minus
    BY <2>1, <2>2, Edits1Facts DEF r
  <2>6. r = <<>> => minus = {}
    BY <2>1, <2>2, Edits1Facts DEF r
  <2>7. \A o : o # "remove" => Touched(r, o) = {}
    BY <2>1, <2>2, Edits1Facts DEF r
  <2>8. Touched(r, "add") = {}
    BY <2>7
  <2>9. QED
    BY <2>3, <2>4, <2>5, <2>6, <2>8
<1>4. Edit(who) \subseteq ListBy(who) /\ Seq(Edit(who)) \subseteq Seq(ListBy(who))
  BY EditIsListCommand
<1>5. ops = IF 1 + Cardinality(keep) <= Cardinality(minus) THEN <<clear>> \o a \o b ELSE r \o b
  BY DEF ListCommands, Edits, Edits1
<1>6. CASE ops = r \o b
  <2>1. /\ ops \in Seq(Edit(who))
        /\ Touched(ops, "remove") = minus /\ Touched(ops, "add") = plus
        /\ \A i, j \in DOMAIN ops : i < j /\ ops[i].op = "add" => ops[j].op = "add"
    <3> HIDE DEF r, b, minus, plus, ops
    <3>1. \A op : Touched(ops, op) = Touched(r, op) \cup Touched(b, op)
      BY <1>2, <1>3, <1>6, ConcatEdits
    <3>2. (\A i \in DOMAIN b : b[i].op = "add") /\ (\A i, j \in DOMAIN r : r[i].op = r[j].op)
      BY <1>2, <1>3
    <3>3. /\ ops \in Seq(Edit(who))
          /\ \A i, j \in DOMAIN ops : i < j /\ ops[i].op = "add" => ops[j].op = "add"
      BY <1>2, <1>3, <1>6, <3>2, ConcatEdits
    <3>4. Touched(ops, "remove") = minus /\ Touched(ops, "add") = plus
      BY <1>2, <1>3, <3>1
    <3>5. QED
      BY <3>3, <3>4
  <2> HIDE DEF ops
  <2>2. Leads(cur, ops, new, who)
    BY <2>1 DEF Leads
  <2>3. ops # <<>> /\ Head(ops) \in Edit(who) => Head(ops).who = who /\ ~Head(ops).last
    BY DEF Edit
  <2>4. ops = <<>> => cur = new
    BY <2>2, LeadsNowhere
  <2>5. ops # <<>> =>
                 /\ Head(ops) \in ListBy(who) /\ Head(ops).who = who /\ ~Head(ops).last
                 /\ Tail(ops) \in Seq(ListBy(who))
                 /\ Leads(After(cur, Head(ops)), Tail(ops), new, who)
                 /\ Head(ops).op = "add" => After(cur, Head(ops)) \subseteq new
    BY <2>2, <2>3, LeadsOn
  <2>6. QED
    BY <1>4, <2>1, <2>4, <2>5 DEF ops
<1>7. CASE ops = <<clear>> \o a \o b
  <2> DEFINE s == a \o b
  <2>1. clear \in ListBy(who) /\ clear.who = who /\ clear.last = FALSE /\ clear.op = "clear"
    BY DEF ListBy, ListOp
  <2>2. a \in Seq(ListBy(who)) /\ b \in Seq(ListBy(who))
    BY <1>1, <1>2, <1>4
  <2>3. /\ s \in Seq(Edit(who))
        /\ Touched(s, "remove") = {} /\ Touched(s, "add") = keep \cup plus
        /\ \A i, j \in DOMAIN s : i < j /\ s[i].op = "add" => s[j].op = "add"
    <3> HIDE DEF a, b, keep, plus
    <3>1. \A op : Touched(s, op) = Touched(a, op) \cup Touched(b, op)
      BY <1>1, <1>2, ConcatEdits
    <3>2. (\A i \in DOMAIN b : b[i].op = "add") /\ (\A i, j \in DOMAIN a : a[i].op = a[j].op)
      BY <1>1, <1>2
    <3>3. /\ s \in Seq(Edit(who))
          /\ \A i, j \in DOMAIN s : i < j /\ s[i].op = "add" => s[j].op = "add"
      BY <1>1, <1>2, <3>2, ConcatEdits
    <3> HIDE DEF s
    <3>4. QED
      BY <1>1, <1>2, <3>1, <3>3
  <2>4. s \in Seq(ListBy(who))
    BY <1>4, <2>3
  <2>5. ops = <<clear>> \o s
    <3> HIDE DEF a, b, clear
    <3>1. <<clear>> \in Seq(ListBy(who))
      BY <2>1
    <3>2. QED
      BY <1>7, <2>2, <3>1, ConcatAssociative
  <2> HIDE DEF s, ops
  <2>6. ops \in Seq(ListBy(who)) /\ ops # <<>> /\ Head(ops) = clear /\ Tail(ops) = s
    <3> HIDE DEF clear
    <3>1. QED
      BY <2>1, <2>4, <2>5, PutFirst
  <2>7. After(cur, Head(ops)) = {}
    BY <2>1, <2>6 DEF After
  <2>8. keep \cup plus = new
    OBVIOUS
  <2>9. Leads({}, s, new, who)
    BY <2>3, <2>8 DEF Leads
  <2>10. QED
    BY <2>1, <2>4, <2>6, <2>7, <2>9 DEF ops
<1>8. QED
  BY <1>5, <1>6, <1>7

-----------------------------------------------------------------------------
(* The types of the state. *)

Change == [active : BOOLEAN, policy : BOOLEAN, devices : SUBSET Device, updateList : BOOLEAN,
           filterDuplicates : BOOLEAN]
Attempt == {a \in [conns : SUBSET Connect, devices : SUBSET Device, useWhiteList : BOOLEAN] :
              a.devices # {}}

ListCommandBy == ListBy("scanner") \cup ListBy("initiator")
Command ==
  [op : {"scanOn"}, filterDuplicates : BOOLEAN] \cup [op : {"scanOff", "cancel"}]
    \cup [op : {"scanParameters"}, active : BOOLEAN, policy : BOOLEAN]
    \cup CreateCommand \cup ListCommandBy

Update == [ops : Seq(ListCommandBy), newList : SUBSET Device]

Why == {"no", "scanningFailed", "startScan", "connection complete but failed conn"}
Outcome == {"none", "cancelled", "connected"}
User == {"none", "scanner", "initiator"}

Host ==
  [out : Seq(Command), crashed : Why,
   scanners : [Scan -> Kind \cup {None}],
   scanEnabled : BOOLEAN, scannerCommandInProgress : BOOLEAN, scanningNeedsRestart : BOOLEAN,
   active : BOOLEAN, policy : BOOLEAN, currentScanFilterDuplicates : BOOLEAN,
   scanChange : Change \cup {None}, stopScanCallback : BOOLEAN,
   device : [Connect -> Device \cup {None}],
   pending : SUBSET Connect, connecting : SUBSET Connect, cancelled : SUBSET Connect,
   connectCommandInProgress : BOOLEAN, cancelCommandInProgress : BOOLEAN,
   createConnectionIsOutstanding : BOOLEAN, attempt : Attempt \cup {None},
   connections : SUBSET Device,
   outcome : [Connect -> Outcome],
   whiteListUsage : User, currentWhiteList : SUBSET Device,
   update : [Who -> Update]]

\* What is queued for an update was sent by whoever asked for the update.
OwnUpdates(h) == \A who \in Who : h.update[who].ops \in Seq(ListBy(who))

ControllerType ==
  [scanning : BOOLEAN, active : BOOLEAN, policy : BOOLEAN, filterDuplicates : BOOLEAN,
   list : SUBSET Device, initiating : CreateCommand \cup {None}, links : SUBSET Device]

Event == [type : {"answer"}, ok : BOOLEAN]
           \cup [type : {"complete", "gone"}, device : Device \cup {None}]

\* A host between two pieces of the program: what it sent is in the queue.
Idle(h) == h \in Host /\ OwnUpdates(h) /\ h.out = <<>>

-----------------------------------------------------------------------------
(* What the functions on the host do, each the fields it changes. *)

LEMMA TupleIsSeq ==
  ASSUME NEW U, NEW c \in U
  PROVE  <<c>> \in Seq(U) /\ Append(<<>>, c) = <<c>>
OBVIOUS

LEMMA SendIs ==
  ASSUME NEW h, h.out = <<>>, NEW c
  PROVE  Send(h, c) = [h EXCEPT !.out = <<c>>]
<1>1. Append(h.out, c) = <<c>>
  OBVIOUS
<1>2. QED
  BY <1>1 DEF Send

\* The fields the connection calls are about.
SameCalls(g, h) ==
  /\ g.device = h.device /\ g.pending = h.pending /\ g.connecting = h.connecting
  /\ g.cancelled = h.cancelled /\ g.connections = h.connections /\ g.outcome = h.outcome
  /\ g.connectCommandInProgress = h.connectCommandInProgress
  /\ g.cancelCommandInProgress = h.cancelCommandInProgress
  /\ g.createConnectionIsOutstanding = h.createConnectionIsOutstanding
  /\ g.attempt = h.attempt

\* The fields the scan is about.
SameScan(g, h) ==
  /\ g.scanners = h.scanners /\ g.scanEnabled = h.scanEnabled
  /\ g.scanningNeedsRestart = h.scanningNeedsRestart
  /\ g.active = h.active /\ g.policy = h.policy /\ g.scanChange = h.scanChange

SameLists(g, h) ==
  /\ g.whiteListUsage = h.whiteListUsage /\ g.currentWhiteList = h.currentWhiteList
  /\ g.update = h.update

SameFlags(g, h) == g.crashed = h.crashed /\ g.stopScanCallback = h.stopScanCallback

ScanOn(fd) == [op |-> "scanOn", filterDuplicates |-> fd]
CreateFor(a) ==
  [op |-> "create", useWhiteList |-> a.useWhiteList,
   device |-> IF a.useWhiteList THEN None ELSE InOrder[a.devices][1]]

LEMMA CreateForIs ==
  ASSUME NEW a \in Attempt
  PROVE  /\ CreateFor(a) \in CreateCommand /\ CreateFor(a) \in Command
         /\ ~a.useWhiteList => InOrder[a.devices][1] \in a.devices
<1>1. a.devices \in SUBSET Device /\ a.devices # {} /\ a.useWhiteList \in BOOLEAN
  BY DEF Attempt
<1> DEFINE n == Cardinality(a.devices)
<1>2. /\ n \in Nat /\ DOMAIN InOrder[a.devices] = 1 .. n
      /\ \A i \in 1 .. n : InOrder[a.devices][i] \in a.devices
      /\ \A d \in a.devices : \E i \in 1 .. n : InOrder[a.devices][i] = d
  BY <1>1, InOrderFacts
<1> HIDE DEF n
<1>3. 1 \in 1 .. n
  BY <1>1, <1>2
<1>4. InOrder[a.devices][1] \in a.devices
  BY <1>2, <1>3
<1>5. QED
  BY <1>1, <1>4 DEF CreateFor, CreateCommand, Command

LEMMA EnableScanDoes ==
  ASSUME NEW h, Idle(h), h.scanChange \in Change
  PROVE  LET g == EnableScan(h)
             c == ScanOn(h.scanChange.filterDuplicates)
         IN /\ g \in Host /\ OwnUpdates(g) /\ c \in Command /\ g.out = <<c>>
            /\ SameCalls(g, h) /\ SameScan(g, h) /\ SameLists(g, h) /\ SameFlags(g, h)
            /\ g.scannerCommandInProgress
<1> DEFINE c == ScanOn(h.scanChange.filterDuplicates)
           g == [h EXCEPT !.currentScanFilterDuplicates = h.scanChange.filterDuplicates,
                          !.scannerCommandInProgress = TRUE, !.out = <<c>>]
<1>1. h.scanChange.filterDuplicates \in BOOLEAN
  BY DEF Change
<1>2. c \in Command /\ <<c>> \in Seq(Command)
  <2>1. c \in Command
    BY <1>1 DEF ScanOn, Command
  <2> HIDE DEF c
  <2>2. QED
    BY <2>1, TupleIsSeq
<1>3. EnableScan(h) = g
  BY SendIs DEF EnableScan, Idle, ScanOn, Host
<1> HIDE DEF c
<1>4. /\ g.out = <<c>> /\ g.scannerCommandInProgress
      /\ SameCalls(g, h) /\ SameScan(g, h) /\ SameLists(g, h) /\ SameFlags(g, h)
  BY DEF Idle, Host, SameCalls, SameScan, SameLists, SameFlags
<1>5. g \in Host
  BY <1>1, <1>2 DEF Idle, Host
<1>6. OwnUpdates(g)
  BY DEF Idle, Host, OwnUpdates
<1>7. QED
  BY <1>2, <1>3, <1>4, <1>5, <1>6 DEF c

LEMMA CreateConnectionDoes ==
  ASSUME NEW h, Idle(h), h.attempt \in Attempt
  PROVE  LET g == CreateConnection(h)
             c == CreateFor(h.attempt)
         IN /\ g \in Host /\ OwnUpdates(g) /\ c \in Command /\ g.out = <<c>>
            /\ SameCalls(g, h) /\ SameScan(g, h) /\ SameLists(g, h) /\ SameFlags(g, h)
            /\ g.scannerCommandInProgress = h.scannerCommandInProgress
<1> DEFINE c == CreateFor(h.attempt)
           g == [h EXCEPT !.out = <<c>>]
<1>1. c \in Command /\ <<c>> \in Seq(Command)
  <2>1. c \in Command
    BY CreateForIs
  <2> HIDE DEF c
  <2>2. QED
    BY <2>1, TupleIsSeq
<1>2. CreateConnection(h) = g
  BY SendIs DEF CreateConnection, Idle, CreateFor
<1> HIDE DEF c
<1>3. /\ g.out = <<c>> /\ g.scannerCommandInProgress = h.scannerCommandInProgress
      /\ SameCalls(g, h) /\ SameScan(g, h) /\ SameLists(g, h) /\ SameFlags(g, h)
  BY DEF Idle, Host, SameCalls, SameScan, SameLists, SameFlags
<1>4. g \in Host
  BY <1>1 DEF Idle, Host
<1>5. OwnUpdates(g)
  BY DEF Idle, Host, OwnUpdates
<1>6. QED
  BY <1>1, <1>2, <1>3, <1>4, <1>5 DEF c

\* What is sent once a list is up to date.
Final(h, who) ==
  IF who = "scanner" THEN ScanOn(h.scanChange.filterDuplicates) ELSE CreateFor(h.attempt)

\* Whoever updates the list has said what the list is for.
Ready(h, who) ==
  IF who = "scanner" THEN h.scanChange \in Change /\ h.scannerCommandInProgress
  ELSE h.attempt \in Attempt

\* An update of the list changes nothing but the list and its update.
SameButList(g, h) ==
  /\ SameCalls(g, h) /\ SameScan(g, h) /\ SameFlags(g, h)
  /\ g.whiteListUsage = h.whiteListUsage
  /\ g.scannerCommandInProgress = h.scannerCommandInProgress

LEMMA ListUpdatedDoes ==
  ASSUME NEW h, Idle(h), NEW who \in Who, Ready(h, who)
  PROVE  LET g == ListUpdated(h, who)
         IN /\ g \in Host /\ OwnUpdates(g) /\ Final(h, who) \in Command /\ g.out = <<Final(h, who)>>
            /\ SameButList(g, h) /\ SameLists(g, h)
<1>1. CASE who = "scanner"
  <2>1. h.scanChange \in Change /\ h.scannerCommandInProgress /\ h \in Host
    BY <1>1 DEF Ready, Idle
  <2>2. /\ ListUpdated(h, who) = EnableScan(h)
        /\ Final(h, who) = ScanOn(h.scanChange.filterDuplicates)
    BY <1>1 DEF ListUpdated, Final
  <2>3. EnableScan(h) \in Host
    BY <2>1, EnableScanDoes
  <2>4. h.scannerCommandInProgress = TRUE /\ EnableScan(h).scannerCommandInProgress = TRUE
    BY <2>1, <2>3, EnableScanDoes DEF Host
  <2>5. QED
    BY <2>1, <2>2, <2>4, EnableScanDoes DEF SameButList, SameLists
<1>2. CASE who = "initiator"
  <2>1. h.attempt \in Attempt
    BY <1>2 DEF Ready
  <2>2. /\ ListUpdated(h, who) = CreateConnection(h)
        /\ Final(h, who) = CreateFor(h.attempt)
    BY <1>2 DEF ListUpdated, Final
  <2>3. QED
    BY <2>1, <2>2, CreateConnectionDoes DEF SameButList, SameLists
<1>3. QED
  BY <1>1, <1>2 DEF Who

\* The last command of an update.
GoesOn(g, h, who) ==
  /\ h.update[who].ops = <<>>
  /\ g.currentWhiteList = h.update[who].newList /\ g.update = h.update
  /\ g.out = <<Final(h, who)>> /\ Final(h, who) \in Command

\* Another command of an update.
EditsOn(g, h, who) ==
  LET u == h.update[who]
      c == Head(u.ops)
  IN /\ u.ops # <<>> /\ c \in ListBy(who) /\ c \in Command
     /\ g.out = <<c>> /\ g.currentWhiteList = h.currentWhiteList
     /\ g.update[who].ops = Tail(u.ops) /\ g.update[who].newList = u.newList
     /\ \A other \in Who \ {who} : g.update[other] = h.update[other]

LEMMA ListByIsCommand ==
  ASSUME NEW who \in Who
  PROVE  ListBy(who) \subseteq ListCommandBy /\ ListBy(who) \subseteq Command
BY DEF Who, ListCommandBy, Command

LEMMA NextListCommandDoes ==
  ASSUME NEW h, Idle(h), NEW who \in Who, Ready(h, who)
  PROVE  LET g == NextListCommand(h, who)
         IN /\ g \in Host /\ OwnUpdates(g) /\ SameButList(g, h)
            /\ GoesOn(g, h, who) \/ EditsOn(g, h, who)
<1> DEFINE g == NextListCommand(h, who)
           u == h.update[who]
<1>1. u \in Update /\ u.ops \in Seq(ListBy(who)) /\ u.newList \in SUBSET Device
  BY DEF Idle, OwnUpdates, Host, Update
<1>2. CASE u.ops = <<>>
  <2> DEFINE k == [h EXCEPT !.currentWhiteList = u.newList]
  <2>1. k \in Host /\ k.out = <<>> /\ OwnUpdates(k)
    BY <1>1 DEF Idle, Host, OwnUpdates
  <2>2. /\ SameButList(k, h) /\ k.update = h.update /\ k.currentWhiteList = u.newList
        /\ k.scanChange = h.scanChange /\ k.attempt = h.attempt
    BY DEF Idle, Host, SameButList, SameCalls, SameScan, SameFlags
  <2>3. g = ListUpdated(k, who)
    BY <1>2 DEF NextListCommand
  <2> HIDE DEF k
  <2>4. Idle(k) /\ Ready(k, who) /\ Final(k, who) = Final(h, who)
    BY <2>1, <2>2 DEF Idle, Ready, Final, SameButList
  <2>5. /\ g \in Host /\ OwnUpdates(g) /\ Final(h, who) \in Command /\ g.out = <<Final(h, who)>>
        /\ SameButList(g, k) /\ SameLists(g, k)
    BY <2>3, <2>4, ListUpdatedDoes
  <2>6. SameButList(g, h)
    BY <2>2, <2>5 DEF SameButList, SameCalls, SameScan, SameFlags
  <2>7. GoesOn(g, h, who)
    BY <1>2, <2>2, <2>5 DEF GoesOn, SameLists
  <2>8. QED
    BY <2>5, <2>6, <2>7
<1>3. CASE u.ops # <<>>
  <2> DEFINE c == Head(u.ops)
             v == [u EXCEPT !.ops = Tail(u.ops)]
             k == [h EXCEPT !.update[who].ops = Tail(@)]
  <2>1. c \in ListBy(who) /\ Tail(u.ops) \in Seq(ListBy(who))
    BY <1>1, <1>3, HeadTailProperties
  <2>2. ListBy(who) \subseteq ListCommandBy /\ ListBy(who) \subseteq Command
    BY ListByIsCommand
  <2>3. Tail(u.ops) \in Seq(ListCommandBy) /\ c \in Command /\ <<c>> \in Seq(Command)
    <3>1. Tail(u.ops) \in Seq(ListCommandBy) /\ c \in Command
      BY <2>1, <2>2, SeqMonotonic
    <3> HIDE DEF c
    <3>2. QED
      BY <3>1, TupleIsSeq
  <2>4. h.update \in [Who -> Update]
    BY DEF Idle, Host
  <2>5. k = [h EXCEPT !.update = [h.update EXCEPT ![who] = v]]
    BY DEF Idle, Host, Update
  <2>6. v \in Update /\ v.ops = Tail(u.ops) /\ v.newList = u.newList
    BY <1>1, <2>3 DEF Update
  <2> DEFINE up == [h.update EXCEPT ![who] = v]
  <2>7. /\ up \in [Who -> Update] /\ up[who] = v
        /\ \A other \in Who \ {who} : up[other] = h.update[other]
    BY <2>4, <2>6
  <2>8. g = [h EXCEPT !.update = up, !.out = <<c>>]
    <3> HIDE DEF up, v, c
    <3>1. k.out = <<>>
      BY <2>5 DEF Idle, Host
    <3>2. g = Send(k, c)
      BY <1>3 DEF NextListCommand, c
    <3>3. g = [k EXCEPT !.out = <<c>>]
      BY <3>1, <3>2, SendIs
    <3> HIDE DEF k
    <3>4. k = [h EXCEPT !.update = up]
      BY <2>5 DEF up
    <3>5. QED
      BY <3>3, <3>4 DEF Idle, Host
  <2> HIDE DEF g, up, v, c
  <2>9. /\ g.out = <<c>> /\ g.update = up /\ g.currentWhiteList = h.currentWhiteList
        /\ SameButList(g, h)
    BY <2>8 DEF Idle, Host, SameButList, SameCalls, SameScan, SameFlags
  <2>10. g \in Host
    BY <2>3, <2>7, <2>8 DEF Idle, Host
  <2>11. OwnUpdates(g)
    BY <2>1, <2>6, <2>7, <2>9 DEF OwnUpdates, Idle
  <2>12. EditsOn(g, h, who)
    BY <1>3, <2>1, <2>3, <2>6, <2>7, <2>9 DEF EditsOn, c
  <2>13. QED
    BY <2>9, <2>10, <2>11, <2>12 DEF g
<1>4. QED
  BY <1>2, <1>3

\* The first command of an update, or the last if there is nothing to do.
BeginsUpdate(g, h, who, newList) ==
  /\ \A other \in Who \ {who} : g.update[other] = h.update[other]
  /\ g.update[who].newList = newList /\ g.currentWhiteList = h.currentWhiteList
  /\ \/ h.currentWhiteList = newList /\ g.out = <<Final(h, who)>> /\ Final(h, who) \in Command
     \/ \E c \in ListBy(who) :
          /\ c \in Command /\ g.out = <<c>> /\ ~c.last
          /\ Leads(After(h.currentWhiteList, c), g.update[who].ops, newList, who)
          /\ c.op = "add" => After(h.currentWhiteList, c) \subseteq newList

LEMMA UpdateWhiteListDoes ==
  ASSUME NEW h, Idle(h), NEW who \in Who, Ready(h, who), NEW newList \in SUBSET Device
  PROVE  LET g == UpdateWhiteList(h, newList, who)
         IN /\ g \in Host /\ OwnUpdates(g) /\ SameButList(g, h)
            /\ BeginsUpdate(g, h, who, newList)
<1> DEFINE g == UpdateWhiteList(h, newList, who)
           ops == ListCommands(h.currentWhiteList, newList, who)
           v == [ops |-> ops, newList |-> newList]
           k == [h EXCEPT !.update[who] = v]
           up == [h.update EXCEPT ![who] = v]
<1>1. /\ h \in Host /\ h.out = <<>> /\ OwnUpdates(h) /\ h.currentWhiteList \in SUBSET Device
      /\ h.update \in [Who -> Update]
  BY DEF Idle, Host
<1>2. /\ ops \in Seq(ListBy(who))
      /\ ops = <<>> => h.currentWhiteList = newList
      /\ ops # <<>> =>
           /\ Head(ops) \in ListBy(who) /\ Head(ops).who = who /\ ~Head(ops).last
           /\ Tail(ops) \in Seq(ListBy(who))
           /\ Leads(After(h.currentWhiteList, Head(ops)), Tail(ops), newList, who)
           /\ Head(ops).op = "add" => After(h.currentWhiteList, Head(ops)) \subseteq newList
  BY <1>1, ListCommandsLead
<1> HIDE DEF ops
<1>3. v \in Update /\ v.ops = ops /\ v.newList = newList
  <2>1. ops \in Seq(ListCommandBy)
    BY <1>2, ListByIsCommand, SeqMonotonic
  <2>2. QED
    BY <2>1 DEF Update
<1> HIDE DEF v
<1>4. /\ up \in [Who -> Update] /\ up[who] = v
      /\ \A other \in Who \ {who} : up[other] = h.update[other]
  BY <1>1, <1>3
<1>5. k = [h EXCEPT !.update = up]
  OBVIOUS
<1>6. g = NextListCommand(k, who)
  BY DEF UpdateWhiteList, v, ops
<1> HIDE DEF k, up, g
<1>7. /\ k \in Host /\ k.out = <<>> /\ k.update = up /\ k.currentWhiteList = h.currentWhiteList
      /\ SameButList(k, h)
  BY <1>1, <1>4, <1>5 DEF Host, SameButList, SameCalls, SameScan, SameFlags
<1>8. OwnUpdates(k)
  BY <1>1, <1>2, <1>3, <1>4, <1>7 DEF OwnUpdates
<1>9. Ready(k, who) /\ Final(k, who) = Final(h, who)
  BY <1>7 DEF Ready, Final, SameButList, SameCalls, SameScan
<1>10. /\ g \in Host /\ OwnUpdates(g) /\ SameButList(g, k)
       /\ GoesOn(g, k, who) \/ EditsOn(g, k, who)
  BY <1>6, <1>7, <1>8, <1>9, NextListCommandDoes DEF Idle
<1>11. SameButList(g, h)
  BY <1>7, <1>10 DEF SameButList, SameCalls, SameScan, SameFlags
<1>12. ASSUME GoesOn(g, k, who)
       PROVE  BeginsUpdate(g, h, who, newList)
  BY <1>2, <1>3, <1>4, <1>7, <1>9, <1>12 DEF GoesOn, BeginsUpdate
<1>13. ASSUME EditsOn(g, k, who)
       PROVE  BeginsUpdate(g, h, who, newList)
  <2> DEFINE c == Head(ops)
  <2>1. /\ ops # <<>> /\ c \in ListBy(who) /\ c \in Command /\ g.out = <<c>>
        /\ g.currentWhiteList = h.currentWhiteList
        /\ g.update[who].ops = Tail(ops) /\ g.update[who].newList = newList
        /\ \A other \in Who \ {who} : g.update[other] = h.update[other]
    BY <1>3, <1>4, <1>7, <1>13 DEF EditsOn
  <2>2. /\ ~c.last /\ Leads(After(h.currentWhiteList, c), g.update[who].ops, newList, who)
        /\ c.op = "add" => After(h.currentWhiteList, c) \subseteq newList
    BY <1>2, <2>1
  <2>3. QED
    BY <2>1, <2>2 DEF BeginsUpdate
<1>14. QED
  BY <1>10, <1>11, <1>12, <1>13 DEF g

\* What a clear after a failed command leads to.
Fallback(g, h, who) ==
  IF who = "scanner" THEN g.crashed = "scanningFailed" /\ g.out = <<>>
  ELSE /\ g.crashed = h.crashed
       /\ g.out = <<CreateFor(h.attempt)>> /\ CreateFor(h.attempt) \in Command

LEMMA LastListAnswerDoes ==
  ASSUME NEW h, Idle(h), NEW who \in Who, Ready(h, who),
         NEW c \in ListBy(who), c.last, NEW ok
  PROVE  LET g == ListAnswer(h, c, ok)
         IN /\ g \in Host /\ OwnUpdates(g) /\ SameCalls(g, h) /\ SameScan(g, h)
            /\ g.whiteListUsage = h.whiteListUsage /\ g.update = h.update
            /\ g.stopScanCallback = h.stopScanCallback /\ g.currentWhiteList = {}
            /\ g.scannerCommandInProgress = h.scannerCommandInProgress
            /\ Fallback(g, h, who)
<1> DEFINE g == ListAnswer(h, c, ok)
           k == [h EXCEPT !.currentWhiteList = {}]
<1>1. c.who = who
  BY DEF ListBy
<1>2. k \in Host /\ OwnUpdates(k) /\ k.out = <<>> /\ k.currentWhiteList = {}
  BY DEF Idle, Host, OwnUpdates
<1>3. SameButList(k, h) /\ k.update = h.update
  BY DEF Idle, Host, SameButList, SameCalls, SameScan, SameFlags
<1>4. g = IF who = "scanner" THEN Crash(k, "scanningFailed") ELSE CreateConnection(k)
  BY <1>1 DEF ListAnswer
<1> HIDE DEF k, g
<1>5. CASE who = "scanner"
  <2>1. g = [k EXCEPT !.crashed = "scanningFailed"]
    BY <1>4, <1>5 DEF Crash
  <2>2. /\ g \in Host /\ OwnUpdates(g) /\ g.crashed = "scanningFailed" /\ g.out = <<>>
        /\ SameCalls(g, k) /\ SameScan(g, k) /\ g.whiteListUsage = k.whiteListUsage
        /\ g.update = k.update /\ g.stopScanCallback = k.stopScanCallback
        /\ g.currentWhiteList = {} /\ g.scannerCommandInProgress = k.scannerCommandInProgress
    BY <1>2, <2>1 DEF Host, Why, OwnUpdates, SameCalls, SameScan
  <2>3. SameCalls(g, h) /\ SameScan(g, h)
    BY <1>3, <2>2 DEF SameButList, SameCalls, SameScan
  <2>4. QED
    BY <1>3, <1>5, <2>2, <2>3 DEF SameButList, SameFlags, Fallback, g
<1>6. CASE who # "scanner"
  <2>1. k.attempt \in Attempt /\ Idle(k) /\ k.attempt = h.attempt
    BY <1>2, <1>3, <1>6 DEF Ready, SameButList, SameCalls, Idle
  <2>2. /\ g \in Host /\ OwnUpdates(g) /\ CreateFor(h.attempt) \in Command
        /\ g.out = <<CreateFor(h.attempt)>>
        /\ SameCalls(g, k) /\ SameScan(g, k) /\ SameLists(g, k) /\ SameFlags(g, k)
        /\ g.scannerCommandInProgress = k.scannerCommandInProgress
    BY <1>4, <1>6, <2>1, CreateConnectionDoes
  <2>3. SameCalls(g, h) /\ SameScan(g, h)
    BY <1>3, <2>2 DEF SameButList, SameCalls, SameScan
  <2>4. QED
    BY <1>2, <1>3, <1>6, <2>2, <2>3 DEF SameButList, SameFlags, SameLists, Fallback, g
<1>7. QED
  BY <1>5, <1>6

LastClear(who) == [op |-> "clear", device |-> None, who |-> who, last |-> TRUE]

LEMMA ListAnswerDoes ==
  ASSUME NEW h, Idle(h), NEW who \in Who, Ready(h, who),
         NEW c \in ListBy(who), ~c.last, NEW ok
  PROVE  LET g == ListAnswer(h, c, ok)
         IN /\ g \in Host /\ OwnUpdates(g) /\ SameButList(g, h)
            /\ ok => GoesOn(g, h, who) \/ EditsOn(g, h, who)
            /\ ~ok => /\ SameLists(g, h) /\ g.out = <<LastClear(who)>>
                      /\ LastClear(who) \in ListBy(who) /\ LastClear(who) \in Command
<1> DEFINE g == ListAnswer(h, c, ok)
           e == LastClear(who)
<1>1. c.who = who
  BY DEF ListBy
<1>2. CASE ok
  <2>1. g = NextListCommand(h, who)
    BY <1>1, <1>2 DEF ListAnswer
  <2>2. QED
    BY <1>2, <2>1, NextListCommandDoes
<1>3. CASE ~ok
  <2>1. e \in ListBy(who) /\ e \in Command
    <3>1. e \in ListBy(who)
      BY DEF ListBy, LastClear, ListOp
    <3>2. QED
      BY <3>1, ListByIsCommand
  <2>2. g = Send(h, e)
    BY <1>1, <1>3 DEF ListAnswer, LastClear
  <2> HIDE DEF e
  <2>3. g = [h EXCEPT !.out = <<e>>]
    BY <2>2, SendIs DEF Idle
  <2>4. <<e>> \in Seq(Command)
    BY <2>1, TupleIsSeq
  <2> HIDE DEF g
  <2>5. g \in Host /\ OwnUpdates(g) /\ SameButList(g, h) /\ SameLists(g, h) /\ g.out = <<e>>
    BY <2>3, <2>4 DEF Idle, Host, OwnUpdates, SameButList, SameLists, SameCalls, SameScan, SameFlags
  <2>6. QED
    BY <1>3, <2>1, <2>5 DEF e, g
<1>4. QED
  BY <1>2, <1>3

\* A connection attempt goes to the controller, by way of the white list if it needs that.
Attempts(g, h) ==
  IF h.attempt.useWhiteList
  THEN g.whiteListUsage = "initiator" /\ BeginsUpdate(g, h, "initiator", h.attempt.devices)
  ELSE SameLists(g, h) /\ g.out = <<CreateFor(h.attempt)>> /\ CreateFor(h.attempt) \in Command

LEMMA StartAttemptDoes ==
  ASSUME NEW h, Idle(h), h.attempt \in Attempt
  PROVE  LET g == StartAttempt(h)
         IN /\ g \in Host /\ OwnUpdates(g) /\ SameCalls(g, h) /\ SameScan(g, h) /\ SameFlags(g, h)
            /\ g.scannerCommandInProgress = h.scannerCommandInProgress
            /\ Attempts(g, h)
<1> DEFINE g == StartAttempt(h)
<1>1. CASE h.attempt.useWhiteList
  <2> DEFINE k == [h EXCEPT !.whiteListUsage = "initiator"]
  <2>1. /\ k \in Host /\ k.out = <<>> /\ OwnUpdates(k) /\ k.currentWhiteList = h.currentWhiteList
        /\ SameCalls(k, h) /\ SameScan(k, h) /\ SameFlags(k, h)
        /\ k.scannerCommandInProgress = h.scannerCommandInProgress
        /\ k.whiteListUsage = "initiator" /\ k.update = h.update
    BY DEF Idle, Host, User, OwnUpdates, SameCalls, SameScan, SameFlags
  <2>2. g = UpdateWhiteList(k, h.attempt.devices, "initiator")
    BY <1>1 DEF StartAttempt
  <2> HIDE DEF k, g
  <2>3. "initiator" \in Who /\ "initiator" # "scanner" /\ h.attempt.devices \in SUBSET Device
    BY DEF Who, Attempt
  <2>4. Ready(k, "initiator") /\ Final(k, "initiator") = Final(h, "initiator")
    BY <2>1, <2>3 DEF Ready, Final, SameCalls
  <2>5. /\ g \in Host /\ OwnUpdates(g) /\ SameButList(g, k)
        /\ BeginsUpdate(g, k, "initiator", h.attempt.devices)
    BY <2>1, <2>2, <2>3, <2>4, UpdateWhiteListDoes DEF Idle
  <2>6. SameCalls(g, h) /\ SameScan(g, h) /\ SameFlags(g, h)
    BY <2>1, <2>5 DEF SameButList, SameCalls, SameScan, SameFlags
  <2>7. /\ g.whiteListUsage = "initiator"
        /\ g.scannerCommandInProgress = h.scannerCommandInProgress
    BY <2>1, <2>5 DEF SameButList
  <2>8. BeginsUpdate(g, h, "initiator", h.attempt.devices)
    BY <2>1, <2>4, <2>5 DEF BeginsUpdate
  <2>9. QED
    BY <1>1, <2>5, <2>6, <2>7, <2>8 DEF Attempts, g
<1>2. CASE ~h.attempt.useWhiteList
  <2>1. g = CreateConnection(h)
    BY <1>2 DEF StartAttempt
  <2>2. QED
    BY <1>2, <2>1, CreateConnectionDoes DEF Attempts
<1>3. QED
  BY <1>1, <1>2

\* The scan goes on with the list, or right away.
SetsList(g, h) ==
  IF h.scanChange.updateList
  THEN /\ g.whiteListUsage = h.whiteListUsage
       /\ BeginsUpdate(g, h, "scanner", h.scanChange.devices)
  ELSE /\ SameLists(g, h) /\ ScanOn(h.scanChange.filterDuplicates) \in Command
       /\ g.out = <<ScanOn(h.scanChange.filterDuplicates)>>

LEMMA ContWhiteListDoes ==
  ASSUME NEW h, Idle(h), h.scanChange \in Change
  PROVE  LET g == ContWhiteList(h)
         IN /\ g \in Host /\ OwnUpdates(g) /\ SameCalls(g, h) /\ SameScan(g, h) /\ SameFlags(g, h)
            /\ g.scannerCommandInProgress
            /\ SetsList(g, h)
<1> DEFINE g == ContWhiteList(h)
<1>1. CASE h.scanChange.updateList
  <2> DEFINE k == [h EXCEPT !.scannerCommandInProgress = TRUE]
  <2>1. /\ k \in Host /\ k.out = <<>> /\ OwnUpdates(k) /\ k.currentWhiteList = h.currentWhiteList
        /\ SameCalls(k, h) /\ SameScan(k, h) /\ SameFlags(k, h)
        /\ k.scannerCommandInProgress = TRUE
        /\ k.whiteListUsage = h.whiteListUsage /\ k.update = h.update
    BY DEF Idle, Host, User, OwnUpdates, SameCalls, SameScan, SameFlags
  <2>2. g = UpdateWhiteList(k, h.scanChange.devices, "scanner")
    BY <1>1 DEF ContWhiteList
  <2> HIDE DEF k, g
  <2>3. "scanner" \in Who /\ h.scanChange.devices \in SUBSET Device
    BY DEF Who, Change
  <2>4. Ready(k, "scanner") /\ Final(k, "scanner") = Final(h, "scanner")
    BY <2>1, <2>3 DEF Ready, Final, SameScan
  <2>5. /\ g \in Host /\ OwnUpdates(g) /\ SameButList(g, k)
        /\ BeginsUpdate(g, k, "scanner", h.scanChange.devices)
    BY <2>1, <2>2, <2>3, <2>4, UpdateWhiteListDoes DEF Idle
  <2>6. SameCalls(g, h) /\ SameScan(g, h) /\ SameFlags(g, h)
    BY <2>1, <2>5 DEF SameButList, SameCalls, SameScan, SameFlags
  <2>7. g.whiteListUsage = h.whiteListUsage /\ g.scannerCommandInProgress
    BY <2>1, <2>5 DEF SameButList
  <2>8. BeginsUpdate(g, h, "scanner", h.scanChange.devices)
    BY <2>1, <2>4, <2>5 DEF BeginsUpdate
  <2>9. QED
    BY <1>1, <2>5, <2>6, <2>7, <2>8 DEF SetsList, g
<1>2. CASE ~h.scanChange.updateList
  <2>1. g = EnableScan(h)
    BY <1>2 DEF ContWhiteList
  <2>2. QED
    BY <1>2, <2>1, EnableScanDoes DEF SetsList
<1>3. QED
  BY <1>1, <1>2

-----------------------------------------------------------------------------
(* triggerScannerChange *)

LiveFilters(h) == UNION {h.scanners[s].filters : s \in Live(h)}

LEMMA LiveIsKind ==
  ASSUME NEW h \in Host
  PROVE  /\ \A s \in Live(h) : s \in Scan /\ h.scanners[s] \in Kind
         /\ Live(h) \subseteq Scan /\ LiveFilters(h) \subseteq Device
<1>1. \A s \in Live(h) : s \in Scan /\ h.scanners[s] \in Kind
  BY DEF Live, Host
<1>2. \A s \in Live(h) : h.scanners[s].filters \subseteq Device
  BY <1>1 DEF Kind
<1>3. QED
  BY <1>1, <1>2 DEF LiveFilters

LEMMA ScanForIs ==
  ASSUME NEW h \in Host
  PROVE  LET c == ScanFor(h)
         IN /\ c \in Change
            /\ c.active <=> \E s \in Live(h) : h.scanners[s].active
            /\ c.policy <=> /\ h.whiteListUsage = "none"
                            /\ \A s \in Live(h) : h.scanners[s].filters # {}
            /\ c.policy => c.devices = LiveFilters(h)
            /\ c.updateList <=> c.policy /\ h.currentWhiteList # c.devices
<1> DEFINE live == {h.scanners[s] : s \in Live(h)}
           useList == h.whiteListUsage = "none" /\ \A k \in live : k.filters # {}
           devices == IF useList THEN UNION {k.filters : k \in live} ELSE {}
           c == ScanFor(h)
<1>1. \A s \in Live(h) : s \in Scan /\ h.scanners[s] \in Kind
  BY LiveIsKind
<1>2. /\ c.active = (\E k \in live : k.active) /\ c.policy = useList /\ c.devices = devices
      /\ c.updateList = (useList /\ h.currentWhiteList # devices)
      /\ c.filterDuplicates = (\A k \in live : ~k.active /\ k.filterDuplicates)
  BY DEF ScanFor
<1>3. c = [active |-> \E k \in live : k.active, policy |-> useList, devices |-> devices,
           updateList |-> useList /\ h.currentWhiteList # devices,
           filterDuplicates |-> \A k \in live : ~k.active /\ k.filterDuplicates]
  BY DEF ScanFor
<1>4. UNION {k.filters : k \in live} = LiveFilters(h)
  BY DEF LiveFilters
<1>5. devices \in SUBSET Device
  BY <1>4, LiveIsKind
<1>6. (\E k \in live : k.active) \in BOOLEAN
  OBVIOUS
<1>7. useList \in BOOLEAN
  OBVIOUS
<1>8. c \in Change
  BY <1>3, <1>5 DEF Change
<1>9. useList <=> h.whiteListUsage = "none" /\ \A s \in Live(h) : h.scanners[s].filters # {}
  OBVIOUS
<1>10. c.active <=> \E s \in Live(h) : h.scanners[s].active
  BY <1>2
<1>11. QED
  BY <1>2, <1>4, <1>8, <1>9, <1>10

SameScanners(g, h) ==
  /\ g.scanners = h.scanners /\ g.scanEnabled = h.scanEnabled
  /\ g.active = h.active /\ g.policy = h.policy

\* The scan of the controller is the one the live scanners ask for.
IsAsWanted(h) ==
  IF Live(h) = {} THEN ~h.scanEnabled
  ELSE /\ h.scanEnabled /\ h.active = ScanFor(h).active /\ h.policy = ScanFor(h).policy
       /\ ~ScanFor(h).updateList

LeavesScan(g, h) ==
  /\ SameCalls(g, h) /\ SameFlags(g, h) /\ SameLists(g, h) /\ SameScanners(g, h)
  /\ g.scanChange = h.scanChange
  /\ g.scannerCommandInProgress = h.scannerCommandInProgress /\ g.out = <<>>
  /\ h.scannerCommandInProgress \/ (~h.stopScanCallback /\ IsAsWanted(h))

ScanOff == [op |-> "scanOff"]

StopsScan(g, h) ==
  /\ ~h.scannerCommandInProgress /\ h.scanEnabled
  /\ SameCalls(g, h) /\ SameFlags(g, h) /\ SameLists(g, h) /\ SameScanners(g, h)
  /\ g.scanChange = h.scanChange
  /\ g.scannerCommandInProgress /\ g.out = <<ScanOff>> /\ ScanOff \in Command

ResumesAttempt(g, h) ==
  /\ ~h.scannerCommandInProgress /\ h.stopScanCallback
  /\ SameCalls(g, h) /\ SameScanners(g, h) /\ g.scanChange = h.scanChange
  /\ g.crashed = h.crashed /\ ~g.stopScanCallback /\ ~g.scannerCommandInProgress
  /\ Attempts(g, h)

ScanParameters(c) == [op |-> "scanParameters", active |-> c.active, policy |-> c.policy]

\* The first command for a scan.
SetsScan(g, h) ==
  LET c == ScanFor(h)
      user == IF c.policy THEN "scanner" ELSE h.whiteListUsage
  IN /\ ~h.scannerCommandInProgress /\ ~h.stopScanCallback /\ ~h.scanEnabled /\ Live(h) # {}
     /\ SameCalls(g, h) /\ SameFlags(g, h) /\ SameScanners(g, h)
     /\ g.scanChange = c /\ g.scannerCommandInProgress
     /\ \/ /\ g.out = <<ScanParameters(c)>> /\ ScanParameters(c) \in Command
           /\ g.whiteListUsage = user /\ g.update = h.update
           /\ g.currentWhiteList = h.currentWhiteList
        \/ /\ h.active = c.active /\ h.policy = c.policy /\ c.updateList
           /\ g.whiteListUsage = user /\ BeginsUpdate(g, h, "scanner", c.devices)
        \/ /\ h.active = c.active /\ h.policy = c.policy /\ ~c.updateList
           /\ SameLists(g, h)
           /\ g.out = <<ScanOn(c.filterDuplicates)>> /\ ScanOn(c.filterDuplicates) \in Command

LEMMA StopsScanByDisable ==
  ASSUME NEW h, Idle(h), ~h.scannerCommandInProgress, h.scanEnabled, NEW r \in BOOLEAN,
         NEW k, k = [h EXCEPT !.scanningNeedsRestart = r]
  PROVE  LET g == DisableScan(k) IN g \in Host /\ OwnUpdates(g) /\ StopsScan(g, h)
<1> DEFINE g == DisableScan(k)
           e == ScanOff
           m == [k EXCEPT !.scannerCommandInProgress = TRUE]
<1>1. e \in Command
  BY DEF Command, ScanOff
<1>2. m.out = <<>>
  BY DEF Idle, Host
<1>3. g = Send(m, e)
  BY DEF DisableScan, ScanOff
<1> HIDE DEF e, m
<1>4. <<e>> \in Seq(Command)
  BY <1>1, TupleIsSeq
<1>5. g = [m EXCEPT !.out = <<e>>]
  BY <1>2, <1>3, SendIs
<1> HIDE DEF g
<1>6. /\ g \in Host /\ OwnUpdates(g) /\ g.out = <<e>>
      /\ SameCalls(g, h) /\ SameFlags(g, h) /\ SameLists(g, h) /\ SameScanners(g, h)
      /\ g.scanChange = h.scanChange /\ g.scannerCommandInProgress
  BY <1>4, <1>5 DEF m, Idle, Host, OwnUpdates, SameCalls, SameFlags, SameLists, SameScanners
<1>7. QED
  BY <1>1, <1>6 DEF StopsScan, e, g

\* A scan that is off is set up: the parameters first, then the list, then the scan.
LEMMA ApplyScanSets ==
  ASSUME NEW h, Idle(h), ~h.scannerCommandInProgress, ~h.stopScanCallback, ~h.scanEnabled,
         Live(h) # {}
  PROVE  LET g == ApplyScan(h) IN g \in Host /\ OwnUpdates(g) /\ SetsScan(g, h)
<1> DEFINE c == ScanFor(h)
           g == ApplyScan(h)
           user == IF c.policy THEN "scanner" ELSE h.whiteListUsage
           params == h.active # c.active \/ h.policy # c.policy
           k == [h EXCEPT !.scanChange = c]
           used == [k EXCEPT !.whiteListUsage = user]
<1>1. c \in Change /\ c.active \in BOOLEAN /\ c.policy \in BOOLEAN /\ c.updateList \in BOOLEAN
  BY ScanForIs DEF Change, Idle
<1>2. used = [k EXCEPT !.whiteListUsage = IF c.policy THEN "scanner" ELSE @]
  BY DEF Idle, Host
<1>3. g = CASE (params \/ c.updateList) /\ h.scanEnabled ->
                   DisableScan([h EXCEPT !.scanningNeedsRestart = TRUE])
            [] params /\ ~h.scanEnabled ->
                   Send([used EXCEPT !.scannerCommandInProgress = TRUE],
                        [op |-> "scanParameters", active |-> c.active, policy |-> c.policy])
            [] ~params /\ c.updateList /\ ~h.scanEnabled -> ContWhiteList(used)
            [] ~params /\ ~c.updateList /\ ~h.scanEnabled -> EnableScan(k)
            [] OTHER -> h
  BY <1>2 DEF ApplyScan
<1> HIDE DEF g, c
<1>4. user \in User
  BY DEF User, Idle, Host
<1>5. /\ used \in Host /\ used.out = <<>> /\ OwnUpdates(used) /\ used.scanChange = c
      /\ SameCalls(used, h) /\ SameFlags(used, h) /\ SameScanners(used, h)
      /\ used.whiteListUsage = user /\ used.update = h.update
      /\ used.currentWhiteList = h.currentWhiteList
  BY <1>1, <1>4 DEF Idle, Host, OwnUpdates, SameCalls, SameFlags, SameScanners
<1>6. /\ k \in Host /\ k.out = <<>> /\ OwnUpdates(k) /\ k.scanChange = c
      /\ SameCalls(k, h) /\ SameFlags(k, h) /\ SameScanners(k, h) /\ SameLists(k, h)
  BY <1>1, <1>4 DEF Idle, Host, OwnUpdates, SameCalls, SameFlags, SameScanners, SameLists
<1> HIDE DEF user
<1>7. CASE params
  <2> DEFINE m == [used EXCEPT !.scannerCommandInProgress = TRUE]
             e == ScanParameters(c)
  <2>1. g = Send(m, e)
    BY <1>3, <1>7 DEF ScanParameters
  <2>2. e \in Command
    BY <1>1 DEF ScanParameters, Command
  <2>3. m.out = <<>>
    BY <1>5 DEF Host
  <2> HIDE DEF e, m
  <2>4. <<e>> \in Seq(Command) /\ g = [m EXCEPT !.out = <<e>>]
    BY <2>1, <2>2, <2>3, SendIs, TupleIsSeq
  <2> HIDE DEF used
  <2>5. /\ g \in Host /\ OwnUpdates(g) /\ g.out = <<e>> /\ g.scanChange = c
        /\ SameCalls(g, used) /\ SameFlags(g, used) /\ SameScanners(g, used)
        /\ g.whiteListUsage = user /\ g.update = h.update
        /\ g.currentWhiteList = h.currentWhiteList /\ g.scannerCommandInProgress
    BY <1>5, <2>4 DEF m, Host, OwnUpdates, SameCalls, SameFlags, SameScanners
  <2>6. SameCalls(g, h) /\ SameFlags(g, h) /\ SameScanners(g, h)
    BY <1>5, <2>5 DEF SameCalls, SameFlags, SameScanners
  <2>7. SetsScan(g, h)
    BY <2>2, <2>5, <2>6 DEF SetsScan, e, c, user
  <2>8. QED
    BY <2>5, <2>7 DEF g
<1>8. CASE ~params /\ c.updateList
  <2>1. g = ContWhiteList(used)
    BY <1>3, <1>8
  <2> HIDE DEF used
  <2>2. /\ g \in Host /\ OwnUpdates(g) /\ SameCalls(g, used) /\ SameScan(g, used) /\ SameFlags(g, used)
        /\ g.scannerCommandInProgress /\ SetsList(g, used)
    BY <1>1, <1>5, <2>1, ContWhiteListDoes DEF Idle
  <2>3. SameCalls(g, h) /\ SameFlags(g, h) /\ SameScanners(g, h) /\ g.scanChange = c
    BY <1>5, <2>2 DEF SameCalls, SameFlags, SameScanners, SameScan
  <2>4. g.whiteListUsage = user /\ BeginsUpdate(g, used, "scanner", c.devices)
    BY <1>5, <1>8, <2>2 DEF SetsList
  <2>5. Final(used, "scanner") = ScanOn(c.filterDuplicates)
    BY <1>5 DEF Final
  <2>6. used.currentWhiteList # c.devices
    BY <1>5, <1>8, ScanForIs DEF c, Idle
  <2>7. BeginsUpdate(g, h, "scanner", c.devices)
    BY <1>5, <2>4, <2>6 DEF BeginsUpdate
  <2>8. SetsScan(g, h)
    BY <1>8, <2>2, <2>3, <2>4, <2>7 DEF SetsScan, c, user
  <2>9. QED
    BY <2>2, <2>8 DEF g
<1>9. CASE ~params /\ ~c.updateList
  <2>1. g = EnableScan(k)
    BY <1>3, <1>9
  <2> HIDE DEF k
  <2>2. /\ g \in Host /\ OwnUpdates(g) /\ ScanOn(c.filterDuplicates) \in Command
        /\ g.out = <<ScanOn(c.filterDuplicates)>>
        /\ SameCalls(g, k) /\ SameScan(g, k) /\ SameLists(g, k) /\ SameFlags(g, k)
        /\ g.scannerCommandInProgress
    BY <1>1, <1>6, <2>1, EnableScanDoes DEF Idle
  <2>3. /\ SameCalls(g, h) /\ SameFlags(g, h) /\ SameScanners(g, h) /\ g.scanChange = c
        /\ SameLists(g, h)
    BY <1>6, <2>2 DEF SameCalls, SameFlags, SameScanners, SameScan, SameLists
  <2>4. SetsScan(g, h)
    BY <1>9, <2>2, <2>3 DEF SetsScan, c
  <2>5. QED
    BY <2>2, <2>4 DEF g
<1>10. QED
  BY <1>7, <1>8, <1>9

LEMMA TriggerScannerChangeDoes ==
  ASSUME NEW h, Idle(h), h.stopScanCallback => h.attempt \in Attempt
  PROVE  LET g == TriggerScannerChange(h)
         IN /\ g \in Host /\ OwnUpdates(g)
            /\ LeavesScan(g, h) \/ StopsScan(g, h) \/ SetsScan(g, h) \/ ResumesAttempt(g, h)
<1> DEFINE g == TriggerScannerChange(h)
           k == [h EXCEPT !.scanningNeedsRestart = FALSE]
           off == Live(h) = {} \/ h.scanningNeedsRestart \/ h.stopScanCallback
           c == ScanFor(h)
<1>1. /\ k \in Host /\ k.out = <<>> /\ OwnUpdates(k)
      /\ SameCalls(k, h) /\ SameFlags(k, h) /\ SameScanners(k, h) /\ SameLists(k, h)
      /\ k.scanChange = h.scanChange
      /\ k.scannerCommandInProgress = h.scannerCommandInProgress
  BY DEF Idle, Host, OwnUpdates, SameCalls, SameFlags, SameScanners, SameLists
<1>2. Live(k) = Live(h) /\ ScanFor(k) = ScanFor(h) /\ IsAsWanted(k) = IsAsWanted(h)
  <2> HIDE DEF k
  <2>1. Live(k) = Live(h)
    BY <1>1 DEF Live, SameScanners
  <2>2. ScanFor(k) = ScanFor(h)
    BY <1>1, <2>1 DEF ScanFor, SameScanners, SameLists
  <2>3. QED
    BY <1>1, <2>1, <2>2 DEF IsAsWanted, SameScanners
<1>3. g = CASE h.scannerCommandInProgress -> h
            [] ~h.scannerCommandInProgress /\ h.scanEnabled /\ off -> DisableScan(h)
            [] OTHER -> IF h.stopScanCallback THEN StartAttempt([k EXCEPT !.stopScanCallback = FALSE])
                        ELSE IF Live(h) # {} THEN ApplyScan(k) ELSE k
  BY DEF TriggerScannerChange
<1> HIDE DEF g
<1>4. CASE h.scannerCommandInProgress
  <2>1. g = h
    BY <1>3, <1>4
  <2>2. LeavesScan(g, h)
    BY <1>4, <2>1 DEF LeavesScan, SameCalls, SameFlags, SameLists, SameScanners, Idle
  <2>3. QED
    BY <2>1, <2>2 DEF g, Idle
<1>5. CASE ~h.scannerCommandInProgress /\ h.scanEnabled /\ off
  <2>1. g = DisableScan(h)
    BY <1>3, <1>5
  <2>2. h = [h EXCEPT !.scanningNeedsRestart = h.scanningNeedsRestart] /\ h.scanningNeedsRestart \in BOOLEAN
    BY DEF Idle, Host
  <2>3. QED
    BY <1>5, <2>1, <2>2, StopsScanByDisable DEF g
<1>6. CASE ~h.scannerCommandInProgress /\ ~(h.scanEnabled /\ off) /\ h.stopScanCallback
  <2> DEFINE m == [k EXCEPT !.stopScanCallback = FALSE]
  <2>1. g = StartAttempt(m)
    BY <1>3, <1>6
  <2>2. /\ m \in Host /\ m.out = <<>> /\ OwnUpdates(m)
        /\ SameCalls(m, h) /\ m.crashed = h.crashed /\ m.stopScanCallback = FALSE
        /\ SameScanners(m, h) /\ SameLists(m, h) /\ m.scanChange = h.scanChange
        /\ m.scannerCommandInProgress = h.scannerCommandInProgress
    BY DEF Idle, Host, OwnUpdates, SameCalls, SameScanners, SameLists
  <2> HIDE DEF m
  <2>3. m.attempt \in Attempt /\ m.attempt = h.attempt
    BY <1>6, <2>2 DEF SameCalls
  <2>4. /\ g \in Host /\ OwnUpdates(g) /\ SameCalls(g, m) /\ SameScan(g, m) /\ SameFlags(g, m)
        /\ g.scannerCommandInProgress = m.scannerCommandInProgress /\ Attempts(g, m)
    BY <2>1, <2>2, <2>3, StartAttemptDoes DEF Idle
  <2>5. Final(m, "initiator") = Final(h, "initiator")
    BY <2>3 DEF Final
  <2>6. Attempts(g, h)
    BY <2>2, <2>3, <2>4, <2>5 DEF Attempts, SameLists, BeginsUpdate
  <2>7. ResumesAttempt(g, h)
    BY <1>6, <2>2, <2>4, <2>6
       DEF ResumesAttempt, SameCalls, SameScanners, SameScan, SameFlags
  <2>8. QED
    BY <2>4, <2>7 DEF g
<1>7. CASE /\ ~h.scannerCommandInProgress /\ ~(h.scanEnabled /\ off) /\ ~h.stopScanCallback
           /\ Live(h) = {}
  <2>1. g = k
    BY <1>3, <1>7
  <2>2. LeavesScan(g, h)
    BY <1>1, <1>7, <2>1 DEF LeavesScan, IsAsWanted
  <2>3. QED
    BY <1>1, <2>1, <2>2 DEF g
<1>8. CASE /\ ~h.scannerCommandInProgress /\ ~(h.scanEnabled /\ off) /\ ~h.stopScanCallback
           /\ Live(h) # {} /\ ~h.scanEnabled
  <2>1. g = ApplyScan(k)
    BY <1>3, <1>8
  <2>2. g \in Host /\ OwnUpdates(g) /\ SetsScan(g, k)
    BY <1>1, <1>2, <1>8, <2>1, ApplyScanSets DEF Idle, SameFlags, SameScanners
  <2>3. SetsScan(g, h)
    <3>1. k.whiteListUsage = h.whiteListUsage /\ k.update = h.update
          /\ k.currentWhiteList = h.currentWhiteList /\ k.active = h.active /\ k.policy = h.policy
      BY <1>1 DEF SameLists, SameScanners
    <3>2. SameCalls(g, h) /\ SameFlags(g, h) /\ SameScanners(g, h)
      BY <1>1, <2>2 DEF SetsScan, SameCalls, SameFlags, SameScanners
    <3>3. SameLists(g, k) => SameLists(g, h)
      BY <3>1 DEF SameLists
    <3>4. ASSUME g.scanChange = c
          PROVE  BeginsUpdate(g, k, "scanner", c.devices) /\ c.updateList =>
                   BeginsUpdate(g, h, "scanner", c.devices)
      <4>1. c.updateList => k.currentWhiteList # c.devices
        BY <3>1, ScanForIs DEF Idle
      <4>2. QED
        BY <3>1, <4>1 DEF BeginsUpdate
    <3> HIDE DEF k, c
    <3>5. QED
      BY <1>2, <1>8, <2>2, <3>1, <3>2, <3>3, <3>4 DEF SetsScan, c
  <2>4. QED
    BY <2>2, <2>3 DEF g
<1>9. CASE /\ ~h.scannerCommandInProgress /\ ~off /\ ~h.stopScanCallback
           /\ Live(h) # {} /\ h.scanEnabled
  <2>1. g = ApplyScan(k)
    BY <1>3, <1>9
  <2>2. k.active = h.active /\ k.policy = h.policy /\ k.scanEnabled = h.scanEnabled
    BY <1>1 DEF SameScanners
  <2> DEFINE m == [k EXCEPT !.scanningNeedsRestart = TRUE]
  <2>3. g = IF h.active # c.active \/ h.policy # c.policy \/ c.updateList THEN DisableScan(m) ELSE k
    <3> HIDE DEF c, k, m
    <3>1. QED
      BY <1>2, <1>9, <2>1, <2>2 DEF ApplyScan, c, m
  <2>4. CASE h.active # c.active \/ h.policy # c.policy \/ c.updateList
    <3>1. m = [h EXCEPT !.scanningNeedsRestart = TRUE]
      BY DEF Idle, Host
    <3>2. g = DisableScan(m)
      BY <2>3, <2>4
    <3> HIDE DEF m, g
    <3>3. g \in Host /\ OwnUpdates(g) /\ StopsScan(g, h)
      BY <1>9, <3>1, <3>2, StopsScanByDisable
    <3>4. QED
      BY <3>3 DEF g
  <2>5. CASE ~(h.active # c.active \/ h.policy # c.policy \/ c.updateList)
    <3>1. g = k
      BY <2>3, <2>5
    <3>2. IsAsWanted(h)
      BY <1>9, <2>5 DEF IsAsWanted
    <3> HIDE DEF k
    <3>3. LeavesScan(g, h)
      BY <1>1, <1>9, <3>1, <3>2 DEF LeavesScan
    <3>4. QED
      BY <1>1, <3>1, <3>3 DEF g
  <2>6. QED
    BY <2>4, <2>5
<1>10. QED
  BY <1>4, <1>5, <1>6, <1>7, <1>8, <1>9

-----------------------------------------------------------------------------
(* triggerConnectionChange *)

AttemptFor(h) ==
  [conns |-> h.pending, devices |-> Wanted(h),
   useWhiteList |-> Cardinality(h.pending) \in 2 .. WhiteListSize]

TooMany(h) == Cardinality(h.pending) > WhiteListSize

PendingAreCalls(h) == \A c \in h.pending : h.device[c] # None

LEMMA AttemptForIs ==
  ASSUME NEW h \in Host, PendingAreCalls(h)
  PROVE  /\ h.pending \subseteq Connect /\ Wanted(h) \subseteq Device
         /\ h.pending # {} => AttemptFor(h) \in Attempt /\ Wanted(h) # {}
<1>1. h.pending \subseteq Connect /\ h.device \in [Connect -> Device \cup {None}]
  BY DEF Host
<1>2. \A c \in h.pending : h.device[c] \in Device
  BY <1>1 DEF PendingAreCalls
<1>3. Wanted(h) \subseteq Device
  BY <1>2 DEF Wanted
<1>4. h.pending # {} => Wanted(h) # {}
  BY DEF Wanted
<1>5. QED
  BY <1>1, <1>3, <1>4 DEF AttemptFor, Attempt

\* The fields of the scan, and the commands for it.
SameScanner(g, h) ==
  SameScan(g, h) /\ g.scannerCommandInProgress = h.scannerCommandInProgress

\* What the calls themselves have come to.
SameOutcomes(g, h) ==
  /\ g.device = h.device /\ g.pending = h.pending /\ g.cancelled = h.cancelled
  /\ g.connections = h.connections /\ g.outcome = h.outcome

\* The attempt that runs is the one that is wanted, or there is none and none is wanted.
AttemptFits(h) ==
  \/ h.connectCommandInProgress \/ h.cancelCommandInProgress \/ h.stopScanCallback
  \/ IF h.createConnectionIsOutstanding THEN h.attempt.devices = Wanted(h) ELSE h.pending = {}

KeepsAttempt(g, h) ==
  /\ SameCalls(g, h) /\ SameFlags(g, h) /\ SameLists(g, h) /\ SameScanner(g, h) /\ g.out = <<>>
  /\ AttemptFits(h)

\* More connections are pending than the white list has room for: the process ends.
LacksRoom(g, h) ==
  /\ g.crashed = "startScan" /\ g.out = <<>>
  /\ SameCalls(g, h) /\ SameLists(g, h) /\ SameScanner(g, h)

CancelCommand == [op |-> "cancel"]

CancelsAttempt(g, h) ==
  /\ ~h.connectCommandInProgress /\ ~h.cancelCommandInProgress /\ h.createConnectionIsOutstanding
  /\ SameOutcomes(g, h) /\ SameFlags(g, h) /\ SameLists(g, h) /\ SameScanner(g, h)
  /\ g.connecting = h.connecting /\ g.attempt = h.attempt
  /\ g.connectCommandInProgress = h.connectCommandInProgress /\ g.cancelCommandInProgress
  /\ g.createConnectionIsOutstanding = h.createConnectionIsOutstanding
  /\ g.out = <<CancelCommand>> /\ CancelCommand \in Command

\* An attempt for all that is pending begins, or waits for the scan to be off.
BeginsAttempt(g, h) ==
  /\ ~h.connectCommandInProgress /\ ~h.cancelCommandInProgress
  /\ ~h.createConnectionIsOutstanding /\ ~h.stopScanCallback /\ h.pending # {}
  /\ SameOutcomes(g, h) /\ SameScanner(g, h) /\ g.crashed = h.crashed
  /\ g.connecting = h.connecting \cup h.pending /\ g.attempt = AttemptFor(h)
  /\ g.connectCommandInProgress /\ ~g.cancelCommandInProgress /\ ~g.createConnectionIsOutstanding
  /\ ~TooMany(h)
  /\ IF AttemptFor(h).useWhiteList /\ h.whiteListUsage = "scanner"
     THEN g.stopScanCallback /\ SameLists(g, h) /\ g.out = <<>>
     ELSE /\ ~g.stopScanCallback
          /\ \E k : k.attempt = AttemptFor(h) /\ SameLists(k, h) /\ Attempts(g, k)

LEMMA SendCancelDoes ==
  ASSUME NEW h, Idle(h)
  PROVE  LET g == SendCancel(h)
         IN /\ g \in Host /\ OwnUpdates(g)
            /\ SameOutcomes(g, h) /\ SameFlags(g, h) /\ SameLists(g, h) /\ SameScanner(g, h)
            /\ g.connecting = h.connecting /\ g.attempt = h.attempt
            /\ g.connectCommandInProgress = h.connectCommandInProgress
            /\ g.cancelCommandInProgress
            /\ g.createConnectionIsOutstanding = h.createConnectionIsOutstanding
            /\ g.out = <<CancelCommand>> /\ CancelCommand \in Command
<1> DEFINE g == SendCancel(h)
           e == CancelCommand
           m == [h EXCEPT !.cancelCommandInProgress = TRUE]
<1>1. e \in Command
  BY DEF Command, CancelCommand
<1>2. m.out = <<>>
  BY DEF Idle, Host
<1>3. g = Send(m, e)
  BY DEF SendCancel, CancelCommand
<1> HIDE DEF e, m
<1>4. <<e>> \in Seq(Command)
  BY <1>1, TupleIsSeq
<1>5. g = [m EXCEPT !.out = <<e>>]
  BY <1>2, <1>3, SendIs
<1> HIDE DEF g
<1>6. /\ g \in Host /\ OwnUpdates(g) /\ g.out = <<e>>
      /\ SameOutcomes(g, h) /\ SameFlags(g, h) /\ SameLists(g, h) /\ SameScanner(g, h)
      /\ g.connecting = h.connecting /\ g.attempt = h.attempt
      /\ g.connectCommandInProgress = h.connectCommandInProgress
      /\ g.cancelCommandInProgress
      /\ g.createConnectionIsOutstanding = h.createConnectionIsOutstanding
  BY <1>4, <1>5
     DEF m, Idle, Host, OwnUpdates, SameOutcomes, SameFlags, SameLists, SameScan, SameScanner
<1>7. QED
  BY <1>1, <1>6 DEF e, g

LEMMA TriggerConnectionChangeDoes ==
  ASSUME NEW h, Idle(h), PendingAreCalls(h)
  PROVE  LET g == TriggerConnectionChange(h)
         IN /\ g \in Host /\ OwnUpdates(g)
            /\ \/ LacksRoom(g, h)
               \/ KeepsAttempt(g, h) \/ CancelsAttempt(g, h) \/ BeginsAttempt(g, h)
<1> DEFINE g == TriggerConnectionChange(h)
           a == AttemptFor(h)
           k == [h EXCEPT !.connecting = @ \cup h.pending, !.connectCommandInProgress = TRUE,
                          !.attempt = a]
           many == TooMany(h)
<1>1. g = IF h.connectCommandInProgress \/ h.cancelCommandInProgress THEN h
          ELSE IF many THEN Crash(h, "startScan")
          ELSE IF h.stopScanCallback THEN h
          ELSE IF h.createConnectionIsOutstanding
               THEN IF h.attempt.devices = Wanted(h) THEN h ELSE SendCancel(h)
          ELSE IF h.pending = {} THEN h
          ELSE IF a.useWhiteList /\ h.whiteListUsage = "scanner"
               THEN [k EXCEPT !.stopScanCallback = TRUE]
               ELSE StartAttempt(k)
  BY DEF TriggerConnectionChange, AttemptFor, TooMany
<1> HIDE DEF g
<1>2. CASE g = h /\ AttemptFits(h)
  <2>1. KeepsAttempt(g, h)
    BY <1>2 DEF KeepsAttempt, SameCalls, SameFlags, SameLists, SameScanner, SameScan, Idle
  <2>2. QED
    BY <1>2, <2>1 DEF g, Idle
<1>3. CASE g = Crash(h, "startScan")
  <2>1. g = [h EXCEPT !.crashed = "startScan"]
    BY <1>3 DEF Crash
  <2>2. g \in Host /\ OwnUpdates(g) /\ LacksRoom(g, h)
    BY <2>1
       DEF Idle, Host, Why, OwnUpdates, LacksRoom, SameCalls, SameLists, SameScanner, SameScan
  <2>3. QED
    BY <2>2 DEF g
<1>4. CASE /\ ~h.connectCommandInProgress /\ ~h.cancelCommandInProgress
           /\ h.createConnectionIsOutstanding /\ g = SendCancel(h)
  <2>1. g \in Host /\ OwnUpdates(g) /\ CancelsAttempt(g, h)
    BY <1>4, SendCancelDoes DEF CancelsAttempt
  <2>2. QED
    BY <2>1 DEF g
<1>5. CASE /\ ~h.connectCommandInProgress /\ ~h.cancelCommandInProgress /\ ~many
           /\ ~h.createConnectionIsOutstanding /\ ~h.stopScanCallback /\ h.pending # {}
           /\ g = IF a.useWhiteList /\ h.whiteListUsage = "scanner"
                  THEN [k EXCEPT !.stopScanCallback = TRUE]
                  ELSE StartAttempt(k)
  <2>1. a \in Attempt
    BY <1>5, AttemptForIs DEF Idle
  <2> HIDE DEF a, many
  <2>2. /\ k \in Host /\ k.out = <<>> /\ OwnUpdates(k)
        /\ SameOutcomes(k, h) /\ SameFlags(k, h) /\ SameLists(k, h) /\ SameScanner(k, h)
        /\ k.connecting = h.connecting \cup h.pending /\ k.attempt = a
        /\ k.connectCommandInProgress = TRUE
        /\ k.cancelCommandInProgress = h.cancelCommandInProgress
        /\ k.createConnectionIsOutstanding = h.createConnectionIsOutstanding
    BY <2>1
       DEF Idle, Host, OwnUpdates, SameOutcomes, SameFlags, SameLists, SameScan, SameScanner
  <2>3. ~TooMany(h)
    BY <1>5 DEF many
  <2>4. CASE a.useWhiteList /\ h.whiteListUsage = "scanner"
    <3>1. g = [k EXCEPT !.stopScanCallback = TRUE]
      BY <1>5, <2>4
    <3> HIDE DEF k
    <3>2. /\ g \in Host /\ OwnUpdates(g) /\ g.out = <<>>
          /\ g.stopScanCallback = TRUE /\ g.crashed = k.crashed
          /\ SameCalls(g, k) /\ SameLists(g, k) /\ SameScanner(g, k)
      BY <2>2, <3>1 DEF Host, OwnUpdates, SameCalls, SameLists, SameScan, SameScanner
    <3>3. /\ SameOutcomes(g, h) /\ SameLists(g, h) /\ SameScanner(g, h) /\ g.crashed = h.crashed
      BY <2>2, <3>2
         DEF SameOutcomes, SameCalls, SameLists, SameScan, SameScanner, SameFlags
    <3>4. BeginsAttempt(g, h)
      BY <1>5, <2>2, <2>3, <2>4, <3>2, <3>3 DEF BeginsAttempt, SameCalls, a
    <3>5. QED
      BY <3>2, <3>4 DEF g
  <2>5. CASE ~(a.useWhiteList /\ h.whiteListUsage = "scanner")
    <3>1. g = StartAttempt(k)
      BY <1>5, <2>5
    <3> HIDE DEF k
    <3>2. /\ g \in Host /\ OwnUpdates(g) /\ SameCalls(g, k) /\ SameScan(g, k) /\ SameFlags(g, k)
          /\ g.scannerCommandInProgress = k.scannerCommandInProgress
          /\ Attempts(g, k)
      BY <2>1, <2>2, <3>1, StartAttemptDoes DEF Idle
    <3>3. /\ SameOutcomes(g, h) /\ SameScanner(g, h) /\ g.crashed = h.crashed
          /\ g.stopScanCallback = h.stopScanCallback
      BY <2>2, <3>2 DEF SameOutcomes, SameCalls, SameScan, SameScanner, SameFlags
    <3>4. \E m : m.attempt = AttemptFor(h) /\ SameLists(m, h) /\ Attempts(g, m)
      BY <2>2, <3>2 DEF a
    <3>5. BeginsAttempt(g, h)
      BY <1>5, <2>2, <2>3, <2>5, <3>2, <3>3, <3>4 DEF BeginsAttempt, SameCalls, a
    <3>6. QED
      BY <3>2, <3>5 DEF g
  <2>6. QED
    BY <2>4, <2>5
<1>6. QED
  BY <1>1, <1>2, <1>3, <1>4, <1>5 DEF AttemptFits

-----------------------------------------------------------------------------
(* The commands under way, and what the host remembers of them. *)

ScannerWork ==
  {c \in Command : c.op \in {"scanOn", "scanParameters"} \/ (c.op \in ListOp /\ c.who = "scanner")}
ScannerOps == {c \in Command : c.op = "scanOff"} \cup ScannerWork
CreateOps == {c \in Command : c.op = "create"}
InitiatorOps == {c \in Command : c.op = "create" \/ (c.op \in ListOp /\ c.who = "initiator")}
CancelOps == {c \in Command : c.op = "cancel"}

CallsOk(h) ==
  /\ h.connectCommandInProgress => ~h.createConnectionIsOutstanding
  /\ h.cancelCommandInProgress => h.createConnectionIsOutstanding
  /\ h.stopScanCallback => h.connectCommandInProgress
  /\ h.connectCommandInProgress \/ h.createConnectionIsOutstanding =>
       h.attempt \in Attempt /\ h.attempt.conns = h.connecting
  /\ ~(h.connectCommandInProgress \/ h.createConnectionIsOutstanding) => h.connecting = {}
  /\ h.connecting \subseteq h.pending
  /\ \A c \in Connect : c \in h.pending <=> h.device[c] # None /\ h.outcome[c] = "none"
  /\ \A c \in Connect : h.device[c] = None => h.outcome[c] = "none"

QueueOk(h, q) ==
  /\ q \in Seq(Command)
  /\ h.scannerCommandInProgress <=> Has(q, ScannerOps)
  /\ Has(q, ScannerWork) => h.scanChange \in Change
  /\ h.connectCommandInProgress <=> h.stopScanCallback \/ Has(q, InitiatorOps)
  /\ h.stopScanCallback => ~Has(q, InitiatorOps)
  /\ Has(q, CancelOps) => h.cancelCommandInProgress \/ ~h.createConnectionIsOutstanding
  /\ One(q, ScannerOps) /\ One(q, InitiatorOps) /\ One(q, CancelOps)
  /\ Before(q, CancelOps, CreateOps)

Flow(h, q) == CallsOk(h) /\ QueueOk(h, q)

LEMMA Kinds ==
  ASSUME NEW c \in Command
  PROVE  /\ c \in ScannerOps => c \notin InitiatorOps /\ c \notin CancelOps /\ c \notin CreateOps
         /\ c \in InitiatorOps => c \notin CancelOps /\ c \notin ScannerOps
         /\ c \in CancelOps => c \notin InitiatorOps /\ c \notin ScannerOps /\ c \notin CreateOps
         /\ c \in CreateOps => c \in InitiatorOps
         /\ c \in ScannerWork => c \in ScannerOps
BY DEF ScannerWork, ScannerOps, CreateOps, InitiatorOps, CancelOps, ListOp

LEMMA SentKinds ==
  /\ ScanOff \in Command => ScanOff \in ScannerOps /\ ScanOff \notin ScannerWork
  /\ \A fd : ScanOn(fd) \in Command => ScanOn(fd) \in ScannerWork
  /\ \A c : ScanParameters(c) \in Command => ScanParameters(c) \in ScannerWork
  /\ \A a : CreateFor(a) \in Command => CreateFor(a) \in InitiatorOps
  /\ CancelCommand \in Command => CancelCommand \in CancelOps
  /\ \A c \in ListBy("scanner") : c \in Command => c \in ScannerWork
  /\ \A c \in ListBy("initiator") : c \in Command => c \in InitiatorOps
<1>1. ScanOff \in Command => ScanOff \in ScannerOps /\ ScanOff \notin ScannerWork
  BY DEF ScanOff, ScannerOps, ScannerWork, ListOp
<1>2. \A fd : ScanOn(fd) \in Command => ScanOn(fd) \in ScannerWork
  BY DEF ScanOn, ScannerWork
<1>3. \A c : ScanParameters(c) \in Command => ScanParameters(c) \in ScannerWork
  BY DEF ScanParameters, ScannerWork
<1>4. \A a : CreateFor(a) \in Command => CreateFor(a) \in InitiatorOps
  <2> TAKE a
  <2>1. CreateFor(a).op = "create"
    BY DEF CreateFor
  <2>2. QED
    BY <2>1 DEF InitiatorOps
<1>5. CancelCommand \in Command => CancelCommand \in CancelOps
  BY DEF CancelCommand, CancelOps
<1>6. \A c \in ListBy("scanner") : c \in Command => c \in ScannerWork
  BY DEF ListBy, ListOp, ScannerWork
<1>7. \A c \in ListBy("initiator") : c \in Command => c \in InitiatorOps
  BY DEF ListBy, ListOp, InitiatorOps
<1>8. QED
  BY <1>1, <1>2, <1>3, <1>4, <1>5, <1>6, <1>7

LEMMA ConcatSent ==
  ASSUME NEW q \in Seq(Command)
  PROVE  /\ q \o <<>> = q
         /\ \A c \in Command : q \o <<c>> = Append(q, c)
<1>1. q \o <<>> = q
  BY ConcatEmptySeq
<1>2. ASSUME NEW c \in Command
      PROVE  q \o <<c>> = Append(q, c)
  BY AppendIsConcat
<1>3. QED
  BY <1>1, <1>2

SameCallFlags(g, h) ==
  /\ g.connectCommandInProgress = h.connectCommandInProgress
  /\ g.cancelCommandInProgress = h.cancelCommandInProgress
  /\ g.createConnectionIsOutstanding = h.createConnectionIsOutstanding
  /\ g.stopScanCallback = h.stopScanCallback

LEMMA ScannerSends ==
  ASSUME NEW h, NEW q, QueueOk(h, q), ~h.scannerCommandInProgress,
         NEW g, SameCallFlags(g, h), g.scannerCommandInProgress,
         NEW c \in ScannerOps, c \in ScannerWork => g.scanChange \in Change
  PROVE  QueueOk(g, Append(q, c))
<1>1. c \in Command
  BY DEF ScannerOps, ScannerWork
<1>2. c \notin InitiatorOps /\ c \notin CancelOps /\ c \notin CreateOps
  BY <1>1, Kinds
<1>3. q \in Seq(Command) /\ ~Has(q, ScannerOps)
  BY DEF QueueOk
<1>4. ~Has(q, ScannerWork)
  BY <1>3 DEF Has, ScannerOps
<1> DEFINE p == Append(q, c)
<1>5. /\ p \in Seq(Command) /\ Has(p, ScannerOps) /\ (Has(p, ScannerWork) <=> c \in ScannerWork)
      /\ Has(p, InitiatorOps) <=> Has(q, InitiatorOps)
      /\ Has(p, CancelOps) <=> Has(q, CancelOps)
  BY <1>1, <1>2, <1>3, <1>4, AppendHas, AppendFacts
<1>6. One(p, ScannerOps) /\ One(p, InitiatorOps) /\ One(p, CancelOps)
  BY <1>1, <1>2, <1>3, AppendOne DEF QueueOk
<1>7. Before(p, CancelOps, CreateOps)
  BY <1>1, <1>2, <1>3, AppendBefore DEF QueueOk
<1> HIDE DEF p
<1>8. QueueOk(g, p)
  BY <1>5, <1>6, <1>7 DEF QueueOk, SameCallFlags
<1>9. QED
  BY <1>8 DEF p

LEMMA InitiatorSends ==
  ASSUME NEW h, NEW q, QueueOk(h, q), ~Has(q, InitiatorOps),
         NEW g, g.scannerCommandInProgress = h.scannerCommandInProgress,
         g.scanChange = h.scanChange, g.connectCommandInProgress, ~g.stopScanCallback,
         ~g.createConnectionIsOutstanding,
         NEW c \in InitiatorOps
  PROVE  QueueOk(g, Append(q, c))
<1>1. c \in Command
  BY DEF InitiatorOps
<1>2. c \notin ScannerOps /\ c \notin CancelOps /\ c \notin ScannerWork
  BY <1>1, Kinds
<1>3. q \in Seq(Command)
  BY DEF QueueOk
<1> DEFINE p == Append(q, c)
<1>4. /\ p \in Seq(Command) /\ (Has(p, ScannerOps) <=> Has(q, ScannerOps))
      /\ (Has(p, ScannerWork) <=> Has(q, ScannerWork))
      /\ Has(p, InitiatorOps)
  BY <1>1, <1>2, <1>3, AppendHas, AppendFacts
<1>5. One(p, ScannerOps) /\ One(p, InitiatorOps) /\ One(p, CancelOps)
  BY <1>1, <1>2, <1>3, AppendOne DEF QueueOk
<1>6. Before(p, CancelOps, CreateOps)
  BY <1>1, <1>2, <1>3, AppendBefore DEF QueueOk
<1> HIDE DEF p
<1>7. QueueOk(g, p)
  BY <1>4, <1>5, <1>6 DEF QueueOk
<1>8. QED
  BY <1>7 DEF p

LEMMA CancelSends ==
  ASSUME NEW h, NEW q, QueueOk(h, q), ~Has(q, CancelOps), ~Has(q, InitiatorOps),
         NEW g, g.scannerCommandInProgress = h.scannerCommandInProgress,
         g.scanChange = h.scanChange,
         g.connectCommandInProgress = h.connectCommandInProgress,
         g.stopScanCallback = h.stopScanCallback, g.cancelCommandInProgress,
         NEW c \in CancelOps
  PROVE  QueueOk(g, Append(q, c))
<1>1. c \in Command
  BY DEF CancelOps
<1>2. c \notin ScannerOps /\ c \notin InitiatorOps /\ c \notin ScannerWork /\ c \notin CreateOps
  BY <1>1, Kinds
<1>3. q \in Seq(Command) /\ ~Has(q, CreateOps)
  BY DEF QueueOk, Has, InitiatorOps, CreateOps
<1> DEFINE p == Append(q, c)
<1>4. /\ p \in Seq(Command) /\ (Has(p, ScannerOps) <=> Has(q, ScannerOps))
      /\ (Has(p, ScannerWork) <=> Has(q, ScannerWork))
      /\ (Has(p, InitiatorOps) <=> Has(q, InitiatorOps))
  BY <1>1, <1>2, <1>3, AppendHas, AppendFacts
<1>5. One(p, ScannerOps) /\ One(p, InitiatorOps) /\ One(p, CancelOps)
  BY <1>1, <1>2, <1>3, AppendOne DEF QueueOk
<1>6. Before(p, CancelOps, CreateOps)
  BY <1>1, <1>2, <1>3, AppendBefore DEF QueueOk
<1> HIDE DEF p
<1>7. QueueOk(g, p)
  BY <1>4, <1>5, <1>6 DEF QueueOk
<1>8. QED
  BY <1>7 DEF p

LEMMA UpdateSends ==
  ASSUME NEW g, NEW h, NEW who \in Who, NEW list, BeginsUpdate(g, h, who, list)
  PROVE  \E c \in Command : /\ g.out = <<c>>
                            /\ who = "scanner" => c \in ScannerWork
                            /\ who = "initiator" => c \in InitiatorOps
<1>1. CASE h.currentWhiteList = list /\ g.out = <<Final(h, who)>> /\ Final(h, who) \in Command
  <2>1. who = "scanner" => Final(h, who) \in ScannerWork
    BY <1>1, SentKinds DEF Final
  <2>2. who = "initiator" => Final(h, who) \in InitiatorOps
    BY <1>1, SentKinds DEF Final
  <2>3. QED
    BY <1>1, <2>1, <2>2
<1>2. ASSUME NEW c \in ListBy(who), c \in Command, g.out = <<c>>
      PROVE  /\ who = "scanner" => c \in ScannerWork
             /\ who = "initiator" => c \in InitiatorOps
  BY <1>2, SentKinds
<1>3. QED
  BY <1>1, <1>2 DEF BeginsUpdate

LEMMA AttemptSends ==
  ASSUME NEW g, NEW h, Attempts(g, h)
  PROVE  \E c \in InitiatorOps : c \in Command /\ g.out = <<c>>
<1>1. CASE h.attempt.useWhiteList
  <2>1. BeginsUpdate(g, h, "initiator", h.attempt.devices)
    BY <1>1 DEF Attempts
  <2>2. "initiator" \in Who
    BY DEF Who
  <2>3. \E c \in Command : g.out = <<c>> /\ c \in InitiatorOps
    BY <2>1, <2>2, UpdateSends
  <2>4. QED
    BY <2>3
<1>2. CASE ~h.attempt.useWhiteList
  BY <1>2, SentKinds DEF Attempts
<1>3. QED
  BY <1>1, <1>2

LEMMA CallsOkKept ==
  ASSUME NEW h, NEW g, CallsOk(h), SameCalls(g, h), g.stopScanCallback => h.stopScanCallback
  PROVE  CallsOk(g)
BY DEF CallsOk, SameCalls

\* triggerScannerChange keeps the commands and the flags in step.
LEMMA ScannerFlow ==
  ASSUME NEW h, Idle(h), NEW q, Flow(h, q)
  PROVE  LET g == TriggerScannerChange(h)
         IN /\ g \in Host /\ OwnUpdates(g) /\ Flow(g, q \o g.out)
            /\ SameCalls(g, h) /\ g.crashed = h.crashed
            /\ g.out = <<>> \/ \E c \in Command : g.out = <<c>>
<1> DEFINE g == TriggerScannerChange(h)
<1>1. h.stopScanCallback => h.attempt \in Attempt
  BY DEF Flow, CallsOk
<1>2. /\ g \in Host /\ OwnUpdates(g)
      /\ LeavesScan(g, h) \/ StopsScan(g, h) \/ SetsScan(g, h) \/ ResumesAttempt(g, h)
  BY <1>1, TriggerScannerChangeDoes
<1> HIDE DEF g
<1>3. CallsOk(h) /\ QueueOk(h, q) /\ q \in Seq(Command)
  BY DEF Flow, QueueOk
<1>4. SameCalls(g, h) /\ g.crashed = h.crashed /\ CallsOk(g)
  <2>1. SameCalls(g, h) /\ g.crashed = h.crashed /\ (g.stopScanCallback => h.stopScanCallback)
    BY <1>2 DEF LeavesScan, StopsScan, SetsScan, ResumesAttempt, SameFlags
  <2>2. QED
    BY <1>3, <2>1, CallsOkKept
<1>5. CASE LeavesScan(g, h)
  <2>1. q \o g.out = q
    BY <1>3, <1>5, ConcatSent DEF LeavesScan
  <2>2. QueueOk(g, q)
    BY <1>3, <1>5 DEF QueueOk, LeavesScan, SameCalls, SameFlags
  <2>3. QED
    BY <1>2, <1>4, <1>5, <2>1, <2>2 DEF g, Flow, LeavesScan
<1>6. ASSUME NEW c \in ScannerOps, c \in Command, g.out = <<c>>, ~h.scannerCommandInProgress,
             SameFlags(g, h), g.scannerCommandInProgress,
             c \in ScannerWork => g.scanChange \in Change
      PROVE  Flow(g, q \o g.out)
  <2>1. q \o g.out = Append(q, c)
    BY <1>3, <1>6, ConcatSent
  <2>2. SameCallFlags(g, h)
    BY <1>4, <1>6 DEF SameCallFlags, SameFlags, SameCalls
  <2>3. QueueOk(g, Append(q, c))
    BY <1>3, <1>6, <2>2, ScannerSends
  <2>4. QED
    BY <1>4, <2>1, <2>3 DEF Flow
<1>7. CASE StopsScan(g, h)
  <2>1. ScanOff \in ScannerOps /\ ScanOff \notin ScannerWork
    BY <1>7, SentKinds DEF StopsScan
  <2>2. Flow(g, q \o g.out)
    BY <1>6, <1>7, <2>1 DEF StopsScan
  <2>3. QED
    BY <1>2, <1>4, <1>7, <2>2 DEF StopsScan, g
<1>8. CASE SetsScan(g, h)
  <2>1. g.scanChange \in Change
    BY <1>8, ScanForIs DEF SetsScan, Idle
  <2>2. \E c \in ScannerWork : c \in Command /\ g.out = <<c>>
    <3>1. CASE BeginsUpdate(g, h, "scanner", ScanFor(h).devices)
      BY <3>1, UpdateSends DEF Who
    <3>2. QED
      BY <1>8, <3>1, SentKinds DEF SetsScan
  <2>3. PICK c \in ScannerWork : c \in Command /\ g.out = <<c>>
    BY <2>2
  <2>4. c \in ScannerOps
    BY <2>3, Kinds
  <2>5. Flow(g, q \o g.out)
    BY <1>6, <1>8, <2>1, <2>3, <2>4 DEF SetsScan
  <2>6. QED
    BY <1>2, <1>4, <2>3, <2>5 DEF g
<1>9. CASE ResumesAttempt(g, h)
  <2>1. PICK c \in InitiatorOps : c \in Command /\ g.out = <<c>>
    BY <1>9, AttemptSends DEF ResumesAttempt
  <2>2. q \o g.out = Append(q, c)
    BY <1>3, <2>1, ConcatSent
  <2>3. /\ ~Has(q, InitiatorOps) /\ g.connectCommandInProgress /\ ~g.createConnectionIsOutstanding
        /\ ~g.stopScanCallback /\ g.scanChange = h.scanChange
        /\ g.scannerCommandInProgress = h.scannerCommandInProgress
    <3>1. g \in Host /\ h \in Host /\ h.stopScanCallback
      BY <1>2, <1>9 DEF Idle, ResumesAttempt
    <3>2. ~g.scannerCommandInProgress /\ ~h.scannerCommandInProgress
      BY <1>9 DEF ResumesAttempt
    <3>3. g.scannerCommandInProgress = h.scannerCommandInProgress
      BY <3>1, <3>2 DEF Host
    <3>4. ~Has(q, InitiatorOps) /\ h.connectCommandInProgress /\ ~h.createConnectionIsOutstanding
      BY <1>3, <3>1 DEF CallsOk, QueueOk
    <3>5. QED
      BY <1>4, <1>9, <3>3, <3>4 DEF ResumesAttempt, SameCalls
  <2>4. QueueOk(g, Append(q, c))
    BY <1>3, <2>3, InitiatorSends
  <2>5. QED
    BY <1>2, <1>4, <2>1, <2>2, <2>4 DEF Flow, g
<1>10. QED
  BY <1>2, <1>5, <1>7, <1>8, <1>9

\* So does triggerConnectionChange, unless the process ends.
LEMMA ConnectionFlow ==
  ASSUME NEW h, Idle(h), NEW q, Flow(h, q)
  PROVE  LET g == TriggerConnectionChange(h)
         IN /\ g \in Host /\ OwnUpdates(g)
            /\ g.out = <<>> \/ \E c \in Command : g.out = <<c>>
            /\ SameOutcomes(g, h)
            /\ g.createConnectionIsOutstanding = h.createConnectionIsOutstanding
            /\ \/ g.crashed = "startScan"
               \/ Flow(g, q \o g.out) /\ g.crashed = h.crashed
<1> DEFINE g == TriggerConnectionChange(h)
<1>1. CallsOk(h) /\ QueueOk(h, q) /\ q \in Seq(Command) /\ h \in Host
  BY DEF Flow, QueueOk, Idle
<1>2. PendingAreCalls(h)
  BY <1>1 DEF CallsOk, PendingAreCalls, Host
<1>3. /\ g \in Host /\ OwnUpdates(g)
      /\ LacksRoom(g, h) \/ KeepsAttempt(g, h) \/ CancelsAttempt(g, h) \/ BeginsAttempt(g, h)
  BY <1>2, TriggerConnectionChangeDoes
<1> HIDE DEF g
<1>4. CASE LacksRoom(g, h)
  BY <1>3, <1>4 DEF g, LacksRoom, SameCalls, SameOutcomes
<1>5. CASE KeepsAttempt(g, h)
  <2>1. q \o g.out = q
    BY <1>1, <1>5, ConcatSent DEF KeepsAttempt
  <2>2. CallsOk(g)
    BY <1>1, <1>5, CallsOkKept DEF KeepsAttempt, SameFlags
  <2>3. QueueOk(g, q)
    BY <1>1, <1>5 DEF QueueOk, KeepsAttempt, SameCalls, SameFlags, SameScanner, SameScan
  <2>4. QED
    BY <1>3, <1>5, <2>1, <2>2, <2>3 DEF g, Flow, KeepsAttempt, SameCalls, SameOutcomes, SameFlags
<1>6. CASE CancelsAttempt(g, h)
  <2>1. q \o g.out = Append(q, CancelCommand) /\ CancelCommand \in CancelOps
    BY <1>1, <1>6, ConcatSent, SentKinds DEF CancelsAttempt
  <2>2. CallsOk(g)
    BY <1>1, <1>6 DEF CallsOk, CancelsAttempt, SameOutcomes, SameFlags
  <2>3. ~Has(q, CancelOps) /\ ~Has(q, InitiatorOps)
    BY <1>1, <1>6 DEF CancelsAttempt, CallsOk, QueueOk
  <2>4. QueueOk(g, Append(q, CancelCommand))
    BY <1>1, <1>6, <2>1, <2>3, CancelSends DEF CancelsAttempt, SameScanner, SameScan, SameFlags
  <2>5. QED
    BY <1>3, <1>6, <2>1, <2>2, <2>4 DEF g, Flow, CancelsAttempt, SameFlags
<1>7. CASE BeginsAttempt(g, h)
  <2>1. /\ h.connecting = {} /\ g.connecting = h.pending /\ AttemptFor(h) \in Attempt
        /\ g.attempt = AttemptFor(h) /\ AttemptFor(h).conns = h.pending
    BY <1>1, <1>2, <1>7, AttemptForIs DEF BeginsAttempt, CallsOk, AttemptFor
  <2>2. CallsOk(g)
    BY <1>1, <1>7, <2>1 DEF CallsOk, BeginsAttempt, SameOutcomes
  <2>3. ~Has(q, InitiatorOps)
    BY <1>1, <1>7 DEF BeginsAttempt, QueueOk
  <2>4. CASE g.stopScanCallback
    <3>1. g.out = <<>> /\ q \o g.out = q
      BY <1>1, <1>7, <2>4, ConcatSent DEF BeginsAttempt
    <3>2. QueueOk(g, q)
      BY <1>1, <1>7, <2>3, <2>4 DEF QueueOk, BeginsAttempt, SameScanner, SameScan
    <3>3. g.createConnectionIsOutstanding = h.createConnectionIsOutstanding
      BY <1>1, <1>3, <1>7 DEF BeginsAttempt, Host
    <3>4. QED
      BY <1>3, <1>7, <2>2, <3>1, <3>2, <3>3 DEF g, Flow, BeginsAttempt
  <2>5. CASE ~g.stopScanCallback
    <3>1. PICK k : Attempts(g, k)
      BY <1>7, <2>5 DEF BeginsAttempt
    <3>2. PICK c \in InitiatorOps : c \in Command /\ g.out = <<c>>
      BY <3>1, AttemptSends
    <3>3. q \o g.out = Append(q, c)
      BY <1>1, <3>2, ConcatSent
    <3>4. QueueOk(g, Append(q, c))
      BY <1>1, <1>7, <2>3, <2>5, <3>2, InitiatorSends DEF BeginsAttempt, SameScanner, SameScan
    <3>5. g.createConnectionIsOutstanding = h.createConnectionIsOutstanding
      BY <1>1, <1>3, <1>7 DEF BeginsAttempt, Host
    <3>6. QED
      BY <1>3, <1>7, <2>2, <3>2, <3>3, <3>4, <3>5 DEF g, Flow, BeginsAttempt
  <2>6. QED
    BY <2>4, <2>5
<1>8. QED
  BY <1>3, <1>4, <1>5, <1>6, <1>7

-----------------------------------------------------------------------------
(* The answers. *)

LEMMA PopScanner ==
  ASSUME NEW h, NEW q, QueueOk(h, q), q # <<>>, Head(q) \in ScannerOps,
         NEW g, SameCallFlags(g, h), ~g.scannerCommandInProgress
  PROVE  QueueOk(g, Tail(q)) /\ h.scannerCommandInProgress
<1> DEFINE t == Tail(q)
<1>1. q \in Seq(Command) /\ t \in Seq(Command) /\ Head(q) \in Command
  BY TailFacts DEF QueueOk
<1>2. Head(q) \notin InitiatorOps /\ Head(q) \notin CancelOps
  BY <1>1, Kinds
<1>3. /\ ~Has(t, ScannerOps) /\ One(t, ScannerOps) /\ One(t, InitiatorOps) /\ One(t, CancelOps)
      /\ Has(q, ScannerOps) /\ (Has(t, InitiatorOps) <=> Has(q, InitiatorOps))
      /\ (Has(t, CancelOps) <=> Has(q, CancelOps))
  BY <1>1, <1>2, TailHas DEF QueueOk
<1>4. Before(t, CancelOps, CreateOps)
  BY <1>1, TailBefore DEF QueueOk
<1>5. ~Has(t, ScannerWork)
  BY <1>3 DEF Has, ScannerOps
<1> HIDE DEF t
<1>6. QueueOk(g, t)
  BY <1>1, <1>3, <1>4, <1>5 DEF QueueOk, SameCallFlags
<1>7. QED
  BY <1>3, <1>6 DEF t, QueueOk

LEMMA PopInitiator ==
  ASSUME NEW h, NEW q, QueueOk(h, q), q # <<>>, Head(q) \in InitiatorOps,
         NEW g, g.scannerCommandInProgress = h.scannerCommandInProgress,
         g.scanChange = h.scanChange, ~g.connectCommandInProgress, ~g.stopScanCallback,
         Has(Tail(q), CancelOps) => g.cancelCommandInProgress \/ ~g.createConnectionIsOutstanding
  PROVE  QueueOk(g, Tail(q)) /\ h.connectCommandInProgress /\ ~h.stopScanCallback
         /\ ~Has(Tail(q), InitiatorOps)
<1> DEFINE t == Tail(q)
<1>1. q \in Seq(Command) /\ t \in Seq(Command) /\ Head(q) \in Command
  BY TailFacts DEF QueueOk
<1>2. Head(q) \notin ScannerOps /\ Head(q) \notin CancelOps /\ Head(q) \notin ScannerWork
  BY <1>1, Kinds
<1>3. /\ ~Has(t, InitiatorOps) /\ One(t, ScannerOps) /\ One(t, InitiatorOps) /\ One(t, CancelOps)
      /\ Has(q, InitiatorOps) /\ (Has(t, ScannerOps) <=> Has(q, ScannerOps))
      /\ (Has(t, ScannerWork) <=> Has(q, ScannerWork))
  BY <1>1, <1>2, TailHas DEF QueueOk
<1>4. Before(t, CancelOps, CreateOps)
  BY <1>1, TailBefore DEF QueueOk
<1> HIDE DEF t
<1>5. QueueOk(g, t)
  BY <1>1, <1>3, <1>4 DEF QueueOk, t
<1>6. QED
  BY <1>3, <1>5 DEF t, QueueOk

LEMMA PopCancel ==
  ASSUME NEW h, NEW q, QueueOk(h, q), q # <<>>, Head(q) \in CancelOps
  PROVE  QueueOk(h, Tail(q))
<1> DEFINE t == Tail(q)
<1>1. q \in Seq(Command) /\ t \in Seq(Command) /\ Head(q) \in Command
  BY TailFacts DEF QueueOk
<1>2. Head(q) \notin ScannerOps /\ Head(q) \notin InitiatorOps /\ Head(q) \notin ScannerWork
  BY <1>1, Kinds
<1>3. /\ One(t, ScannerOps) /\ One(t, InitiatorOps) /\ One(t, CancelOps)
      /\ (Has(t, InitiatorOps) <=> Has(q, InitiatorOps))
      /\ (Has(t, ScannerOps) <=> Has(q, ScannerOps))
      /\ (Has(t, ScannerWork) <=> Has(q, ScannerWork))
      /\ (Has(t, CancelOps) => Has(q, CancelOps))
  BY <1>1, <1>2, TailHas DEF QueueOk
<1>4. Before(t, CancelOps, CreateOps)
  BY <1>1, TailBefore DEF QueueOk
<1> HIDE DEF t
<1>5. QueueOk(h, t)
  BY <1>1, <1>3, <1>4 DEF QueueOk
<1>6. QED
  BY <1>5 DEF t

\* How a piece of the program that was called with rest in the queue returns.
Post(g, rest) ==
  /\ g \in Host /\ OwnUpdates(g) /\ (g.out = <<>> \/ \E c \in Command : g.out = <<c>>)
  /\ g.crashed = "no" => Flow(g, rest \o g.out)

LEMMA ScanAnswerFlow ==
  ASSUME NEW h, Idle(h), h.crashed = "no", NEW q, Flow(h, q), q # <<>>,
         NEW c, c = Head(q), c.op \in {"scanOff", "scanOn", "scanParameters"}, NEW ok \in BOOLEAN
  PROVE  LET g == ScanAnswer(h, c, ok)
         IN Post(g, Tail(q)) /\ SameCalls(g, h)
<1> DEFINE g == ScanAnswer(h, c, ok)
           k == [h EXCEPT !.scannerCommandInProgress = FALSE]
<1>1. /\ CallsOk(h) /\ QueueOk(h, q) /\ h \in Host /\ q \in Seq(Command) /\ c \in Command
      /\ Tail(q) \in Seq(Command)
  BY TailFacts DEF Flow, QueueOk, Idle
<1>2. c \in ScannerOps /\ (c.op # "scanOff" => c \in ScannerWork)
  BY <1>1 DEF ScannerOps, ScannerWork
<1>3. c.op # "scanOff" => h.scanChange \in Change
  BY <1>1, <1>2, TailHas DEF QueueOk
<1>4. /\ k \in Host /\ k.out = <<>> /\ OwnUpdates(k) /\ k.crashed = "no"
      /\ k.scannerCommandInProgress = FALSE /\ SameCalls(k, h) /\ SameScan(k, h)
      /\ k.stopScanCallback = h.stopScanCallback
  BY DEF Idle, Host, OwnUpdates, SameCalls, SameScan
<1>5. CASE c.op = "scanOff"
  <2> DEFINE u == IF k.whiteListUsage = "scanner" THEN "none" ELSE k.whiteListUsage
             m == [k EXCEPT !.scanEnabled = FALSE, !.whiteListUsage = u]
  <2>1. [k EXCEPT !.scanEnabled = FALSE, !.whiteListUsage = IF @ = "scanner" THEN "none" ELSE @] = m
    BY <1>4 DEF Host
  <2>2. g = TriggerScannerChange(m)
    BY <1>5, <2>1 DEF ScanAnswer, ScanIsOff
  <2>3. u \in User
    BY <1>4 DEF User, Host
  <2> HIDE DEF u, k
  <2>4. /\ m \in Host /\ m.out = <<>> /\ OwnUpdates(m) /\ m.crashed = "no"
        /\ m.scannerCommandInProgress = FALSE /\ SameCalls(m, k)
        /\ m.stopScanCallback = h.stopScanCallback
    BY <1>4, <2>3 DEF Host, OwnUpdates, SameCalls
  <2> HIDE DEF m, g
  <2>5. SameCalls(m, h) /\ SameCallFlags(m, h)
    BY <1>4, <2>4 DEF SameCalls, SameCallFlags
  <2>6. Flow(m, Tail(q))
    BY <1>1, <1>2, <2>4, <2>5, CallsOkKept, PopScanner DEF Flow
  <2>7. /\ g \in Host /\ OwnUpdates(g) /\ Flow(g, Tail(q) \o g.out) /\ SameCalls(g, m)
        /\ g.out = <<>> \/ \E e \in Command : g.out = <<e>>
    BY <2>2, <2>4, <2>6, ScannerFlow DEF Idle
  <2>8. QED
    BY <2>5, <2>7 DEF Post, SameCalls, g
<1>6. CASE c.op # "scanOff" /\ ~ok
  <2>1. g = [k EXCEPT !.crashed = "scanningFailed"]
    BY <1>6 DEF ScanAnswer, Crash
  <2> HIDE DEF k, g
  <2>2. /\ g \in Host /\ OwnUpdates(g) /\ g.out = <<>> /\ g.crashed = "scanningFailed"
        /\ SameCalls(g, k)
    BY <1>4, <2>1 DEF Host, Why, OwnUpdates, SameCalls
  <2>3. QED
    BY <1>4, <2>2 DEF Post, SameCalls, g
<1>7. CASE c.op = "scanParameters" /\ ok
  <2> DEFINE m == [k EXCEPT !.active = c.active, !.policy = c.policy]
  <2>1. g = ContWhiteList(m)
    BY <1>7 DEF ScanAnswer
  <2>2. c.active \in BOOLEAN /\ c.policy \in BOOLEAN
    BY <1>1, <1>7 DEF Command, CreateCommand, ListCommandBy, ListBy, ListOp
  <2> HIDE DEF k
  <2>3. /\ m \in Host /\ m.out = <<>> /\ OwnUpdates(m) /\ m.crashed = "no"
        /\ m.scannerCommandInProgress = FALSE /\ SameCalls(m, k)
        /\ m.stopScanCallback = h.stopScanCallback /\ m.scanChange = h.scanChange
    BY <1>4, <2>2 DEF Host, OwnUpdates, SameCalls, SameScan
  <2> HIDE DEF m, g
  <2>4. SameCalls(m, h) /\ SameCallFlags(m, h)
    BY <1>4, <2>3 DEF SameCalls, SameCallFlags
  <2>5. QueueOk(m, Tail(q))
    BY <1>1, <1>2, <2>3, <2>4, PopScanner
  <2>6. m.scanChange \in Change
    BY <1>3, <1>7, <2>3
  <2>7. /\ g \in Host /\ OwnUpdates(g) /\ SameCalls(g, m) /\ SameScan(g, m) /\ SameFlags(g, m)
        /\ g.scannerCommandInProgress /\ SetsList(g, m)
    BY <2>1, <2>3, <2>6, ContWhiteListDoes DEF Idle
  <2>8. PICK e \in ScannerWork : e \in Command /\ g.out = <<e>>
    <3>1. CASE BeginsUpdate(g, m, "scanner", m.scanChange.devices)
      BY <3>1, UpdateSends DEF Who
    <3>2. QED
      BY <2>7, <3>1, SentKinds DEF SetsList
  <2>9. SameCallFlags(g, m) /\ g.scanChange = m.scanChange /\ e \in ScannerOps
    BY <2>7, <2>8, Kinds DEF SameCallFlags, SameCalls, SameFlags, SameScan
  <2>10. QueueOk(g, Append(Tail(q), e))
    BY <2>3, <2>5, <2>6, <2>7, <2>9, ScannerSends
  <2>11. SameCalls(g, h) /\ CallsOk(g)
    <3>1. SameCalls(g, h) /\ g.stopScanCallback = h.stopScanCallback
      BY <2>3, <2>4, <2>7 DEF SameCalls, SameFlags
    <3>2. QED
      BY <1>1, <3>1, CallsOkKept
  <2>12. Tail(q) \o g.out = Append(Tail(q), e)
    BY <1>1, <2>8, ConcatSent
  <2>13. QED
    BY <2>7, <2>8, <2>10, <2>11, <2>12 DEF Post, Flow, g
<1>8. CASE c.op = "scanOn" /\ ok
  <2> DEFINE m == [k EXCEPT !.scanEnabled = TRUE]
  <2>1. g = TriggerScannerChange(m)
    BY <1>8 DEF ScanAnswer, Recheck
  <2> HIDE DEF k
  <2>2. /\ m \in Host /\ m.out = <<>> /\ OwnUpdates(m) /\ m.crashed = "no"
        /\ m.scannerCommandInProgress = FALSE /\ SameCalls(m, k)
        /\ m.stopScanCallback = h.stopScanCallback
    BY <1>4 DEF Host, OwnUpdates, SameCalls
  <2> HIDE DEF m, g
  <2>3. SameCalls(m, h) /\ SameCallFlags(m, h)
    BY <1>4, <2>2 DEF SameCalls, SameCallFlags
  <2>4. Flow(m, Tail(q))
    BY <1>1, <1>2, <2>2, <2>3, CallsOkKept, PopScanner DEF Flow
  <2>5. /\ g \in Host /\ OwnUpdates(g) /\ Flow(g, Tail(q) \o g.out) /\ SameCalls(g, m)
        /\ g.out = <<>> \/ \E e \in Command : g.out = <<e>>
    BY <2>1, <2>2, <2>4, ScannerFlow DEF Idle
  <2>6. QED
    BY <2>3, <2>5 DEF Post, SameCalls, g
<1>9. QED
  BY <1>5, <1>6, <1>7, <1>8

LEMMA ListReady ==
  ASSUME NEW h, Idle(h), NEW q, Flow(h, q), q # <<>>, NEW c, c = Head(q), c.op \in ListOp
  PROVE  \E who \in Who : /\ c \in ListBy(who) /\ Ready(h, who)
                          /\ who = "scanner" => c \in ScannerOps
                          /\ who = "initiator" => c \in InitiatorOps
<1>1. /\ CallsOk(h) /\ QueueOk(h, q) /\ h \in Host /\ q \in Seq(Command) /\ c \in Command
  BY TailFacts DEF Flow, QueueOk, Idle
<1>2. c \in ListCommandBy
  BY <1>1 DEF Command, CreateCommand, ListOp
<1>3. CASE c \in ListBy("scanner")
  <2>1. c \in ScannerWork
    BY <1>1, <1>3, SentKinds
  <2>2. c \in ScannerOps
    BY <1>1, <2>1, Kinds
  <2>3. Has(q, ScannerWork) /\ Has(q, ScannerOps)
    BY <1>1, <2>1, <2>2, TailHas
  <2>4. Ready(h, "scanner")
    BY <1>1, <2>3 DEF QueueOk, Ready
  <2>5. QED
    BY <1>3, <2>2, <2>4 DEF Who
<1>4. CASE c \in ListBy("initiator")
  <2>1. c \in InitiatorOps
    BY <1>1, <1>4, SentKinds
  <2>2. Has(q, InitiatorOps)
    BY <1>1, <2>1, TailHas
  <2>3. Ready(h, "initiator")
    BY <1>1, <2>2 DEF QueueOk, CallsOk, Ready
  <2>4. QED
    BY <1>4, <2>1, <2>3 DEF Who
<1>5. QED
  BY <1>2, <1>3, <1>4 DEF ListCommandBy

LEMMA ListAnswerFlow ==
  ASSUME NEW h, Idle(h), h.crashed = "no", NEW q, Flow(h, q), q # <<>>,
         NEW c, c = Head(q), c.op \in ListOp, NEW ok \in BOOLEAN
  PROVE  LET g == ListAnswer(h, c, ok)
         IN Post(g, Tail(q)) /\ SameCalls(g, h)
<1> DEFINE g == ListAnswer(h, c, ok)
<1>1. /\ CallsOk(h) /\ QueueOk(h, q) /\ h \in Host /\ q \in Seq(Command) /\ c \in Command
      /\ Tail(q) \in Seq(Command)
  BY TailFacts DEF Flow, QueueOk, Idle
<1>2. PICK who \in Who : /\ c \in ListBy(who) /\ Ready(h, who)
                         /\ who = "scanner" => c \in ScannerOps
                         /\ who = "initiator" => c \in InitiatorOps
  BY ListReady
<1> HIDE DEF g
<1>3. ASSUME g \in Host, OwnUpdates(g), SameCalls(g, h), SameScan(g, h), SameFlags(g, h),
             g.scannerCommandInProgress = h.scannerCommandInProgress,
             NEW e \in Command, g.out = <<e>>,
             who = "scanner" => e \in ScannerWork, who = "initiator" => e \in InitiatorOps
      PROVE  Post(g, Tail(q))
  <2>1. Tail(q) \o g.out = Append(Tail(q), e)
    BY <1>1, <1>3, ConcatSent
  <2>2. CallsOk(g)
    BY <1>1, <1>3, CallsOkKept DEF SameFlags
  <2>3. CASE who = "scanner"
    <3> DEFINE k == [h EXCEPT !.scannerCommandInProgress = FALSE]
    <3>1. SameCallFlags(k, h) /\ ~k.scannerCommandInProgress
      BY <1>1 DEF Host, SameCallFlags
    <3> HIDE DEF k
    <3>2. QueueOk(k, Tail(q)) /\ h.scannerCommandInProgress
      BY <1>1, <1>2, <2>3, <3>1, PopScanner
    <3>3. SameCallFlags(g, k) /\ g.scannerCommandInProgress
      BY <1>3, <3>1, <3>2 DEF SameCallFlags, SameCalls, SameFlags
    <3>4. g.scanChange \in Change
      BY <1>2, <1>3, <2>3 DEF Ready, SameScan
    <3>5. e \in ScannerOps
      BY <1>3, <2>3, Kinds
    <3>6. QueueOk(g, Append(Tail(q), e))
      BY <3>1, <3>2, <3>3, <3>4, <3>5, ScannerSends
    <3>7. QED
      BY <1>3, <2>1, <2>2, <3>6 DEF Post, Flow
  <2>4. CASE who = "initiator"
    <3> DEFINE k == [h EXCEPT !.connectCommandInProgress = FALSE, !.stopScanCallback = FALSE,
                              !.createConnectionIsOutstanding = FALSE]
    <3>1. /\ ~k.connectCommandInProgress /\ ~k.stopScanCallback /\ ~k.createConnectionIsOutstanding
          /\ k.scannerCommandInProgress = h.scannerCommandInProgress
          /\ k.scanChange = h.scanChange
      BY <1>1 DEF Host
    <3> HIDE DEF k
    <3>2. /\ QueueOk(k, Tail(q)) /\ h.connectCommandInProgress /\ ~h.stopScanCallback
          /\ ~Has(Tail(q), InitiatorOps)
      BY <1>1, <1>2, <2>4, <3>1, PopInitiator
    <3>3. /\ g.connectCommandInProgress /\ ~g.stopScanCallback /\ ~g.createConnectionIsOutstanding
          /\ g.scannerCommandInProgress = k.scannerCommandInProgress
          /\ g.scanChange = k.scanChange
      BY <1>1, <1>3, <3>1, <3>2 DEF SameCalls, SameFlags, SameScan, CallsOk
    <3>4. QueueOk(g, Append(Tail(q), e))
      BY <1>3, <2>4, <3>2, <3>3, InitiatorSends
    <3>5. QED
      BY <1>3, <2>1, <2>2, <3>4 DEF Post, Flow
  <2>5. QED
    BY <2>3, <2>4 DEF Who
<1>4. CASE c.last
  <2>1. /\ g \in Host /\ OwnUpdates(g) /\ SameCalls(g, h) /\ SameScan(g, h)
        /\ g.stopScanCallback = h.stopScanCallback
        /\ g.scannerCommandInProgress = h.scannerCommandInProgress
        /\ Fallback(g, h, who)
    BY <1>2, <1>4, LastListAnswerDoes DEF g
  <2>2. CASE who = "scanner"
    BY <2>1, <2>2 DEF Fallback, Post, g
  <2>3. CASE who # "scanner"
    <3>1. CreateFor(h.attempt) \in InitiatorOps
      BY <2>1, <2>3, SentKinds DEF Fallback
    <3>2. Post(g, Tail(q))
      BY <1>3, <2>1, <2>3, <3>1 DEF Fallback, SameFlags
    <3>3. QED
      BY <2>1, <3>2 DEF g
  <2>4. QED
    BY <2>2, <2>3
<1>5. CASE ~c.last
  <2>1. /\ g \in Host /\ OwnUpdates(g) /\ SameButList(g, h)
        /\ ok => GoesOn(g, h, who) \/ EditsOn(g, h, who)
        /\ ~ok => /\ SameLists(g, h) /\ g.out = <<LastClear(who)>>
                  /\ LastClear(who) \in ListBy(who) /\ LastClear(who) \in Command
    BY <1>2, <1>5, ListAnswerDoes DEF g
  <2>2. \A e \in ListBy(who) : e \in Command =>
           (who = "scanner" => e \in ScannerWork) /\ (who = "initiator" => e \in InitiatorOps)
    BY SentKinds
  <2>3. Final(h, who) \in Command =>
           (who = "scanner" => Final(h, who) \in ScannerWork)
           /\ (who = "initiator" => Final(h, who) \in InitiatorOps)
    BY SentKinds DEF Final
  <2>4. \E e \in Command : g.out = <<e>> /\ (who = "scanner" => e \in ScannerWork)
                             /\ (who = "initiator" => e \in InitiatorOps)
    <3>1. CASE ok /\ GoesOn(g, h, who)
      BY <2>3, <3>1 DEF GoesOn
    <3>2. CASE ok /\ EditsOn(g, h, who)
      BY <2>2, <3>2 DEF EditsOn
    <3>3. CASE ~ok
      BY <2>1, <2>2, <3>3
    <3>4. QED
      BY <2>1, <3>1, <3>2, <3>3
  <2>5. Post(g, Tail(q))
    BY <1>3, <2>1, <2>4 DEF SameButList
  <2>6. QED
    BY <2>1, <2>5 DEF SameButList, g
<1>6. QED
  BY <1>4, <1>5

OutcomesKept(g, h) == \A c \in Connect : h.outcome[c] # "none" => g.outcome[c] = h.outcome[c]

LEMMA CancelledDoes ==
  ASSUME NEW h, Idle(h), NEW conns
  PROVE  LET g == Cancelled(h, conns)
         IN /\ g \in Host /\ g.out = <<>> /\ OwnUpdates(g)
            /\ g.pending = h.pending \ conns /\ g.crashed = h.crashed
            /\ \A c \in Connect : g.outcome[c] = IF c \in conns THEN "cancelled" ELSE h.outcome[c]
            /\ g.device = h.device /\ g.connecting = h.connecting /\ g.cancelled = h.cancelled
            /\ g.connections = h.connections /\ SameScanner(g, h) /\ SameLists(g, h)
            /\ SameCallFlags(g, h) /\ g.attempt = h.attempt
<1> DEFINE g == Cancelled(h, conns)
           out == [c \in Connect |-> IF c \in conns THEN "cancelled" ELSE h.outcome[c]]
<1>1. g = [h EXCEPT !.pending = h.pending \ conns, !.outcome = out]
  BY DEF Cancelled, Idle, Host
<1>2. out \in [Connect -> Outcome]
  BY DEF Idle, Host, Outcome
<1>3. \A c \in Connect : out[c] = IF c \in conns THEN "cancelled" ELSE h.outcome[c]
  OBVIOUS
<1> HIDE DEF out, g
<1>4. /\ g \in Host /\ g.out = <<>> /\ OwnUpdates(g) /\ g.outcome = out
      /\ g.pending = h.pending \ conns /\ g.crashed = h.crashed
      /\ g.device = h.device /\ g.connecting = h.connecting /\ g.cancelled = h.cancelled
      /\ g.connections = h.connections /\ SameScanner(g, h) /\ SameLists(g, h)
      /\ SameCallFlags(g, h) /\ g.attempt = h.attempt
  BY <1>1, <1>2 DEF Idle, Host, OwnUpdates, SameScanner, SameScan, SameLists, SameCallFlags
<1>5. QED
  BY <1>3, <1>4 DEF g

-----------------------------------------------------------------------------
(* The end of an attempt. *)

CancelledInAttempt(h) == h.attempt.conns \cap h.cancelled

\* The state an attempt leaves that came to nothing: those that were cancelled are gone.
AttemptRefused(m, h) ==
  /\ m \in Host /\ m.out = <<>> /\ OwnUpdates(m) /\ m.crashed = h.crashed
  /\ m.pending = h.pending \ CancelledInAttempt(h)
  /\ \A c \in Connect :
       m.outcome[c] = IF c \in CancelledInAttempt(h) THEN "cancelled" ELSE h.outcome[c]
  /\ m.device = h.device /\ m.cancelled = h.cancelled /\ m.connections = h.connections
  /\ m.connecting = h.connecting \ h.attempt.conns
  /\ SameScanner(m, h) /\ m.currentWhiteList = h.currentWhiteList /\ m.update = h.update
  /\ m.whiteListUsage = "none"
  /\ ~m.connectCommandInProgress /\ m.stopScanCallback = h.stopScanCallback
  /\ m.cancelCommandInProgress = h.cancelCommandInProgress
  /\ m.createConnectionIsOutstanding = h.createConnectionIsOutstanding

LEMMA CreateRefusedDoes ==
  ASSUME NEW h, Idle(h), NEW c
  PROVE  \E m : AttemptRefused(m, h) /\ CreateAnswer(h, c, FALSE) = TriggerConnectionChange(m)
<1> DEFINE k == [h EXCEPT !.connectCommandInProgress = FALSE]
           gone == CancelledInAttempt(h)
           n == Cancelled(k, gone)
           m == [n EXCEPT !.whiteListUsage = "none", !.attempt = None,
                          !.connecting = @ \ h.attempt.conns]
<1>1. CreateAnswer(h, c, FALSE) = TriggerConnectionChange(m)
  BY DEF CreateAnswer, CancelledInAttempt
<1>2. /\ k \in Host /\ k.out = <<>> /\ OwnUpdates(k) /\ k.crashed = h.crashed
      /\ k.pending = h.pending /\ k.outcome = h.outcome /\ k.connecting = h.connecting
      /\ k.device = h.device /\ k.cancelled = h.cancelled /\ k.connections = h.connections
      /\ SameScanner(k, h) /\ SameLists(k, h) /\ ~k.connectCommandInProgress
      /\ k.stopScanCallback = h.stopScanCallback
      /\ k.cancelCommandInProgress = h.cancelCommandInProgress
      /\ k.createConnectionIsOutstanding = h.createConnectionIsOutstanding
  BY DEF Idle, Host, OwnUpdates, SameScanner, SameScan, SameLists
<1> HIDE DEF k, gone
<1>3. /\ n \in Host /\ n.out = <<>> /\ OwnUpdates(n)
      /\ n.pending = k.pending \ gone /\ n.crashed = k.crashed
      /\ \A o \in Connect : n.outcome[o] = IF o \in gone THEN "cancelled" ELSE k.outcome[o]
      /\ n.device = k.device /\ n.connecting = k.connecting /\ n.cancelled = k.cancelled
      /\ n.connections = k.connections /\ SameScanner(n, k) /\ SameLists(n, k)
      /\ SameCallFlags(n, k)
  BY <1>2, CancelledDoes DEF Idle
<1> HIDE DEF n
<1>4. /\ m \in Host /\ m.out = <<>> /\ OwnUpdates(m)
      /\ m.pending = n.pending /\ m.crashed = n.crashed /\ m.outcome = n.outcome
      /\ m.device = n.device /\ m.cancelled = n.cancelled /\ m.connections = n.connections
      /\ m.connecting = n.connecting \ h.attempt.conns
      /\ SameScanner(m, n) /\ m.currentWhiteList = n.currentWhiteList /\ m.update = n.update
      /\ m.whiteListUsage = "none" /\ SameCallFlags(m, n)
  BY <1>3 DEF Host, User, OwnUpdates, SameScanner, SameScan, SameCallFlags
<1> HIDE DEF m
<1>5. SameScanner(m, h) /\ m.currentWhiteList = h.currentWhiteList /\ m.update = h.update
  BY <1>2, <1>3, <1>4 DEF SameScanner, SameScan, SameLists
<1>6. AttemptRefused(m, h)
  BY <1>2, <1>3, <1>4, <1>5 DEF AttemptRefused, SameCallFlags, gone
<1>7. QED
  BY <1>1, <1>6

Found(h, d) == {c \in h.attempt.conns : d # None /\ h.device[c] = d}
FirstFound(h, d) == {c \in Found(h, d) : \A o \in Found(h, d) : c <= o}
Gone(h, d) == CancelledInAttempt(h) \ FirstFound(h, d)

\* The state that is left by an attempt that ended with d.
AttemptCompleted(m, h, d) ==
  /\ m \in Host /\ m.out = <<>> /\ OwnUpdates(m) /\ m.crashed = h.crashed
  /\ m.pending = (h.pending \ Gone(h, d)) \ FirstFound(h, d)
  /\ \A c \in Connect :
       m.outcome[c] = IF c \in FirstFound(h, d) THEN "connected"
                      ELSE IF c \in Gone(h, d) THEN "cancelled" ELSE h.outcome[c]
  /\ m.device = h.device /\ m.cancelled = h.cancelled
  /\ m.connecting = h.connecting \ h.attempt.conns
  /\ SameScanner(m, h) /\ m.currentWhiteList = h.currentWhiteList /\ m.update = h.update
  /\ m.whiteListUsage = "none"
  /\ m.connectCommandInProgress = h.connectCommandInProgress
  /\ m.stopScanCallback = h.stopScanCallback
  /\ ~m.cancelCommandInProgress /\ ~m.createConnectionIsOutstanding

\* Nobody waited for d: the process ends.
Foreign(g, h, d) ==
  /\ d # None /\ FirstFound(h, d) = {}
  /\ g \in Host /\ g.out = <<>> /\ OwnUpdates(g)
  /\ g.crashed = "connection complete but failed conn"
  /\ \A c \in Connect : g.outcome[c] = IF c \in Gone(h, d) THEN "cancelled" ELSE h.outcome[c]
  /\ g.currentWhiteList = h.currentWhiteList /\ g.update = h.update

LEMMA ConnectionCompleteDoes ==
  ASSUME NEW h, Idle(h), NEW d \in Device \cup {None}
  PROVE  LET g == ConnectionComplete(h, d)
         IN \/ Foreign(g, h, d)
            \/ \E m : /\ AttemptCompleted(m, h, d) /\ g = TriggerConnectionChange(m)
                      /\ d = None \/ FirstFound(h, d) # {}
<1> DEFINE g == ConnectionComplete(h, d)
           conn == FirstFound(h, d)
           gone == Gone(h, d)
           n == Cancelled(h, gone)
           k == [n EXCEPT !.whiteListUsage = "none", !.attempt = None,
                   !.cancelCommandInProgress = FALSE, !.createConnectionIsOutstanding = FALSE,
                   !.connecting = @ \ h.attempt.conns]
           out == [c \in Connect |-> IF c \in conn THEN "connected" ELSE k.outcome[c]]
           m == [k EXCEPT !.pending = k.pending \ conn, !.outcome = out,
                          !.connections = k.connections \cup ({d} \ {None})]
<1>1. /\ n \in Host /\ n.out = <<>> /\ OwnUpdates(n)
      /\ n.pending = h.pending \ gone /\ n.crashed = h.crashed
      /\ \A c \in Connect : n.outcome[c] = IF c \in gone THEN "cancelled" ELSE h.outcome[c]
      /\ n.device = h.device /\ n.connecting = h.connecting /\ n.cancelled = h.cancelled
      /\ n.connections = h.connections /\ SameScanner(n, h) /\ SameLists(n, h)
      /\ SameCallFlags(n, h)
  BY CancelledDoes
<1>2. [k EXCEPT !.pending = @ \ conn,
                !.outcome = [c \in Connect |-> IF c \in conn THEN "connected" ELSE @[c]],
                !.connections = @ \cup ({d} \ {None})] = m
  <2> HIDE DEF n, conn
  <2>1. k \in Host
    BY <1>1 DEF Host, User
  <2> HIDE DEF k
  <2>2. QED
    BY <2>1 DEF Host
<1>3. g = IF d # None /\ conn = {} THEN Crash(k, "connection complete but failed conn")
          ELSE TriggerConnectionChange(m)
  BY <1>2 DEF ConnectionComplete, NextAttempt, FirstFound, Found, Gone, CancelledInAttempt
<1> HIDE DEF n, gone, conn, g
<1>4. /\ k \in Host /\ k.out = <<>> /\ OwnUpdates(k)
      /\ k.pending = n.pending /\ k.crashed = n.crashed /\ k.outcome = n.outcome
      /\ k.device = n.device /\ k.cancelled = n.cancelled /\ k.connections = n.connections
      /\ k.connecting = n.connecting \ h.attempt.conns
      /\ SameScanner(k, n) /\ k.currentWhiteList = n.currentWhiteList /\ k.update = n.update
      /\ k.whiteListUsage = "none" /\ k.connectCommandInProgress = n.connectCommandInProgress
      /\ k.stopScanCallback = n.stopScanCallback
      /\ ~k.cancelCommandInProgress /\ ~k.createConnectionIsOutstanding
  BY <1>1 DEF Host, User, OwnUpdates, SameScanner, SameScan
<1> HIDE DEF k
<1>5. CASE d # None /\ conn = {}
  <2>1. g = [k EXCEPT !.crashed = "connection complete but failed conn"]
    BY <1>3, <1>5 DEF Crash
  <2>2. /\ g \in Host /\ g.out = <<>> /\ OwnUpdates(g)
        /\ g.crashed = "connection complete but failed conn" /\ g.outcome = k.outcome
        /\ g.currentWhiteList = k.currentWhiteList /\ g.update = k.update
    BY <1>4, <2>1 DEF Host, Why, OwnUpdates
  <2>3. Foreign(g, h, d)
    BY <1>1, <1>4, <1>5, <2>2 DEF Foreign, SameLists, conn, gone
  <2>4. QED
    BY <2>3 DEF g
<1>6. CASE d = None \/ conn # {}
  <2>1. g = TriggerConnectionChange(m)
    BY <1>3, <1>6
  <2>2. /\ out \in [Connect -> Outcome]
        /\ \A c \in Connect : out[c] = IF c \in conn THEN "connected" ELSE k.outcome[c]
    BY <1>4 DEF Host, Outcome
  <2> HIDE DEF out
  <2>3. k.connections \cup ({d} \ {None}) \in SUBSET Device
    BY <1>4 DEF Host
  <2>4. /\ m \in Host /\ m.out = <<>> /\ OwnUpdates(m)
        /\ m.pending = k.pending \ conn /\ m.crashed = k.crashed /\ m.outcome = out
        /\ m.device = k.device /\ m.cancelled = k.cancelled
        /\ m.connecting = k.connecting
        /\ SameScanner(m, k) /\ m.currentWhiteList = k.currentWhiteList /\ m.update = k.update
        /\ m.whiteListUsage = "none" /\ m.connectCommandInProgress = k.connectCommandInProgress
        /\ m.stopScanCallback = k.stopScanCallback
        /\ ~m.cancelCommandInProgress /\ ~m.createConnectionIsOutstanding
    BY <1>4, <2>2, <2>3 DEF Host, OwnUpdates, SameScanner, SameScan
  <2> HIDE DEF m
  <2>5. SameScanner(m, h)
    BY <1>1, <1>4, <2>4 DEF SameScanner, SameScan
  <2>6. AttemptCompleted(m, h, d)
    <3>1. \A c \in Connect :
            m.outcome[c] = IF c \in conn THEN "connected"
                           ELSE IF c \in gone THEN "cancelled" ELSE h.outcome[c]
      BY <1>1, <1>4, <2>2, <2>4
    <3>2. m.pending = (h.pending \ gone) \ conn
      BY <1>1, <1>4, <2>4
    <3>3. QED
      BY <1>1, <1>4, <2>4, <2>5, <3>1, <3>2
         DEF AttemptCompleted, SameLists, SameCallFlags, conn, gone
  <2>7. QED
    BY <1>6, <2>1, <2>6 DEF g, conn
<1>7. QED
  BY <1>5, <1>6

LEMMA CreateAnswerFlow ==
  ASSUME NEW h, Idle(h), h.crashed = "no", NEW q, Flow(h, q), q # <<>>,
         NEW c, c = Head(q), c.op = "create", NEW ok \in BOOLEAN
  PROVE  LET g == CreateAnswer(h, c, ok)
         IN /\ Post(g, Tail(q)) /\ OutcomesKept(g, h)
            /\ g.crashed = "no" => g.createConnectionIsOutstanding = ok
<1> DEFINE g == CreateAnswer(h, c, ok)
           t == Tail(q)
<1>1. /\ CallsOk(h) /\ QueueOk(h, q) /\ h \in Host /\ q \in Seq(Command) /\ c \in Command
      /\ t \in Seq(Command) /\ h.out = <<>> /\ OwnUpdates(h)
  BY TailFacts DEF Flow, QueueOk, Idle
<1>2. c \in InitiatorOps /\ c \in CreateOps
  BY <1>1 DEF InitiatorOps, CreateOps
<1>3. Has(q, InitiatorOps)
  BY <1>1, <1>2, TailHas
<1>4. /\ h.connectCommandInProgress /\ ~h.createConnectionIsOutstanding
      /\ ~h.cancelCommandInProgress /\ ~h.stopScanCallback
      /\ h.attempt \in Attempt /\ h.attempt.conns = h.connecting /\ h.connecting \subseteq h.pending
  BY <1>1, <1>3 DEF QueueOk, CallsOk
<1>5. ~Has(t, CancelOps)
  <2>1. ~Has(q, CancelOps)
    BY <1>1, <1>2, TailBefore DEF QueueOk
  <2>2. QED
    BY <1>1, <2>1, TailHas
<1> HIDE DEF t
<1>6. CASE ok
  <2> DEFINE k == [h EXCEPT !.connectCommandInProgress = FALSE]
             m == [k EXCEPT !.createConnectionIsOutstanding = TRUE]
  <2>1. g = IF CancelledInAttempt(h) # {} THEN SendCancel(m) ELSE TriggerConnectionChange(m)
    BY <1>6 DEF CreateAnswer, AttemptStarted, CancelledInAttempt
  <2>2. /\ m \in Host /\ m.out = <<>> /\ OwnUpdates(m) /\ m.crashed = "no"
        /\ SameOutcomes(m, h) /\ SameScanner(m, h) /\ m.connecting = h.connecting
        /\ m.attempt = h.attempt /\ m.stopScanCallback = h.stopScanCallback
        /\ m.cancelCommandInProgress = h.cancelCommandInProgress
        /\ ~m.connectCommandInProgress /\ m.createConnectionIsOutstanding = TRUE
    BY <1>1 DEF Host, OwnUpdates, SameOutcomes, SameScanner, SameScan
  <2> HIDE DEF m, g
  <2>3. CallsOk(m)
    BY <1>1, <1>4, <2>2 DEF CallsOk, SameOutcomes
  <2>4. QueueOk(m, t) /\ ~Has(t, InitiatorOps)
    BY <1>1, <1>2, <1>4, <1>5, <2>2, PopInitiator DEF SameScanner, SameScan, t
  <2>5. CASE CancelledInAttempt(h) # {}
    <3>1. /\ g \in Host /\ OwnUpdates(g)
          /\ SameOutcomes(g, m) /\ SameFlags(g, m) /\ SameScanner(g, m)
          /\ g.connecting = m.connecting /\ g.attempt = m.attempt
          /\ g.connectCommandInProgress = m.connectCommandInProgress
          /\ g.cancelCommandInProgress
          /\ g.createConnectionIsOutstanding = m.createConnectionIsOutstanding
          /\ g.out = <<CancelCommand>> /\ CancelCommand \in Command
      BY <2>1, <2>2, <2>5, SendCancelDoes DEF Idle
    <3>2. t \o g.out = Append(t, CancelCommand) /\ CancelCommand \in CancelOps
      BY <1>1, <3>1, ConcatSent, SentKinds
    <3>3. QueueOk(g, Append(t, CancelCommand))
      BY <1>5, <2>4, <3>1, <3>2, CancelSends DEF SameScanner, SameScan, SameFlags
    <3>4. CallsOk(g)
      BY <2>2, <2>3, <3>1 DEF CallsOk, SameOutcomes, SameFlags
    <3>5. OutcomesKept(g, h)
      BY <2>2, <3>1 DEF OutcomesKept, SameOutcomes
    <3>6. QED
      BY <1>6, <2>2, <3>1, <3>2, <3>3, <3>4, <3>5 DEF Post, Flow, g, t
  <2>6. CASE CancelledInAttempt(h) = {}
    <3>1. /\ g \in Host /\ OwnUpdates(g)
          /\ g.out = <<>> \/ \E e \in Command : g.out = <<e>>
          /\ SameOutcomes(g, m)
          /\ g.createConnectionIsOutstanding = m.createConnectionIsOutstanding
          /\ \/ g.crashed = "startScan"
             \/ Flow(g, t \o g.out) /\ g.crashed = m.crashed
      BY <2>1, <2>2, <2>3, <2>4, <2>6, ConnectionFlow DEF Idle, Flow
    <3>2. OutcomesKept(g, h)
      BY <2>2, <3>1 DEF OutcomesKept, SameOutcomes
    <3>3. QED
      BY <1>6, <2>2, <3>1, <3>2 DEF Post, g, t
  <2>7. QED
    BY <2>5, <2>6
<1>7. CASE ~ok
  <2>1. ok = FALSE
    BY <1>7
  <2>2. PICK m : AttemptRefused(m, h) /\ g = TriggerConnectionChange(m)
    BY <2>1, CreateRefusedDoes
  <2> HIDE DEF g
  <2>3. /\ m \in Host /\ m.out = <<>> /\ OwnUpdates(m) /\ m.crashed = "no" /\ SameScanner(m, h)
        /\ ~m.connectCommandInProgress /\ ~m.createConnectionIsOutstanding
        /\ ~m.cancelCommandInProgress /\ ~m.stopScanCallback /\ m.connecting = {}
    BY <1>4, <2>2 DEF AttemptRefused
  <2>4. CallsOk(m)
    <3>1. CancelledInAttempt(h) \subseteq h.pending
      BY <1>4 DEF CancelledInAttempt
    <3>2. m.pending = h.pending \ CancelledInAttempt(h) /\ m.device = h.device
      BY <2>2 DEF AttemptRefused
    <3>3. \A o \in Connect :
            m.outcome[o] = IF o \in CancelledInAttempt(h) THEN "cancelled" ELSE h.outcome[o]
      BY <2>2 DEF AttemptRefused
    <3>4. \A o \in Connect : o \in m.pending <=> m.device[o] # None /\ m.outcome[o] = "none"
      BY <1>1, <3>1, <3>2, <3>3 DEF CallsOk
    <3>5. \A o \in Connect : m.device[o] = None => m.outcome[o] = "none"
      BY <1>1, <3>1, <3>2, <3>3 DEF CallsOk
    <3>6. QED
      BY <2>3, <3>4, <3>5 DEF CallsOk
  <2>5. QueueOk(m, t)
    BY <1>1, <1>2, <1>5, <2>3, PopInitiator DEF SameScanner, SameScan, t
  <2>6. /\ g \in Host /\ OwnUpdates(g)
        /\ g.out = <<>> \/ \E e \in Command : g.out = <<e>>
        /\ SameOutcomes(g, m)
        /\ g.createConnectionIsOutstanding = m.createConnectionIsOutstanding
        /\ \/ g.crashed = "startScan"
           \/ Flow(g, t \o g.out) /\ g.crashed = m.crashed
    BY <2>2, <2>3, <2>4, <2>5, ConnectionFlow DEF Idle, Flow
  <2>7. OutcomesKept(m, h)
    <3> SUFFICES ASSUME NEW o \in Connect, h.outcome[o] # "none"
                 PROVE  m.outcome[o] = h.outcome[o]
      BY DEF OutcomesKept
    <3>1. o \notin CancelledInAttempt(h)
      BY <1>1, <1>4 DEF CallsOk, CancelledInAttempt
    <3>2. QED
      BY <2>2, <3>1 DEF AttemptRefused
  <2>8. OutcomesKept(g, h)
    BY <2>6, <2>7 DEF OutcomesKept, SameOutcomes
  <2>9. g.createConnectionIsOutstanding = FALSE
    BY <2>3, <2>6 DEF Host
  <2>10. QED
    BY <2>1, <2>3, <2>6, <2>8, <2>9 DEF Post, g, t
<1>8. QED
  BY <1>6, <1>7

LEMMA CompleteFlow ==
  ASSUME NEW h, Idle(h), h.crashed = "no", NEW q, Flow(h, q), h.createConnectionIsOutstanding,
         NEW d \in Device \cup {None}
  PROVE  LET g == ConnectionComplete(h, d)
         IN /\ Post(g, q) /\ OutcomesKept(g, h)
            /\ g.crashed = "no" => ~g.createConnectionIsOutstanding
<1> DEFINE g == ConnectionComplete(h, d)
<1>1. /\ CallsOk(h) /\ QueueOk(h, q) /\ h \in Host /\ q \in Seq(Command)
  BY DEF Flow, QueueOk, Idle
<1>2. /\ ~h.connectCommandInProgress /\ ~h.stopScanCallback
      /\ h.attempt \in Attempt /\ h.attempt.conns = h.connecting /\ h.connecting \subseteq h.pending
  BY <1>1 DEF CallsOk
<1>3. FirstFound(h, d) \subseteq h.pending /\ Gone(h, d) \subseteq h.pending
  BY <1>2 DEF FirstFound, Found, Gone, CancelledInAttempt
<1>4. \A c \in Connect : c \in h.pending => h.outcome[c] = "none"
  BY <1>1 DEF CallsOk
<1>5. CASE Foreign(g, h, d)
  <2>1. OutcomesKept(g, h)
    BY <1>3, <1>4, <1>5 DEF OutcomesKept, Foreign
  <2>2. QED
    BY <1>5, <2>1 DEF Foreign, Post
<1>6. ASSUME NEW m, AttemptCompleted(m, h, d), g = TriggerConnectionChange(m)
      PROVE  /\ Post(g, q) /\ OutcomesKept(g, h)
             /\ g.crashed = "no" => ~g.createConnectionIsOutstanding
  <2> HIDE DEF g
  <2>1. /\ m \in Host /\ m.out = <<>> /\ OwnUpdates(m) /\ m.crashed = "no" /\ SameScanner(m, h)
        /\ ~m.connectCommandInProgress /\ ~m.createConnectionIsOutstanding
        /\ ~m.cancelCommandInProgress /\ ~m.stopScanCallback /\ m.connecting = {}
        /\ m.device = h.device
    BY <1>2, <1>6 DEF AttemptCompleted
  <2>2. OutcomesKept(m, h)
    BY <1>3, <1>4, <1>6 DEF OutcomesKept, AttemptCompleted
  <2>3. CallsOk(m)
    <3>1. \A o \in Connect :
            /\ m.outcome[o] = IF o \in FirstFound(h, d) THEN "connected"
                              ELSE IF o \in Gone(h, d) THEN "cancelled" ELSE h.outcome[o]
            /\ o \in m.pending <=> o \in h.pending /\ o \notin Gone(h, d) /\ o \notin FirstFound(h, d)
      BY <1>6 DEF AttemptCompleted
    <3>2. \A o \in Connect : o \in m.pending <=> m.device[o] # None /\ m.outcome[o] = "none"
      BY <1>1, <1>3, <2>1, <3>1 DEF CallsOk
    <3>3. \A o \in Connect : m.device[o] = None => m.outcome[o] = "none"
      BY <1>1, <1>3, <2>1, <3>1 DEF CallsOk
    <3>4. QED
      BY <2>1, <3>2, <3>3 DEF CallsOk
  <2>4. QueueOk(m, q)
    BY <1>1, <1>2, <2>1 DEF QueueOk, SameScanner, SameScan
  <2>5. /\ g \in Host /\ OwnUpdates(g)
        /\ g.out = <<>> \/ \E e \in Command : g.out = <<e>>
        /\ SameOutcomes(g, m)
        /\ g.createConnectionIsOutstanding = m.createConnectionIsOutstanding
        /\ \/ g.crashed = "startScan"
           \/ Flow(g, q \o g.out) /\ g.crashed = m.crashed
    BY <1>6, <2>1, <2>3, <2>4, ConnectionFlow DEF Idle, Flow
  <2>6. OutcomesKept(g, h)
    BY <2>2, <2>5 DEF OutcomesKept, SameOutcomes
  <2>7. QED
    BY <2>1, <2>5, <2>6 DEF Post
<1>7. QED
  BY <1>5, <1>6, ConnectionCompleteDoes

-----------------------------------------------------------------------------
(* The calls of the application. *)

WithScanner(h, s, kind, r) == [h EXCEPT !.scanners[s] = kind, !.scanningNeedsRestart = r]

WithPlace(scanners, s, kind) == [scanners EXCEPT ![s] = kind]

LEMMA WithScannerIs ==
  ASSUME NEW h, Idle(h), NEW s \in Scan, NEW kind \in Kind \cup {None}, NEW r \in BOOLEAN,
         NEW m, m = WithScanner(h, s, kind, r)
  PROVE  /\ Idle(m) /\ SameCalls(m, h) /\ SameFlags(m, h) /\ SameLists(m, h)
         /\ m.scannerCommandInProgress = h.scannerCommandInProgress
         /\ m.scanChange = h.scanChange /\ m.scanEnabled = h.scanEnabled
         /\ m.active = h.active /\ m.policy = h.policy
         /\ m.scanners = WithPlace(h.scanners, s, kind)
<1> DEFINE sc == [h.scanners EXCEPT ![s] = kind]
<1>1. sc \in [Scan -> Kind \cup {None}]
  BY DEF Idle, Host
<1>2. m = [h EXCEPT !.scanners = sc, !.scanningNeedsRestart = r]
  BY DEF WithScanner
<1> HIDE DEF sc
<1>3. /\ Idle(m) /\ SameCalls(m, h) /\ SameFlags(m, h) /\ SameLists(m, h)
      /\ m.scannerCommandInProgress = h.scannerCommandInProgress
      /\ m.scanChange = h.scanChange /\ m.scanEnabled = h.scanEnabled
      /\ m.active = h.active /\ m.policy = h.policy
      /\ m.scanners = sc
  BY <1>1, <1>2 DEF Idle, Host, OwnUpdates, SameCalls, SameFlags, SameLists
<1>4. QED
  BY <1>3 DEF sc, WithPlace

LEMMA ScannersFlow ==
  ASSUME NEW h, Idle(h), h.crashed = "no", NEW q, Flow(h, q),
         NEW s \in Scan, NEW kind \in Kind \cup {None}, NEW r \in BOOLEAN
  PROVE  LET g == TriggerScannerChange(WithScanner(h, s, kind, r))
         IN Post(g, q) /\ SameCalls(g, h)
<1> DEFINE m == WithScanner(h, s, kind, r)
           g == TriggerScannerChange(m)
<1>0. m = WithScanner(h, s, kind, r)
  OBVIOUS
<1> HIDE DEF m
<1>1. /\ Idle(m) /\ SameCalls(m, h) /\ SameFlags(m, h) /\ SameLists(m, h)
      /\ m.scannerCommandInProgress = h.scannerCommandInProgress
      /\ m.scanChange = h.scanChange
  BY <1>0, WithScannerIs
<1>2. CallsOk(m)
  BY <1>1, CallsOkKept DEF Flow, SameFlags
<1>3. QueueOk(m, q)
  BY <1>1 DEF Flow, QueueOk, SameCalls, SameFlags
<1>4. /\ g \in Host /\ OwnUpdates(g) /\ Flow(g, q \o g.out) /\ SameCalls(g, m)
      /\ g.out = <<>> \/ \E c \in Command : g.out = <<c>>
  BY <1>1, <1>2, <1>3, ScannerFlow DEF Flow
<1> HIDE DEF g
<1>5. Post(g, q) /\ SameCalls(g, h)
  BY <1>1, <1>4 DEF Post, SameCalls
<1>6. QED
  BY <1>5 DEF g, m

WithCall(h, c, d) == [h EXCEPT !.device[c] = d, !.pending = @ \cup {c}]

LEMMA WithCallIs ==
  ASSUME NEW h, Idle(h), NEW c \in Connect, NEW d \in Device
  PROVE  LET m == WithCall(h, c, d)
         IN /\ Idle(m) /\ SameScanner(m, h) /\ SameFlags(m, h) /\ SameLists(m, h)
            /\ SameCallFlags(m, h) /\ m.attempt = h.attempt /\ m.connecting = h.connecting
            /\ m.cancelled = h.cancelled /\ m.outcome = h.outcome
            /\ m.connections = h.connections
            /\ m.pending = h.pending \cup {c} /\ m.device = [h.device EXCEPT ![c] = d]
<1> DEFINE m == WithCall(h, c, d)
           dev == [h.device EXCEPT ![c] = d]
<1>1. dev \in [Connect -> Device \cup {None}] /\ h.pending \cup {c} \in SUBSET Connect
  BY DEF Idle, Host
<1>2. m = [h EXCEPT !.device = dev, !.pending = h.pending \cup {c}]
  BY DEF WithCall, Idle, Host
<1> HIDE DEF dev, m
<1>3. /\ Idle(m) /\ SameScanner(m, h) /\ SameFlags(m, h) /\ SameLists(m, h)
      /\ SameCallFlags(m, h) /\ m.attempt = h.attempt /\ m.connecting = h.connecting
      /\ m.cancelled = h.cancelled /\ m.outcome = h.outcome
      /\ m.connections = h.connections
      /\ m.pending = h.pending \cup {c} /\ m.device = dev
  BY <1>1, <1>2
     DEF Idle, Host, OwnUpdates, SameScanner, SameScan, SameFlags, SameLists, SameCallFlags
<1>4. QED
  BY <1>3 DEF dev, m

LEMMA ConnectFlow ==
  ASSUME NEW h, Idle(h), h.crashed = "no", NEW q, Flow(h, q), NEW c \in Connect, NEW d \in Device,
         h.device[c] = None
  PROVE  LET g == TriggerConnectionChange(WithCall(h, c, d))
         IN /\ Post(g, q) /\ OutcomesKept(g, h)
            /\ g.createConnectionIsOutstanding = h.createConnectionIsOutstanding
<1> DEFINE m == WithCall(h, c, d)
           g == TriggerConnectionChange(m)
<1>1. /\ Idle(m) /\ SameScanner(m, h) /\ SameFlags(m, h) /\ SameLists(m, h)
      /\ SameCallFlags(m, h) /\ m.attempt = h.attempt /\ m.connecting = h.connecting
      /\ m.cancelled = h.cancelled /\ m.outcome = h.outcome
      /\ m.connections = h.connections
      /\ m.pending = h.pending \cup {c} /\ m.device = [h.device EXCEPT ![c] = d]
  BY WithCallIs
<1> HIDE DEF m
<1>2. d # None
  BY ManagerAssumption
<1>3. h.device \in [Connect -> Device \cup {None}] /\ m.device[c] = d
      /\ \A o \in Connect : o # c => m.device[o] = h.device[o]
  BY <1>1 DEF Idle, Host
<1>4. CallsOk(m)
  <2>1. \A o \in Connect : o \in m.pending <=> m.device[o] # None /\ m.outcome[o] = "none"
    BY <1>1, <1>2, <1>3 DEF Flow, CallsOk
  <2>2. \A o \in Connect : m.device[o] = None => m.outcome[o] = "none"
    BY <1>1, <1>2, <1>3 DEF Flow, CallsOk
  <2>3. QED
    BY <1>1, <2>1, <2>2 DEF Flow, CallsOk, SameCallFlags
<1>5. QueueOk(m, q)
  BY <1>1 DEF Flow, QueueOk, SameCallFlags, SameScanner, SameScan
<1>6. /\ g \in Host /\ OwnUpdates(g)
      /\ g.out = <<>> \/ \E e \in Command : g.out = <<e>>
      /\ SameOutcomes(g, m)
      /\ g.createConnectionIsOutstanding = m.createConnectionIsOutstanding
      /\ \/ g.crashed = "startScan"
         \/ Flow(g, q \o g.out) /\ g.crashed = m.crashed
  BY <1>1, <1>4, <1>5, ConnectionFlow DEF Flow
<1> HIDE DEF g
<1>7. /\ Post(g, q) /\ OutcomesKept(g, h)
      /\ g.createConnectionIsOutstanding = h.createConnectionIsOutstanding
  BY <1>1, <1>6 DEF Post, OutcomesKept, SameOutcomes, SameCallFlags
<1>8. QED
  BY <1>7 DEF g, m

WithCancel(h, c) == [h EXCEPT !.cancelled = @ \cup {c}]

LEMMA WithCancelIs ==
  ASSUME NEW h, Idle(h), NEW c \in Connect
  PROVE  LET m == WithCancel(h, c)
         IN /\ Idle(m) /\ SameScanner(m, h) /\ SameFlags(m, h) /\ SameLists(m, h)
            /\ SameCallFlags(m, h) /\ m.attempt = h.attempt /\ m.connecting = h.connecting
            /\ m.outcome = h.outcome /\ m.connections = h.connections
            /\ m.pending = h.pending /\ m.device = h.device
            /\ m.cancelled = h.cancelled \cup {c}
<1> DEFINE m == WithCancel(h, c)
<1>1. h.cancelled \cup {c} \in SUBSET Connect
  BY DEF Idle, Host
<1>2. m = [h EXCEPT !.cancelled = h.cancelled \cup {c}]
  BY DEF WithCancel, Idle, Host
<1> HIDE DEF m
<1>3. /\ Idle(m) /\ SameScanner(m, h) /\ SameFlags(m, h) /\ SameLists(m, h)
      /\ SameCallFlags(m, h) /\ m.attempt = h.attempt /\ m.connecting = h.connecting
      /\ m.outcome = h.outcome /\ m.connections = h.connections
      /\ m.pending = h.pending /\ m.device = h.device
      /\ m.cancelled = h.cancelled \cup {c}
  BY <1>1, <1>2
     DEF Idle, Host, OwnUpdates, SameScanner, SameScan, SameFlags, SameLists, SameCallFlags
<1>4. QED
  BY <1>3 DEF m

LEMMA CancelFlow ==
  ASSUME NEW h, Idle(h), h.crashed = "no", NEW q, Flow(h, q), NEW c \in h.pending
  PROVE  LET g == CancelOf(h, c)
         IN /\ Post(g, q) /\ OutcomesKept(g, h)
            /\ g.createConnectionIsOutstanding = h.createConnectionIsOutstanding
<1> DEFINE k == WithCancel(h, c)
           g == CancelOf(h, c)
<1>1. c \in Connect /\ h \in Host /\ CallsOk(h) /\ QueueOk(h, q) /\ q \in Seq(Command)
  BY DEF Idle, Host, Flow, QueueOk
<1>2. /\ Idle(k) /\ SameScanner(k, h) /\ SameFlags(k, h) /\ SameLists(k, h)
      /\ SameCallFlags(k, h) /\ k.attempt = h.attempt /\ k.connecting = h.connecting
      /\ k.outcome = h.outcome /\ k.connections = h.connections
      /\ k.pending = h.pending /\ k.device = h.device
  BY <1>1, WithCancelIs
<1>3. g = IF c \in h.connecting
          THEN IF h.createConnectionIsOutstanding /\ ~h.cancelCommandInProgress
               THEN SendCancel(k) ELSE k
          ELSE TriggerConnectionChange(Cancelled(k, {c}))
  BY DEF CancelOf, WithCancel
<1> HIDE DEF k, g
<1>4. CallsOk(k)
  BY <1>1, <1>2 DEF CallsOk, SameCallFlags
<1>5. QueueOk(k, q)
  BY <1>1, <1>2 DEF QueueOk, SameCallFlags, SameScanner, SameScan
<1>6. CASE /\ c \in h.connecting /\ h.createConnectionIsOutstanding /\ ~h.cancelCommandInProgress
  <2>1. /\ g \in Host /\ OwnUpdates(g)
        /\ SameOutcomes(g, k) /\ SameFlags(g, k) /\ SameScanner(g, k)
        /\ g.connecting = k.connecting /\ g.attempt = k.attempt
        /\ g.connectCommandInProgress = k.connectCommandInProgress
        /\ g.cancelCommandInProgress
        /\ g.createConnectionIsOutstanding = k.createConnectionIsOutstanding
        /\ g.out = <<CancelCommand>> /\ CancelCommand \in Command
    BY <1>2, <1>3, <1>6, SendCancelDoes
  <2>2. q \o g.out = Append(q, CancelCommand) /\ CancelCommand \in CancelOps
    BY <1>1, <2>1, ConcatSent, SentKinds
  <2>3. ~Has(q, CancelOps) /\ ~Has(q, InitiatorOps)
    BY <1>1, <1>6 DEF QueueOk, CallsOk
  <2>4. QueueOk(g, Append(q, CancelCommand))
    BY <1>5, <2>1, <2>2, <2>3, CancelSends DEF SameScanner, SameScan, SameFlags
  <2>5. CallsOk(g)
    BY <1>2, <1>4, <1>6, <2>1 DEF CallsOk, SameOutcomes, SameFlags, SameCallFlags
  <2>6. OutcomesKept(g, h) /\ g.createConnectionIsOutstanding = h.createConnectionIsOutstanding
    BY <1>2, <2>1 DEF OutcomesKept, SameOutcomes, SameCallFlags
  <2>7. QED
    BY <2>1, <2>2, <2>4, <2>5, <2>6 DEF Post, Flow, g
<1>7. CASE /\ c \in h.connecting
           /\ ~(h.createConnectionIsOutstanding /\ ~h.cancelCommandInProgress)
  <2>1. g = k
    BY <1>3, <1>7
  <2>2. k \in Host /\ OwnUpdates(k) /\ k.out = <<>>
    BY <1>2 DEF Idle
  <2>3. q \o k.out = q
    BY <1>1, <2>2, ConcatSent
  <2>4. OutcomesKept(k, h) /\ k.createConnectionIsOutstanding = h.createConnectionIsOutstanding
    BY <1>2 DEF OutcomesKept, SameCallFlags
  <2>5. QED
    BY <1>4, <1>5, <2>1, <2>2, <2>3, <2>4 DEF Post, Flow, g
<1>8. CASE c \notin h.connecting
  <2> DEFINE m == Cancelled(k, {c})
  <2>1. /\ m \in Host /\ m.out = <<>> /\ OwnUpdates(m)
        /\ m.pending = k.pending \ {c} /\ m.crashed = k.crashed
        /\ \A o \in Connect : m.outcome[o] = IF o \in {c} THEN "cancelled" ELSE k.outcome[o]
        /\ m.device = k.device /\ m.connecting = k.connecting /\ m.cancelled = k.cancelled
        /\ m.connections = k.connections /\ SameScanner(m, k) /\ SameLists(m, k)
        /\ SameCallFlags(m, k) /\ m.attempt = k.attempt
    BY <1>2, CancelledDoes
  <2>2. g = TriggerConnectionChange(m)
    BY <1>3, <1>8
  <2> HIDE DEF m
  <2>3. CallsOk(m)
    <3>1. \A o \in Connect : o \in m.pending <=> m.device[o] # None /\ m.outcome[o] = "none"
      BY <1>2, <1>4, <2>1 DEF CallsOk
    <3>2. \A o \in Connect : m.device[o] = None => m.outcome[o] = "none"
      BY <1>1, <1>2, <1>4, <2>1 DEF CallsOk
    <3>3. m.connecting \subseteq m.pending
      BY <1>2, <1>4, <1>8, <2>1 DEF CallsOk
    <3>4. QED
      BY <1>4, <2>1, <3>1, <3>2, <3>3 DEF CallsOk, SameCallFlags
  <2>4. QueueOk(m, q)
    BY <1>5, <2>1 DEF QueueOk, SameCallFlags, SameScanner, SameScan
  <2>5. /\ g \in Host /\ OwnUpdates(g)
        /\ g.out = <<>> \/ \E e \in Command : g.out = <<e>>
        /\ SameOutcomes(g, m)
        /\ g.createConnectionIsOutstanding = m.createConnectionIsOutstanding
        /\ \/ g.crashed = "startScan"
           \/ Flow(g, q \o g.out) /\ g.crashed = m.crashed
    BY <2>1, <2>2, <2>3, <2>4, ConnectionFlow DEF Idle, Flow
  <2>6. OutcomesKept(m, h)
    <3> SUFFICES ASSUME NEW o \in Connect, h.outcome[o] # "none"
                 PROVE  m.outcome[o] = h.outcome[o]
      BY DEF OutcomesKept
    <3>1. o # c
      BY <1>1 DEF CallsOk
    <3>2. QED
      BY <1>2, <2>1, <3>1
  <2>7. /\ OutcomesKept(g, h)
        /\ g.createConnectionIsOutstanding = h.createConnectionIsOutstanding
    BY <1>2, <2>1, <2>5, <2>6 DEF OutcomesKept, SameOutcomes, SameCallFlags
  <2>8. QED
    BY <1>2, <2>1, <2>5, <2>7 DEF Post, g, SameFlags
<1>9. QED
  BY <1>6, <1>7, <1>8

-----------------------------------------------------------------------------
(* The answers and events under way. *)

Reports == {e \in Event : e.type = "answer"}
Grants == {e \in Reports : e.ok}
Completions == {e \in Event : e.type = "complete"}

\* The command that creates a connection was accepted, and the host does not know it yet.
CreateGranted(q, ev) == q # <<>> /\ Head(q) \in CreateOps /\ Has(ev, Grants)

EventsOk(q, ev) ==
  One(ev, Reports) /\ One(ev, Completions) /\ (Has(ev, Reports) => q # <<>>)

\* The host knows of the attempt of the controller, or is about to be told.
PursuitOk(h, q, initiating, ev) ==
  /\ ~(initiating # None /\ Has(ev, Completions))
  /\ initiating # None \/ Has(ev, Completions)
       <=> h.createConnectionIsOutstanding \/ CreateGranted(q, ev)
  /\ CreateGranted(q, ev) => Before(ev, Reports, Completions)

InStep(h, q, initiating, ev) ==
  h.crashed = "no" => Flow(h, q) /\ EventsOk(q, ev) /\ PursuitOk(h, q, initiating, ev)

ManagerTypes ==
  /\ Idle(host) /\ commands \in Seq(Command) /\ controller \in ControllerType
  /\ events \in Seq(Event) /\ budget \in TypeOfBudget

CallsInv == ManagerTypes /\ InStep(host, commands, controller.initiating, events)

LEMMA OutLeft ==
  ASSUME NEW g, NEW rest \in Seq(Command), Post(g, rest)
  PROVE  LET h == [g EXCEPT !.out = <<>>]
             q == rest \o g.out
         IN /\ Idle(h) /\ q \in Seq(Command) /\ h.crashed = g.crashed
            /\ SameCalls(h, g) /\ SameScan(h, g) /\ SameLists(h, g) /\ SameFlags(h, g)
            /\ h.scannerCommandInProgress = g.scannerCommandInProgress
            /\ h.crashed = "no" => Flow(h, q)
            /\ rest # <<>> => q # <<>> /\ Head(q) = Head(rest)
<1> DEFINE h == [g EXCEPT !.out = <<>>]
           q == rest \o g.out
<1>1. /\ g \in Host /\ OwnUpdates(g) /\ (g.out = <<>> \/ \E c \in Command : g.out = <<c>>)
      /\ g.crashed = "no" => Flow(g, q)
  BY DEF Post
<1>2. q \in Seq(Command) /\ (rest # <<>> => q # <<>> /\ Head(q) = Head(rest))
  <2>1. CASE g.out = <<>>
    BY <2>1, ConcatSent
  <2>2. ASSUME NEW c \in Command, g.out = <<c>>
        PROVE  q \in Seq(Command) /\ (rest # <<>> => q # <<>> /\ Head(q) = Head(rest))
    <3>1. q = Append(rest, c)
      BY <2>2, ConcatSent
    <3> HIDE DEF q
    <3>2. QED
      BY <3>1, AppendFacts, AppendHead
  <2>3. QED
    BY <1>1, <2>1, <2>2
<1> HIDE DEF q
<1>3. <<>> \in Seq(Command)
  OBVIOUS
<1>4. h \in Host /\ h.out = <<>> /\ h.update = g.update
  BY <1>1, <1>3 DEF Host
<1>5. OwnUpdates(h)
  BY <1>1, <1>4 DEF OwnUpdates
<1>6. /\ SameCalls(h, g) /\ SameScan(h, g) /\ SameLists(h, g) /\ SameFlags(h, g)
      /\ h.scannerCommandInProgress = g.scannerCommandInProgress
  BY <1>1 DEF Host, SameCalls, SameScan, SameLists, SameFlags
<1> HIDE DEF h
<1>7. ASSUME h.crashed = "no"
      PROVE  Flow(h, q)
  <2>1. Flow(g, q)
    BY <1>1, <1>6, <1>7 DEF SameFlags
  <2>2. CallsOk(h)
    BY <1>6, <2>1, CallsOkKept DEF Flow, SameFlags
  <2>3. QueueOk(h, q)
    BY <1>6, <2>1 DEF Flow, QueueOk, SameFlags, SameCalls, SameScan
  <2>4. QED
    BY <2>2, <2>3 DEF Flow
<1>8. QED
  BY <1>2, <1>4, <1>5, <1>6, <1>7 DEF Idle, SameFlags, h, q

\* A step of the host that takes no event.
LEMMA CallKeeps ==
  ASSUME NEW h, NEW q \in Seq(Command), NEW initiating, NEW ev, h.crashed = "no",
         InStep(h, q, initiating, ev), NEW g, Post(g, q),
         g.crashed = "no" => g.createConnectionIsOutstanding = h.createConnectionIsOutstanding
  PROVE  InStep([g EXCEPT !.out = <<>>], q \o g.out, initiating, ev)
<1> DEFINE k == [g EXCEPT !.out = <<>>]
           r == q \o g.out
<1>1. /\ k.crashed = g.crashed /\ SameCalls(k, g) /\ r \in Seq(Command)
      /\ k.crashed = "no" => Flow(k, r)
      /\ q # <<>> => r # <<>> /\ Head(r) = Head(q)
  BY OutLeft
<1> HIDE DEF k, r
<1>2. EventsOk(q, ev) /\ PursuitOk(h, q, initiating, ev)
  BY DEF InStep
<1>3. EventsOk(r, ev)
  BY <1>1, <1>2 DEF EventsOk
<1>4. CreateGranted(r, ev) <=> CreateGranted(q, ev)
  <2>1. Has(ev, Grants) => Has(ev, Reports)
    BY DEF Has, Grants
  <2>2. QED
    BY <1>1, <1>2, <2>1 DEF CreateGranted, EventsOk
<1>5. ASSUME k.crashed = "no"
      PROVE  PursuitOk(k, r, initiating, ev)
  BY <1>1, <1>2, <1>4, <1>5 DEF PursuitOk, SameCalls
<1>6. QED
  BY <1>1, <1>3, <1>5 DEF InStep, k, r

\* What is left of a queue of events when its head is taken.
LEMMA EventTaken ==
  ASSUME NEW ev \in Seq(Event), ev # <<>>, NEW q, EventsOk(q, ev)
  PROVE  /\ Head(ev) \in Event /\ Tail(ev) \in Seq(Event)
         /\ One(Tail(ev), Reports) /\ One(Tail(ev), Completions)
         /\ Has(Tail(ev), Reports) => Has(ev, Reports)
         /\ Head(ev) \in Reports => ~Has(Tail(ev), Reports)
         /\ Has(ev, Completions) <=> Head(ev) \in Completions \/ Has(Tail(ev), Completions)
         /\ Head(ev) \in Completions => ~Has(Tail(ev), Completions)
         /\ Has(ev, Grants) <=> Head(ev) \in Grants \/ Has(Tail(ev), Grants)
         /\ Has(Tail(ev), Grants) => Has(Tail(ev), Reports)
         /\ Before(ev, Reports, Completions) =>
              /\ Before(Tail(ev), Reports, Completions)
              /\ Head(ev) \in Completions => ~Has(ev, Reports)
<1>1. Head(ev) \in Event /\ Tail(ev) \in Seq(Event)
  BY TailFacts
<1>2. /\ One(ev, Reports) => One(Tail(ev), Reports)
      /\ One(ev, Reports) /\ Head(ev) \in Reports => ~Has(Tail(ev), Reports)
      /\ Has(ev, Reports) <=> Head(ev) \in Reports \/ Has(Tail(ev), Reports)
  BY TailHas
<1>3. /\ One(ev, Completions) => One(Tail(ev), Completions)
      /\ One(ev, Completions) /\ Head(ev) \in Completions => ~Has(Tail(ev), Completions)
      /\ Has(ev, Completions) <=> Head(ev) \in Completions \/ Has(Tail(ev), Completions)
  BY TailHas
<1>4. Has(ev, Grants) <=> Head(ev) \in Grants \/ Has(Tail(ev), Grants)
  BY TailHas
<1>5. Has(Tail(ev), Grants) => Has(Tail(ev), Reports)
  BY DEF Has, Grants
<1>6. Before(ev, Reports, Completions) =>
        /\ Before(Tail(ev), Reports, Completions)
        /\ Head(ev) \in Completions => ~Has(ev, Reports)
  BY TailBefore
<1>7. QED
  BY <1>1, <1>2, <1>3, <1>4, <1>5, <1>6 DEF EventsOk

\* The answer to the first command is taken with it.
LEMMA AnswerTaken ==
  ASSUME NEW h, NEW q \in Seq(Command), q # <<>>, NEW initiating, NEW ev \in Seq(Event),
         h.crashed = "no", InStep(h, q, initiating, ev), ev # <<>>, Head(ev) \in Reports,
         NEW g, Post(g, Tail(q)),
         g.crashed = "no" =>
           IF Head(q) \in CreateOps THEN g.createConnectionIsOutstanding = Head(ev).ok
           ELSE g.createConnectionIsOutstanding = h.createConnectionIsOutstanding
  PROVE  InStep([g EXCEPT !.out = <<>>], Tail(q) \o g.out, initiating, Tail(ev))
<1> DEFINE k == [g EXCEPT !.out = <<>>]
           r == Tail(q) \o g.out
<1>0. Tail(q) \in Seq(Command)
  BY TailFacts
<1>1. /\ k.crashed = g.crashed /\ SameCalls(k, g) /\ r \in Seq(Command)
      /\ k.crashed = "no" => Flow(k, r)
  BY <1>0, OutLeft
<1> HIDE DEF k, r
<1>2. Flow(h, q) /\ EventsOk(q, ev) /\ PursuitOk(h, q, initiating, ev)
  BY DEF InStep
<1>3. /\ One(Tail(ev), Reports) /\ One(Tail(ev), Completions) /\ ~Has(Tail(ev), Reports)
      /\ Has(ev, Completions) <=> Has(Tail(ev), Completions)
      /\ Has(ev, Grants) <=> Head(ev).ok
      /\ ~Has(Tail(ev), Grants)
  <2>1. Head(ev) \notin Completions /\ (Head(ev) \in Grants <=> Head(ev).ok)
    BY DEF Reports, Completions, Grants
  <2>2. QED
    BY <1>2, <2>1, EventTaken
<1>4. EventsOk(r, Tail(ev))
  BY <1>3 DEF EventsOk
<1>5. ~CreateGranted(r, Tail(ev))
  BY <1>3 DEF CreateGranted
<1>6. CreateGranted(q, ev) <=> Head(q) \in CreateOps /\ Head(ev).ok
  BY <1>3 DEF CreateGranted
<1>7. Head(q) \in CreateOps => ~h.createConnectionIsOutstanding
  <2>1. ASSUME Head(q) \in CreateOps
        PROVE  h.connectCommandInProgress
    <3>1. Head(q) \in InitiatorOps
      BY <2>1 DEF CreateOps, InitiatorOps
    <3>2. Has(q, InitiatorOps)
      BY <3>1, TailHas
    <3>3. QED
      BY <1>2, <3>2 DEF Flow, QueueOk
  <2>2. QED
    BY <1>2, <2>1 DEF Flow, CallsOk
<1>8. ASSUME k.crashed = "no"
      PROVE  k.createConnectionIsOutstanding <=>
               h.createConnectionIsOutstanding \/ CreateGranted(q, ev)
  BY <1>1, <1>6, <1>7, <1>8 DEF SameCalls, Reports, Event
<1>9. ASSUME k.crashed = "no"
      PROVE  PursuitOk(k, r, initiating, Tail(ev))
  BY <1>2, <1>3, <1>5, <1>8, <1>9 DEF PursuitOk
<1>10. QED
  BY <1>1, <1>4, <1>9 DEF InStep, k, r

\* The end of an attempt is taken.
LEMMA CompletionTaken ==
  ASSUME NEW h, NEW q \in Seq(Command), NEW initiating, NEW ev \in Seq(Event),
         h.crashed = "no", InStep(h, q, initiating, ev), ev # <<>>, Head(ev) \in Completions
  PROVE  /\ h.createConnectionIsOutstanding /\ Flow(h, q)
         /\ \A g : Post(g, q) /\ (g.crashed = "no" => ~g.createConnectionIsOutstanding) =>
                     InStep([g EXCEPT !.out = <<>>], q \o g.out, initiating, Tail(ev))
<1>1. Flow(h, q) /\ EventsOk(q, ev) /\ PursuitOk(h, q, initiating, ev)
  BY DEF InStep
<1>2. /\ One(Tail(ev), Reports) /\ One(Tail(ev), Completions)
      /\ Has(Tail(ev), Reports) => Has(ev, Reports)
      /\ Has(ev, Completions) /\ ~Has(Tail(ev), Completions)
      /\ Has(ev, Grants) => Has(ev, Reports)
      /\ Has(Tail(ev), Grants) => Has(ev, Grants)
      /\ Before(ev, Reports, Completions) => ~Has(ev, Reports)
  <2>1. Has(ev, Grants) => Has(ev, Reports)
    BY DEF Has, Grants
  <2>2. QED
    BY <1>1, <2>1, EventTaken
<1>3. ~CreateGranted(q, ev)
  BY <1>1, <1>2 DEF PursuitOk, CreateGranted
<1>4. h.createConnectionIsOutstanding /\ initiating = None
  BY <1>1, <1>2, <1>3 DEF PursuitOk
<1>5. ASSUME NEW g, Post(g, q), g.crashed = "no" => ~g.createConnectionIsOutstanding
      PROVE  InStep([g EXCEPT !.out = <<>>], q \o g.out, initiating, Tail(ev))
  <2> DEFINE k == [g EXCEPT !.out = <<>>]
             r == q \o g.out
  <2>1. /\ k.crashed = g.crashed /\ SameCalls(k, g) /\ r \in Seq(Command)
        /\ k.crashed = "no" => Flow(k, r)
        /\ q # <<>> => r # <<>> /\ Head(r) = Head(q)
    BY <1>5, OutLeft
  <2> HIDE DEF k, r
  <2>2. EventsOk(r, Tail(ev))
    BY <1>1, <1>2, <2>1 DEF EventsOk
  <2>3. ~CreateGranted(r, Tail(ev))
    BY <1>1, <1>2, <1>3, <2>1 DEF CreateGranted, EventsOk
  <2>4. ASSUME k.crashed = "no"
        PROVE  PursuitOk(k, r, initiating, Tail(ev))
    BY <1>2, <1>4, <1>5, <2>1, <2>3, <2>4 DEF PursuitOk, SameCalls
  <2>5. QED
    BY <2>1, <2>2, <2>4 DEF InStep, k, r
<1>6. QED
  BY <1>1, <1>4, <1>5

\* An event that concerns no attempt is taken.
LEMMA OtherTaken ==
  ASSUME NEW h, NEW q \in Seq(Command), NEW initiating, NEW ev \in Seq(Event),
         h.crashed = "no", InStep(h, q, initiating, ev), ev # <<>>,
         Head(ev) \notin Completions, Head(ev) \notin Reports,
         NEW g, SameFlags(g, h), g.createConnectionIsOutstanding = h.createConnectionIsOutstanding,
         Flow(g, q)
  PROVE  InStep(g, q, initiating, Tail(ev))
<1>1. EventsOk(q, ev) /\ PursuitOk(h, q, initiating, ev)
  BY DEF InStep
<1>2. Head(ev) \notin Grants
  BY DEF Grants
<1>3. EventsOk(q, Tail(ev))
  BY <1>1, EventTaken DEF EventsOk
<1>4. CreateGranted(q, Tail(ev)) <=> CreateGranted(q, ev)
  BY <1>1, <1>2, EventTaken DEF CreateGranted
<1>5. PursuitOk(g, q, initiating, Tail(ev))
  BY <1>1, <1>4, EventTaken DEF PursuitOk
<1>6. QED
  BY <1>3, <1>5 DEF InStep

-----------------------------------------------------------------------------
(* The steps of the controller. *)

LEMMA ConcatEvents ==
  ASSUME NEW q \in Seq(Event)
  PROVE  /\ q \o <<>> = q
         /\ \A e \in Event : q \o <<e>> = Append(q, e)
<1>1. q \o <<>> = q
  BY ConcatProperties, EmptySeq
<1>2. ASSUME NEW e \in Event
      PROVE  q \o <<e>> = Append(q, e)
  BY AppendIsConcat
<1>3. QED
  BY <1>1, <1>2

LEMMA EventKinds ==
  /\ \A ok \in BOOLEAN : Answer(ok) \in Reports /\ Answer(ok) \notin Completions
                          /\ (Answer(ok) \in Grants <=> ok)
  /\ \A d \in Device \cup {None} :
       Complete(d) \in Completions /\ Complete(d) \notin Reports /\ Complete(d) \notin Grants
  /\ \A e \in Event : e.type = "gone" => e \notin Reports /\ e \notin Completions /\ e \notin Grants
  /\ Reports \subseteq Event /\ Completions \subseteq Event
  /\ \A e \in Reports : e \notin Completions
BY DEF Answer, Complete, Event, Reports, Completions, Grants

LEMMA UnansweredHasNone ==
  ASSUME Unanswered
  PROVE  commands # <<>> /\ ~Has(events, Reports) /\ ~Has(events, Grants)
BY DEF Unanswered, Has, Reports, Grants

\* An answer is added.
LEMMA AnswerAdded ==
  ASSUME NEW ev \in Seq(Event), NEW q, q # <<>>, EventsOk(q, ev), ~Has(ev, Reports), NEW ok \in BOOLEAN
  PROVE  LET e == Append(ev, Answer(ok))
         IN /\ e \in Seq(Event) /\ EventsOk(q, e)
            /\ Has(e, Completions) <=> Has(ev, Completions)
            /\ Has(e, Grants) <=> ok
            /\ ~Has(ev, Completions) => Before(e, Reports, Completions)
            /\ Before(Append(e, Complete(None)), Reports, Completions) \/ Has(ev, Completions)
<1> DEFINE a == Answer(ok)
           e == Append(ev, a)
<1>1. a \in Event /\ a \in Reports /\ a \notin Completions /\ (a \in Grants <=> ok)
  BY EventKinds
<1>2. ~Has(ev, Grants)
  BY DEF Has, Grants
<1> HIDE DEF a
<1>3. /\ e \in Seq(Event) /\ One(e, Reports) /\ One(e, Completions)
      /\ Has(e, Completions) <=> Has(ev, Completions)
      /\ Has(e, Grants) <=> ok
  BY <1>1, <1>2, AppendFacts, AppendOne, AppendHas DEF EventsOk
<1> HIDE DEF e
<1>4. EventsOk(q, e)
  BY <1>3 DEF EventsOk
<1>5. ~Has(ev, Completions) => Before(e, Reports, Completions)
  BY <1>3 DEF Before, Has
<1>6. ASSUME ~Has(ev, Completions)
      PROVE  Before(Append(e, Complete(None)), Reports, Completions)
  <2> DEFINE c == Complete(None)
  <2>1. c \in Event /\ c \notin Reports
    BY EventKinds
  <2> HIDE DEF c
  <2>2. Before(Append(e, c), Reports, Completions)
    BY <1>3, <1>5, <1>6, <2>1, AppendBefore
  <2>3. QED
    BY <2>2 DEF c
<1>7. QED
  BY <1>3, <1>4, <1>5, <1>6 DEF e, a

\* The end of the attempt is added.
LEMMA CompletionAdded ==
  ASSUME NEW ev \in Seq(Event), NEW q, EventsOk(q, ev), ~Has(ev, Completions),
         NEW d \in Device \cup {None}
  PROVE  LET e == Append(ev, Complete(d))
         IN /\ e \in Seq(Event) /\ EventsOk(q, e) /\ Has(e, Completions)
            /\ Has(e, Grants) <=> Has(ev, Grants)
            /\ Before(e, Reports, Completions)
<1> DEFINE c == Complete(d)
           e == Append(ev, c)
<1>1. c \in Event /\ c \notin Reports /\ c \in Completions /\ c \notin Grants
  BY EventKinds
<1> HIDE DEF c
<1>2. Before(ev, Reports, Completions)
  BY DEF Before, Has
<1>3. /\ e \in Seq(Event) /\ One(e, Reports) /\ One(e, Completions)
      /\ Has(e, Completions)
      /\ Has(e, Grants) <=> Has(ev, Grants)
      /\ Has(e, Reports) <=> Has(ev, Reports)
      /\ Before(e, Reports, Completions)
  BY <1>1, <1>2, AppendFacts, AppendOne, AppendHas, AppendBefore DEF EventsOk
<1> HIDE DEF e
<1>4. EventsOk(q, e)
  BY <1>3 DEF EventsOk
<1>5. QED
  BY <1>3, <1>4 DEF e, c

LEMMA ExecutedIs ==
  ASSUME controller \in ControllerType, NEW c \in Command
  PROVE  /\ Executed(c) \in ControllerType
         /\ c.op = "create" => Executed(c).initiating = c /\ c # None
         /\ c.op = "cancel" => Executed(c).initiating = None
         /\ c.op \notin {"create", "cancel"} => Executed(c).initiating = controller.initiating
<1> DEFINE x == Executed(c)
<1>1. CASE c.op = "clear"
  <2>1. x = [controller EXCEPT !.list = {}]
    BY <1>1 DEF Executed
  <2>2. QED
    BY <1>1, <2>1 DEF ControllerType
<1>2. CASE c.op = "add"
  <2>1. x = [controller EXCEPT !.list = @ \cup {c.device}]
    BY <1>2 DEF Executed
  <2>2. c.device \in Device
    BY <1>2 DEF Command, CreateCommand, ListCommandBy, ListBy
  <2>3. QED
    BY <1>2, <2>1, <2>2 DEF ControllerType
<1>3. CASE c.op = "remove"
  <2>1. x = [controller EXCEPT !.list = @ \ {c.device}]
    BY <1>3 DEF Executed
  <2>2. QED
    BY <1>3, <2>1 DEF ControllerType
<1>4. CASE c.op = "scanParameters"
  <2>1. x = [controller EXCEPT !.active = c.active, !.policy = c.policy]
    BY <1>4 DEF Executed
  <2>2. c.active \in BOOLEAN /\ c.policy \in BOOLEAN
    BY <1>4 DEF Command, CreateCommand, ListCommandBy, ListBy
  <2>3. QED
    BY <1>4, <2>1, <2>2 DEF ControllerType
<1>5. CASE c.op = "scanOn"
  <2>1. x = [controller EXCEPT !.scanning = TRUE, !.filterDuplicates = c.filterDuplicates]
    BY <1>5 DEF Executed
  <2>2. c.filterDuplicates \in BOOLEAN
    BY <1>5 DEF Command, CreateCommand, ListCommandBy, ListBy
  <2>3. QED
    BY <1>5, <2>1, <2>2 DEF ControllerType
<1>6. CASE c.op = "scanOff"
  <2>1. x = [controller EXCEPT !.scanning = FALSE]
    BY <1>6 DEF Executed
  <2>2. QED
    BY <1>6, <2>1 DEF ControllerType
<1>7. CASE c.op = "create"
  <2>1. x = [controller EXCEPT !.initiating = c]
    BY <1>7 DEF Executed
  <2>2. c \in CreateCommand /\ c # None
    <3>1. c \in CreateCommand
      BY <1>7 DEF Command, ListCommandBy, ListBy
    <3>2. QED
      BY <3>1, ManagerAssumption
  <2>3. QED
    BY <1>7, <2>1, <2>2 DEF ControllerType
<1>8. CASE c.op = "cancel"
  <2>1. x = [controller EXCEPT !.initiating = None]
    BY <1>8 DEF Executed
  <2>2. QED
    BY <1>8, <2>1 DEF ControllerType
<1>9. c.op \in {"clear", "add", "remove", "scanParameters", "scanOn", "scanOff", "create", "cancel"}
  BY DEF Command, CreateCommand, ListCommandBy, ListBy
<1>10. QED
  BY <1>1, <1>2, <1>3, <1>4, <1>5, <1>6, <1>7, <1>8, <1>9

\* The controller answers that it will not.
LEMMA RefusalKeeps ==
  ASSUME NEW h, NEW q, NEW initiating, NEW ev \in Seq(Event), q # <<>>, ~Has(ev, Reports),
         InStep(h, q, initiating, ev)
  PROVE  InStep(h, q, initiating, Append(ev, Answer(FALSE)))
<1> DEFINE e == Append(ev, Answer(FALSE))
<1> SUFFICES ASSUME h.crashed = "no"
             PROVE  Flow(h, q) /\ EventsOk(q, e) /\ PursuitOk(h, q, initiating, e)
  BY DEF InStep
<1>1. Flow(h, q) /\ EventsOk(q, ev) /\ PursuitOk(h, q, initiating, ev)
  BY DEF InStep
<1>2. /\ EventsOk(q, e) /\ (Has(e, Completions) <=> Has(ev, Completions)) /\ ~Has(e, Grants)
  BY <1>1, AnswerAdded
<1>3. ~CreateGranted(q, ev)
  BY DEF CreateGranted, Has, Grants
<1>4. ~CreateGranted(q, e)
  BY <1>2 DEF CreateGranted
<1>5. QED
  BY <1>1, <1>2, <1>3, <1>4 DEF PursuitOk

\* The controller answers that it has done the first command.
LEMMA GrantKeeps ==
  ASSUME NEW h, NEW q \in Seq(Command), NEW initiating, NEW ev \in Seq(Event), q # <<>>,
         ~Has(ev, Reports), InStep(h, q, initiating, ev),
         Head(q).op = "cancel" => initiating # None, NEW new,
         Head(q).op = "create" => new # None,
         Head(q).op = "cancel" => new = None,
         Head(q).op \notin {"create", "cancel"} => new = initiating
  PROVE  LET granted == Append(ev, Answer(TRUE))
             e == IF Head(q).op = "cancel" THEN Append(granted, Complete(None)) ELSE granted
         IN InStep(h, q, new, e)
<1> DEFINE granted == Append(ev, Answer(TRUE))
           both == Append(granted, Complete(None))
           e == IF Head(q).op = "cancel" THEN both ELSE granted
<1> SUFFICES ASSUME h.crashed = "no"
             PROVE  Flow(h, q) /\ EventsOk(q, e) /\ PursuitOk(h, q, new, e)
  BY DEF InStep
<1>1. Flow(h, q) /\ EventsOk(q, ev) /\ PursuitOk(h, q, initiating, ev)
  BY DEF InStep
<1>2. ~CreateGranted(q, ev)
  BY DEF CreateGranted, Has, Grants
<1>3. /\ granted \in Seq(Event) /\ EventsOk(q, granted) /\ Has(granted, Grants)
      /\ Has(granted, Completions) <=> Has(ev, Completions)
      /\ ~Has(ev, Completions) => Before(granted, Reports, Completions)
  BY <1>1, AnswerAdded
<1>4. CreateGranted(q, granted) <=> Head(q).op = "create"
  BY <1>3, TailFacts DEF CreateGranted, CreateOps
<1> HIDE DEF granted, both
<1>5. CASE Head(q).op = "create"
  <2>1. Head(q) \in InitiatorOps
    BY <1>5, TailFacts DEF InitiatorOps
  <2>2. h.connectCommandInProgress
    BY <1>1, <2>1, TailHas DEF Flow, QueueOk
  <2>3. ~h.createConnectionIsOutstanding
    BY <1>1, <2>2 DEF Flow, CallsOk
  <2>4. ~Has(ev, Completions)
    BY <1>1, <1>2, <2>3 DEF PursuitOk
  <2>5. PursuitOk(h, q, new, granted)
    BY <1>3, <1>4, <1>5, <2>4 DEF PursuitOk
  <2>6. QED
    BY <1>1, <1>3, <1>5, <2>5
<1>6. CASE Head(q).op = "cancel"
  <2>1. ~Has(ev, Completions)
    BY <1>1, <1>6 DEF PursuitOk
  <2>2. /\ EventsOk(q, both) /\ Has(both, Completions)
    BY <1>3, <2>1, CompletionAdded DEF both
  <2>3. ~CreateGranted(q, both)
    BY <1>6 DEF CreateGranted, CreateOps
  <2>4. h.createConnectionIsOutstanding
    BY <1>1, <1>2, <1>6 DEF PursuitOk
  <2>5. PursuitOk(h, q, new, both)
    BY <1>6, <2>2, <2>3, <2>4 DEF PursuitOk
  <2>6. QED
    BY <1>1, <1>6, <2>2, <2>5
<1>7. CASE Head(q).op \notin {"create", "cancel"}
  <2>1. PursuitOk(h, q, new, granted)
    BY <1>1, <1>2, <1>3, <1>4, <1>7 DEF PursuitOk
  <2>2. QED
    BY <1>1, <1>3, <1>7, <2>1
<1>8. QED
  BY <1>5, <1>6, <1>7

\* The controller connects to a device.
LEMMA ConnectionKeeps ==
  ASSUME NEW h, NEW q, NEW initiating, NEW ev \in Seq(Event), initiating # None,
         InStep(h, q, initiating, ev), NEW d \in Device
  PROVE  InStep(h, q, None, Append(ev, Complete(d)))
<1> DEFINE e == Append(ev, Complete(d))
<1> SUFFICES ASSUME h.crashed = "no"
             PROVE  Flow(h, q) /\ EventsOk(q, e) /\ PursuitOk(h, q, None, e)
  BY DEF InStep
<1>1. Flow(h, q) /\ EventsOk(q, ev) /\ PursuitOk(h, q, initiating, ev)
  BY DEF InStep
<1>2. ~Has(ev, Completions)
  BY <1>1 DEF PursuitOk
<1>3. /\ EventsOk(q, e) /\ Has(e, Completions) /\ (Has(e, Grants) <=> Has(ev, Grants))
      /\ Before(e, Reports, Completions)
  BY <1>1, <1>2, CompletionAdded
<1>4. CreateGranted(q, e) <=> CreateGranted(q, ev)
  BY <1>3 DEF CreateGranted
<1>5. QED
  BY <1>1, <1>3, <1>4 DEF PursuitOk

\* A link is lost.
LEMMA LossKeeps ==
  ASSUME NEW h, NEW q, NEW initiating, NEW ev \in Seq(Event), InStep(h, q, initiating, ev),
         NEW e \in Event, e.type = "gone"
  PROVE  InStep(h, q, initiating, Append(ev, e))
<1>1. e \notin Reports /\ e \notin Completions /\ e \notin Grants
  BY EventKinds
<1> DEFINE f == Append(ev, e)
<1>2. /\ f \in Seq(Event) /\ (One(ev, Reports) => One(f, Reports))
      /\ One(ev, Completions) => One(f, Completions)
      /\ Has(f, Completions) <=> Has(ev, Completions)
      /\ Has(f, Reports) <=> Has(ev, Reports)
      /\ Has(f, Grants) <=> Has(ev, Grants)
      /\ Before(ev, Reports, Completions) => Before(f, Reports, Completions)
  BY <1>1, AppendFacts, AppendOne, AppendHas, AppendBefore
<1> HIDE DEF f
<1>3. CreateGranted(q, f) <=> CreateGranted(q, ev)
  BY <1>2 DEF CreateGranted
<1>4. QED
  BY <1>2, <1>3 DEF InStep, EventsOk, PursuitOk, f

-----------------------------------------------------------------------------
(* Every step keeps the invariant, and what has come of a call. *)

LEMMA ExecuteStep ==
  ASSUME CallsInv, Execute
  PROVE  CallsInv'
<1>1. /\ ManagerTypes /\ commands # <<>> /\ ~Has(events, Reports)
      /\ InStep(host, commands, controller.initiating, events)
      /\ Head(commands) \in Command /\ commands \in Seq(Command) /\ events \in Seq(Event)
      /\ controller \in ControllerType
  BY UnansweredHasNone, TailFacts DEF Execute, CallsInv, ManagerTypes
<1>2. CASE Refuses(Head(commands))
  <2>1. /\ events' = Append(events, Answer(FALSE)) /\ controller' = controller
        /\ UNCHANGED <<host, commands, budget>>
    BY <1>2 DEF Execute
  <2>2. Append(events, Answer(FALSE)) \in Seq(Event)
    BY <1>1, EventKinds, AppendFacts
  <2>3. InStep(host, commands, controller.initiating, Append(events, Answer(FALSE)))
    BY <1>1, RefusalKeeps
  <2>4. QED
    BY <1>1, <2>1, <2>2, <2>3 DEF CallsInv, ManagerTypes
<1>3. CASE ~Refuses(Head(commands))
  <2> DEFINE c == Head(commands)
             granted == Append(events, Answer(TRUE))
             e == IF c.op = "cancel" THEN Append(granted, Complete(None)) ELSE granted
  <2>1. /\ controller' = Executed(c)
        /\ events' = events \o <<Answer(TRUE)>>
                       \o (IF c.op = "cancel" THEN <<Complete(None)>> ELSE <<>>)
        /\ UNCHANGED <<host, commands, budget>>
    BY <1>3 DEF Execute
  <2>2. Answer(TRUE) \in Event /\ Complete(None) \in Event
    BY EventKinds
  <2>3. granted \in Seq(Event) /\ events \o <<Answer(TRUE)>> = granted
    BY <1>1, <2>2, ConcatEvents, AppendFacts
  <2> HIDE DEF granted
  <2>4. events' = e /\ e \in Seq(Event)
    BY <2>1, <2>2, <2>3, ConcatEvents, AppendFacts
  <2>5. /\ Executed(c) \in ControllerType
        /\ c.op = "create" => Executed(c).initiating # None
        /\ c.op = "cancel" => Executed(c).initiating = None
        /\ c.op \notin {"create", "cancel"} => Executed(c).initiating = controller.initiating
    BY <1>1, ExecutedIs, ManagerAssumption
  <2>6. c.op = "cancel" => controller.initiating # None
    BY <1>3 DEF Refuses
  <2>7. InStep(host, commands, Executed(c).initiating, e)
    BY <1>1, <2>5, <2>6, GrantKeeps DEF granted
  <2>8. QED
    BY <1>1, <2>1, <2>4, <2>5, <2>7 DEF CallsInv, ManagerTypes
<1>4. QED
  BY <1>2, <1>3

LEMMA BudgetSpent ==
  ASSUME NEW b \in TypeOfBudget
  PROVE  /\ b.scans > 0 => [b EXCEPT !.scans = @ - 1] \in TypeOfBudget
         /\ b.connects > 0 => [b EXCEPT !.connects = @ - 1] \in TypeOfBudget
         /\ b.drops > 0 => [b EXCEPT !.drops = @ - 1] \in TypeOfBudget
         /\ b.rejects > 0 => [b EXCEPT !.rejects = @ - 1] \in TypeOfBudget
<1>1. \A n \in Nat : n > 0 => n - 1 \in Nat
  OBVIOUS
<1>2. b.scans \in Nat /\ b.connects \in Nat /\ b.drops \in Nat /\ b.rejects \in Nat
  BY DEF TypeOfBudget
<1>3. b.scans > 0 => [b EXCEPT !.scans = @ - 1] \in TypeOfBudget
  <2> DEFINE n == b.scans - 1
  <2>1. b.scans > 0 => n \in Nat
    BY <1>1, <1>2
  <2> HIDE DEF n
  <2>2. n \in Nat => [b EXCEPT !.scans = n] \in TypeOfBudget
    BY DEF TypeOfBudget
  <2>3. QED
    BY <2>1, <2>2 DEF n
<1>4. b.connects > 0 => [b EXCEPT !.connects = @ - 1] \in TypeOfBudget
  <2> DEFINE n == b.connects - 1
  <2>1. b.connects > 0 => n \in Nat
    BY <1>1, <1>2
  <2> HIDE DEF n
  <2>2. n \in Nat => [b EXCEPT !.connects = n] \in TypeOfBudget
    BY DEF TypeOfBudget
  <2>3. QED
    BY <2>1, <2>2 DEF n
<1>5. b.drops > 0 => [b EXCEPT !.drops = @ - 1] \in TypeOfBudget
  <2> DEFINE n == b.drops - 1
  <2>1. b.drops > 0 => n \in Nat
    BY <1>1, <1>2
  <2> HIDE DEF n
  <2>2. n \in Nat => [b EXCEPT !.drops = n] \in TypeOfBudget
    BY DEF TypeOfBudget
  <2>3. QED
    BY <2>1, <2>2 DEF n
<1>6. b.rejects > 0 => [b EXCEPT !.rejects = @ - 1] \in TypeOfBudget
  <2> DEFINE n == b.rejects - 1
  <2>1. b.rejects > 0 => n \in Nat
    BY <1>1, <1>2
  <2> HIDE DEF n
  <2>2. n \in Nat => [b EXCEPT !.rejects = n] \in TypeOfBudget
    BY DEF TypeOfBudget
  <2>3. QED
    BY <2>1, <2>2 DEF n
<1>7. QED
  BY <1>3, <1>4, <1>5, <1>6

LEMMA RejectStep ==
  ASSUME CallsInv, Reject
  PROVE  CallsInv'
<1>1. /\ ManagerTypes /\ commands # <<>> /\ ~Has(events, Reports) /\ events \in Seq(Event)
      /\ InStep(host, commands, controller.initiating, events)
  BY UnansweredHasNone DEF Reject, CallsInv, ManagerTypes
<1>2. budget' \in TypeOfBudget
  BY <1>1, BudgetSpent DEF Reject, ManagerTypes
<1>3. Append(events, Answer(FALSE)) \in Seq(Event)
  BY <1>1, EventKinds, AppendFacts
<1>4. InStep(host, commands, controller.initiating, Append(events, Answer(FALSE)))
  BY <1>1, RefusalKeeps
<1>5. QED
  BY <1>1, <1>2, <1>3, <1>4 DEF Reject, CallsInv, ManagerTypes

LEMMA EstablishStep ==
  ASSUME CallsInv, NEW d \in Device, Establish(d)
  PROVE  CallsInv'
<1>1. /\ ManagerTypes /\ events \in Seq(Event) /\ controller.initiating # None
      /\ InStep(host, commands, controller.initiating, events) /\ controller \in ControllerType
  BY DEF Establish, Targets, CallsInv, ManagerTypes
<1>2. controller' \in ControllerType /\ controller'.initiating = None
  BY <1>1 DEF Establish, ControllerType
<1>3. Append(events, Complete(d)) \in Seq(Event)
  BY <1>1, EventKinds, AppendFacts
<1>4. InStep(host, commands, None, Append(events, Complete(d)))
  BY <1>1, ConnectionKeeps
<1>5. QED
  BY <1>1, <1>2, <1>3, <1>4 DEF Establish, CallsInv, ManagerTypes

LEMMA DropStep ==
  ASSUME CallsInv, NEW d \in Device, Drop(d)
  PROVE  CallsInv'
<1> DEFINE e == [type |-> "gone", device |-> d]
<1>1. /\ ManagerTypes /\ events \in Seq(Event) /\ controller \in ControllerType
      /\ InStep(host, commands, controller.initiating, events)
  BY DEF CallsInv, ManagerTypes
<1>2. controller' \in ControllerType /\ controller'.initiating = controller.initiating
  BY <1>1 DEF Drop, ControllerType
<1>3. budget' \in TypeOfBudget
  BY <1>1, BudgetSpent DEF Drop, ManagerTypes
<1>4. e \in Event /\ e.type = "gone"
  BY DEF Event
<1>5. events' = Append(events, e) /\ UNCHANGED <<host, commands>>
  BY DEF Drop
<1> HIDE DEF e
<1>6. Append(events, e) \in Seq(Event) /\ InStep(host, commands, controller.initiating, Append(events, e))
  BY <1>1, <1>4, AppendFacts, LossKeeps
<1>7. QED
  BY <1>1, <1>2, <1>3, <1>5, <1>6 DEF CallsInv, ManagerTypes

\* What the first command is for is told by its operation.
LEMMA FirstCommand ==
  ASSUME NEW c \in Command
  PROVE  /\ c.op \in {"scanOff", "scanOn", "scanParameters", "create", "cancel"} \/ c.op \in ListOp
         /\ c.op = "create" <=> c \in CreateOps
         /\ c.op = "cancel" <=> c \in CancelOps
BY DEF Command, CreateCommand, ListCommandBy, ListBy, ListOp, CreateOps, CancelOps

LEMMA NothingSent ==
  ASSUME NEW h, Idle(h), NEW q, Flow(h, q)
  PROVE  Post(h, q)
<1>1. q \o h.out = q
  BY ConcatSent DEF Idle, Flow, QueueOk
<1>2. QED
  BY <1>1 DEF Post, Idle

LEMMA AnswerFlow ==
  ASSUME NEW h, Idle(h), h.crashed = "no", NEW q, Flow(h, q), q # <<>>, NEW ok \in BOOLEAN
  PROVE  LET c == Head(q)
             g == CASE c.op \in {"scanOff", "scanOn", "scanParameters"} -> ScanAnswer(h, c, ok)
                    [] c.op = "create" -> CreateAnswer(h, c, ok)
                    [] c.op = "cancel" -> h
                    [] OTHER -> ListAnswer(h, c, ok)
         IN /\ Post(g, Tail(q)) /\ OutcomesKept(g, h)
            /\ g.crashed = "no" =>
                 IF c \in CreateOps THEN g.createConnectionIsOutstanding = ok
                 ELSE g.createConnectionIsOutstanding = h.createConnectionIsOutstanding
<1> DEFINE c == Head(q)
           g == CASE c.op \in {"scanOff", "scanOn", "scanParameters"} -> ScanAnswer(h, c, ok)
                  [] c.op = "create" -> CreateAnswer(h, c, ok)
                  [] c.op = "cancel" -> h
                  [] OTHER -> ListAnswer(h, c, ok)
<1>1. c \in Command /\ QueueOk(h, q) /\ CallsOk(h)
  BY TailFacts DEF Flow, QueueOk
<1>2. /\ c.op \in {"scanOff", "scanOn", "scanParameters", "create", "cancel"} \/ c.op \in ListOp
      /\ c.op = "create" <=> c \in CreateOps
      /\ c.op = "cancel" <=> c \in CancelOps
  BY <1>1, FirstCommand
<1>3. CASE c.op \in {"scanOff", "scanOn", "scanParameters"}
  <2>1. g = ScanAnswer(h, c, ok)
    BY <1>3
  <2>2. Post(ScanAnswer(h, c, ok), Tail(q)) /\ SameCalls(ScanAnswer(h, c, ok), h)
    BY <1>3, ScanAnswerFlow
  <2>3. QED
    BY <1>2, <1>3, <2>1, <2>2 DEF SameCalls, OutcomesKept
<1>4. CASE c.op = "create"
  <2>1. g = CreateAnswer(h, c, ok)
    BY <1>4
  <2>2. QED
    BY <1>2, <1>4, <2>1, CreateAnswerFlow
<1>5. CASE c.op = "cancel"
  <2>1. g = h
    BY <1>5
  <2>2. Flow(h, Tail(q))
    BY <1>1, <1>2, <1>5, PopCancel DEF Flow
  <2>3. QED
    BY <1>2, <1>5, <2>1, <2>2, NothingSent DEF OutcomesKept
<1>6. CASE c.op \in ListOp
  <2>1. g = ListAnswer(h, c, ok)
    BY <1>6 DEF ListOp
  <2>2. Post(ListAnswer(h, c, ok), Tail(q)) /\ SameCalls(ListAnswer(h, c, ok), h)
    BY <1>6, ListAnswerFlow
  <2>3. c.op # "create"
    BY <1>6 DEF ListOp
  <2>4. QED
    BY <1>2, <2>1, <2>2, <2>3 DEF SameCalls, OutcomesKept
<1>7. QED
  BY <1>2, <1>3, <1>4, <1>5, <1>6

LEMMA HandleAnswerStep ==
  ASSUME CallsInv, HandleAnswer
  PROVE  CallsInv' /\ OutcomesKept(host', host)
<1>1. /\ ManagerTypes /\ events \in Seq(Event) /\ events # <<>> /\ host.crashed = "no"
      /\ InStep(host, commands, controller.initiating, events) /\ Idle(host)
      /\ commands \in Seq(Command) /\ Head(events).type = "answer"
      /\ Flow(host, commands) /\ EventsOk(commands, events)
  BY DEF HandleAnswer, CallsInv, ManagerTypes, InStep
<1>2. Head(events) \in Reports /\ Head(events).ok \in BOOLEAN
  <2>1. Head(events) \in Event
    BY <1>1, TailFacts
  <2>2. QED
    BY <1>1, <2>1 DEF Reports, Event
<1>3. commands # <<>>
  <2>1. Has(events, Reports)
    BY <1>1, <1>2, TailHas
  <2>2. QED
    BY <1>1, <2>1 DEF EventsOk
<1> DEFINE c == Head(commands)
           ok == Head(events).ok
           g == CASE c.op \in {"scanOff", "scanOn", "scanParameters"} -> ScanAnswer(host, c, ok)
                  [] c.op = "create" -> CreateAnswer(host, c, ok)
                  [] c.op = "cancel" -> host
                  [] OTHER -> ListAnswer(host, c, ok)
<1>4. /\ host' = [g EXCEPT !.out = <<>>] /\ commands' = Tail(commands) \o g.out
      /\ events' = Tail(events) /\ UNCHANGED <<controller, budget>>
  BY DEF HandleAnswer, Returns
<1>5. /\ Post(g, Tail(commands)) /\ OutcomesKept(g, host)
      /\ g.crashed = "no" =>
           IF c \in CreateOps THEN g.createConnectionIsOutstanding = ok
           ELSE g.createConnectionIsOutstanding = host.createConnectionIsOutstanding
  BY <1>1, <1>2, <1>3, AnswerFlow
<1> HIDE DEF g
<1>6. Tail(commands) \in Seq(Command) /\ Tail(events) \in Seq(Event)
  BY <1>1, <1>3, TailFacts
<1>7. Idle(host') /\ commands' \in Seq(Command) /\ SameCalls(host', g)
  BY <1>4, <1>5, <1>6, OutLeft
<1>8. InStep(host', commands', controller.initiating, Tail(events))
  BY <1>1, <1>2, <1>3, <1>4, <1>5, AnswerTaken
<1>9. OutcomesKept(host', host)
  BY <1>5, <1>7 DEF OutcomesKept, SameCalls
<1>10. QED
  BY <1>1, <1>4, <1>6, <1>7, <1>8, <1>9 DEF CallsInv, ManagerTypes

LEMMA HandleCompleteStep ==
  ASSUME CallsInv, HandleComplete
  PROVE  CallsInv' /\ OutcomesKept(host', host)
<1>1. /\ ManagerTypes /\ events \in Seq(Event) /\ events # <<>> /\ host.crashed = "no"
      /\ InStep(host, commands, controller.initiating, events) /\ Idle(host)
      /\ commands \in Seq(Command) /\ Head(events).type = "complete"
  BY DEF HandleComplete, CallsInv, ManagerTypes
<1>2. Head(events) \in Completions /\ Head(events).device \in Device \cup {None}
  <2>1. Head(events) \in Event
    BY <1>1, TailFacts
  <2>2. QED
    BY <1>1, <2>1 DEF Completions, Event
<1> DEFINE g == ConnectionComplete(host, Head(events).device)
<1>3. /\ host' = [g EXCEPT !.out = <<>>] /\ commands' = commands \o g.out
      /\ events' = Tail(events) /\ UNCHANGED <<controller, budget>>
  BY DEF HandleComplete, Returns
<1>4. host.createConnectionIsOutstanding /\ Flow(host, commands)
  BY <1>1, <1>2, CompletionTaken
<1>5. /\ Post(g, commands) /\ OutcomesKept(g, host)
      /\ g.crashed = "no" => ~g.createConnectionIsOutstanding
  BY <1>1, <1>2, <1>4, CompleteFlow
<1> HIDE DEF g
<1>6. Tail(events) \in Seq(Event)
  BY <1>1, TailFacts
<1>7. Idle(host') /\ commands' \in Seq(Command) /\ SameCalls(host', g)
  BY <1>1, <1>3, <1>5, OutLeft
<1>8. InStep(host', commands', controller.initiating, Tail(events))
  BY <1>1, <1>2, <1>3, <1>5, CompletionTaken
<1>9. OutcomesKept(host', host)
  BY <1>5, <1>7 DEF OutcomesKept, SameCalls
<1>10. QED
  BY <1>1, <1>3, <1>6, <1>7, <1>8, <1>9 DEF CallsInv, ManagerTypes

LEMMA HandleDisconnectStep ==
  ASSUME CallsInv, HandleDisconnect
  PROVE  CallsInv' /\ OutcomesKept(host', host)
<1>1. /\ ManagerTypes /\ events \in Seq(Event) /\ events # <<>> /\ host.crashed = "no"
      /\ InStep(host, commands, controller.initiating, events) /\ Idle(host) /\ host \in Host
      /\ Head(events).type = "gone" /\ Flow(host, commands)
  BY DEF HandleDisconnect, CallsInv, ManagerTypes, Idle, InStep
<1> DEFINE left == host.connections \ {Head(events).device}
<1>2. /\ host' = [host EXCEPT !.connections = left]
      /\ events' = Tail(events) /\ UNCHANGED <<commands, controller, budget>>
  BY <1>1 DEF HandleDisconnect, Host
<1>3. left \in SUBSET Device
  BY <1>1 DEF Host
<1> HIDE DEF left
<1>4. /\ host' \in Host /\ host'.out = <<>> /\ host'.update = host.update
      /\ SameScanner(host', host) /\ SameFlags(host', host) /\ SameCallFlags(host', host)
      /\ host'.attempt = host.attempt /\ host'.connecting = host.connecting
      /\ host'.pending = host.pending /\ host'.device = host.device
      /\ host'.outcome = host.outcome
  BY <1>1, <1>2, <1>3 DEF Idle, Host, SameScanner, SameScan, SameFlags, SameCallFlags
<1>5. Idle(host')
  BY <1>1, <1>4 DEF Idle, OwnUpdates
<1>6. Flow(host', commands)
  BY <1>1, <1>4 DEF Flow, CallsOk, QueueOk, SameScanner, SameScan, SameCallFlags
<1>7. Tail(events) \in Seq(Event) /\ Head(events) \in Event
  BY <1>1, TailFacts
<1>8. Head(events) \notin Reports /\ Head(events) \notin Completions
  BY <1>1, <1>7, EventKinds
<1>9. InStep(host', commands, controller.initiating, Tail(events))
  <2>1. host'.createConnectionIsOutstanding = host.createConnectionIsOutstanding
        /\ SameFlags(host', host) /\ commands \in Seq(Command)
    BY <1>1, <1>4 DEF SameCallFlags, Flow, QueueOk
  <2>2. QED
    BY <1>1, <1>6, <1>8, <2>1, OtherTaken
<1>10. QED
  BY <1>1, <1>2, <1>4, <1>5, <1>7, <1>9 DEF CallsInv, ManagerTypes, OutcomesKept

\* A call of the application that was made in a state that keeps the commands in step.
LEMMA CallStep ==
  ASSUME CallsInv, host.crashed = "no", NEW g, Post(g, commands), OutcomesKept(g, host),
         g.crashed = "no" => g.createConnectionIsOutstanding = host.createConnectionIsOutstanding,
         Returns(g, commands), UNCHANGED <<controller, events>>, budget' \in TypeOfBudget
  PROVE  CallsInv' /\ OutcomesKept(host', host)
<1>1. /\ host' = [g EXCEPT !.out = <<>>] /\ commands' = commands \o g.out
      /\ commands \in Seq(Command) /\ ManagerTypes
      /\ InStep(host, commands, controller.initiating, events)
  BY DEF Returns, CallsInv, ManagerTypes
<1>2. Idle(host') /\ commands' \in Seq(Command) /\ SameCalls(host', g)
  BY <1>1, OutLeft
<1>3. InStep(host', commands', controller.initiating, events)
  BY <1>1, CallKeeps
<1>4. QED
  BY <1>1, <1>2, <1>3 DEF CallsInv, ManagerTypes, OutcomesKept, SameCalls

LEMMA StartScanStep ==
  ASSUME CallsInv, NEW s \in Scan, NEW kind, StartScan(s, kind)
  PROVE  CallsInv' /\ OutcomesKept(host', host)
<1> DEFINE r == host.scanningNeedsRestart \/ host.currentScanFilterDuplicates
           g == TriggerScannerChange(WithScanner(host, s, kind, r))
<1>1. /\ Idle(host) /\ host.crashed = "no" /\ Flow(host, commands) /\ budget \in TypeOfBudget
      /\ budget.scans > 0 /\ kind \in budget.kinds /\ host \in Host
      /\ budget' = [budget EXCEPT !.scans = @ - 1] /\ UNCHANGED <<controller, events>>
  BY DEF StartScan, CallsInv, ManagerTypes, InStep, Idle
<1>2. kind \in Kind \cup {None} /\ r \in BOOLEAN
  BY <1>1 DEF TypeOfBudget, Host
<1>3. Returns(g, commands)
  <2>1. WithScanner(host, s, kind, r) =
          [host EXCEPT !.scanners[s] = kind,
                       !.scanningNeedsRestart = @ \/ host.currentScanFilterDuplicates]
    BY <1>1 DEF WithScanner, Host
  <2>2. QED
    BY <2>1 DEF StartScan
<1> HIDE DEF r
<1>4. Post(g, commands) /\ SameCalls(g, host)
  BY <1>1, <1>2, ScannersFlow
<1>5. budget' \in TypeOfBudget
  BY <1>1, BudgetSpent
<1> HIDE DEF g
<1>6. OutcomesKept(g, host) /\ g.createConnectionIsOutstanding = host.createConnectionIsOutstanding
  BY <1>4 DEF OutcomesKept, SameCalls
<1>7. QED
  BY <1>1, <1>3, <1>4, <1>5, <1>6, CallStep

LEMMA StopScanStep ==
  ASSUME CallsInv, NEW s \in Scan, StopScan(s)
  PROVE  CallsInv' /\ OutcomesKept(host', host)
<1> DEFINE r == host.scanningNeedsRestart
           g == TriggerScannerChange(WithScanner(host, s, None, r))
<1>1. /\ Idle(host) /\ host.crashed = "no" /\ Flow(host, commands) /\ budget \in TypeOfBudget
      /\ host \in Host /\ UNCHANGED <<controller, events, budget>>
  BY DEF StopScan, CallsInv, ManagerTypes, InStep, Idle
<1>2. r \in BOOLEAN
  BY <1>1 DEF Host
<1>3. Returns(g, commands)
  <2>1. WithScanner(host, s, None, r) = [host EXCEPT !.scanners[s] = None]
    BY <1>1 DEF WithScanner, Host
  <2>2. QED
    BY <2>1 DEF StopScan
<1> HIDE DEF r
<1>4. Post(g, commands) /\ SameCalls(g, host)
  BY <1>1, <1>2, ScannersFlow
<1> HIDE DEF g
<1>5. OutcomesKept(g, host) /\ g.createConnectionIsOutstanding = host.createConnectionIsOutstanding
  BY <1>4 DEF OutcomesKept, SameCalls
<1>6. QED
  BY <1>1, <1>3, <1>4, <1>5, CallStep

LEMMA DoConnectStep ==
  ASSUME CallsInv, NEW c \in Connect, NEW d \in Device, DoConnect(c, d)
  PROVE  CallsInv' /\ OutcomesKept(host', host)
<1> DEFINE g == TriggerConnectionChange(WithCall(host, c, d))
<1>1. /\ Idle(host) /\ host.crashed = "no" /\ Flow(host, commands) /\ budget \in TypeOfBudget
      /\ budget.connects > 0 /\ host.device[c] = None
      /\ budget' = [budget EXCEPT !.connects = @ - 1] /\ UNCHANGED <<controller, events>>
  BY DEF DoConnect, CallsInv, ManagerTypes, InStep
<1>2. Returns(g, commands)
  BY DEF DoConnect, WithCall
<1>3. /\ Post(g, commands) /\ OutcomesKept(g, host)
      /\ g.createConnectionIsOutstanding = host.createConnectionIsOutstanding
  BY <1>1, ConnectFlow
<1>4. budget' \in TypeOfBudget
  BY <1>1, BudgetSpent
<1> HIDE DEF g
<1>5. QED
  BY <1>1, <1>2, <1>3, <1>4, CallStep

LEMMA DoCancelStep ==
  ASSUME CallsInv, NEW c \in Connect, DoCancel(c)
  PROVE  CallsInv' /\ OutcomesKept(host', host)
<1> DEFINE g == CancelOf(host, c)
<1>1. /\ Idle(host) /\ host.crashed = "no" /\ Flow(host, commands) /\ budget \in TypeOfBudget
      /\ c \in host.pending /\ UNCHANGED <<controller, events, budget>>
  BY DEF DoCancel, CallsInv, ManagerTypes, InStep
<1>2. Returns(g, commands)
  BY DEF DoCancel
<1>3. /\ Post(g, commands) /\ OutcomesKept(g, host)
      /\ g.createConnectionIsOutstanding = host.createConnectionIsOutstanding
  BY <1>1, CancelFlow
<1> HIDE DEF g
<1>4. QED
  BY <1>1, <1>2, <1>3, CallStep

LEMMA CallsStep ==
  ASSUME CallsInv, Next
  PROVE  CallsInv' /\ OutcomesKept(host', host)
<1>1. host' = host => OutcomesKept(host', host)
  BY DEF OutcomesKept
<1>2. CASE Execute
  BY <1>1, <1>2, ExecuteStep DEF Execute
<1>3. CASE Reject
  BY <1>1, <1>3, RejectStep DEF Reject
<1>4. ASSUME NEW d \in Device, Establish(d)
      PROVE  CallsInv' /\ OutcomesKept(host', host)
  BY <1>1, <1>4, EstablishStep DEF Establish
<1>5. ASSUME NEW d \in Device, Drop(d)
      PROVE  CallsInv' /\ OutcomesKept(host', host)
  BY <1>1, <1>5, DropStep DEF Drop
<1>6. QED
  BY <1>2, <1>3, <1>4, <1>5, HandleAnswerStep, HandleCompleteStep, HandleDisconnectStep,
     StartScanStep, StopScanStep, DoConnectStep, DoCancelStep DEF Next

LEMMA HostInitIs == HostInit \in Host /\ OwnUpdates(HostInit) /\ HostInit.out = <<>>
<1> DEFINE up == [who \in {"scanner", "initiator"} |-> [ops |-> <<>>, newList |-> {}]]
           device == [c \in Connect |-> None]
           scanners == [s \in Scan |-> None]
           outcome == [c \in Connect |-> "none"]
<1>1. <<>> \in Seq(Command) /\ <<>> \in Seq(ListCommandBy) /\ \A who \in Who : <<>> \in Seq(ListBy(who))
  OBVIOUS
<1>2. up \in [Who -> Update] /\ \A who \in Who : up[who].ops = <<>>
  BY <1>1 DEF Update, Who
<1>3. /\ device \in [Connect -> Device \cup {None}] /\ scanners \in [Scan -> Kind \cup {None}]
      /\ outcome \in [Connect -> Outcome]
  BY DEF Outcome
<1>4. HostInit.update = up /\ HostInit.out = <<>>
  BY DEF HostInit
<1>5. /\ HostInit.device = device /\ HostInit.scanners = scanners /\ HostInit.outcome = outcome
  BY DEF HostInit
<1>6. HostInit \in Host
  BY <1>1, <1>2, <1>3 DEF HostInit, Host, Why, User
<1>7. OwnUpdates(HostInit)
  BY <1>1, <1>2, <1>4 DEF OwnUpdates
<1>8. QED
  BY <1>4, <1>6, <1>7

LEMMA CallsInit == Init => CallsInv
<1> SUFFICES ASSUME Init PROVE CallsInv
  OBVIOUS
<1>1. Idle(host)
  BY HostInitIs DEF Init, Idle
<1>2. ManagerTypes
  <2>1. controller \in ControllerType
    BY DEF Init, ControllerType
  <2>2. commands \in Seq(Command) /\ events \in Seq(Event) /\ budget \in TypeOfBudget
    BY ManagerAssumption DEF Init
  <2>3. QED
    BY <1>1, <2>1, <2>2 DEF ManagerTypes
<1>3. commands = <<>> /\ events = <<>> /\ controller.initiating = None
  BY DEF Init
<1>4. /\ ~host.connectCommandInProgress /\ ~host.cancelCommandInProgress
      /\ ~host.createConnectionIsOutstanding /\ ~host.stopScanCallback
      /\ ~host.scannerCommandInProgress /\ host.connecting = {} /\ host.pending = {}
      /\ \A c \in Connect : host.device[c] = None /\ host.outcome[c] = "none"
  BY DEF Init, HostInit
<1>5. \A S, T : ~Has(<<>>, S) /\ One(<<>>, S) /\ Before(<<>>, S, T)
  BY EmptyQueue
<1>6. CallsOk(host)
  BY <1>4 DEF CallsOk
<1>7. QueueOk(host, commands)
  BY <1>2, <1>3, <1>4, <1>5 DEF QueueOk, ManagerTypes
<1>8. EventsOk(commands, events)
  BY <1>3, <1>5 DEF EventsOk
<1>9. PursuitOk(host, commands, controller.initiating, events)
  BY <1>3, <1>4, <1>5 DEF PursuitOk, CreateGranted
<1>10. QED
  BY <1>2, <1>6, <1>7, <1>8, <1>9 DEF CallsInv, InStep, Flow

LEMMA CallsStutter ==
  ASSUME CallsInv, UNCHANGED vars
  PROVE  CallsInv'
BY DEF CallsInv, ManagerTypes, vars

\* The commands under way are those the flags of the manager tell of, one of each kind,
\* and the manager knows whether the controller is pursuing a connection.
THEOREM CallsInStep == Spec => []CallsInv
<1>1. CallsInv /\ [Next]_vars => CallsInv'
  BY CallsStep, CallsStutter
<1>2. QED
  BY CallsInit, <1>1, PTL DEF Spec

\* A connect ends once: what has come of it is never revised.
THEOREM CallsEndOnce == Spec => OutcomeIsFinal
<1>1. CallsInv /\ [Next]_vars =>
        [\A c \in Connect : host.outcome[c] # "none" => host'.outcome[c] = host.outcome[c]]_vars
  BY CallsStep DEF OutcomesKept
<1>2. QED
  BY CallsInStep, <1>1, PTL DEF Spec, OutcomeIsFinal
=============================================================================
