------------------------------ MODULE SmpPairing ------------------------------
(***************************************************************************)
(* The security manager of both ends of one link (src/lib/internal/smp.js: *)
(* SmpSlaveConnection and SmpMasterConnection), composed over the link:    *)
(* packets are first queued in the adapter (out), then on the air (wire),  *)
(* and the controllers run the encryption procedure between the two (enc). *)
(* Cryptography is symbolic: a random value is named after who drew it and *)
(* in which run, and a confirm, check value or key is the record of what   *)
(* it is computed from.  Key sizes, the OOB flag, keypress notifications   *)
(* and the lengths of packets are left out.                                *)
(***************************************************************************)
EXTENDS Naturals, Sequences, FiniteSets

CONSTANTS
  None,       \* no value
  Offers,     \* [Sides -> SUBSET Features]: what a user answers or asks for
  Defaults,   \* [Sides -> Features]: fixFeaturesFromUser(null)
  Rounds,     \* rounds of a passkey entry with Secure Connections (20)
  Passkeys,   \* the passkeys that are drawn or typed
  MayBeBonded,\* whether a bond of an earlier connection may be there at start
  SmpBudgets  \* bound: [calls |-> how often users call into the interface,
              \*         slow |-> whether a timer may expire while something is on its way]
ASSUME SmpAssumption ==
  /\ \A b \in SmpBudgets : b.calls \in Nat /\ b.slow \in BOOLEAN
  /\ None # "W4Packet"        \* where a state is expected

Master == "master"
Slave == "slave"
Sides == {Master, Slave}
Other(x) == IF x = Master THEN Slave ELSE Master
Zero == [zero |-> TRUE]        \* EDIV and Rand of a key of Secure Connections or of the pairing itself
OldKey == [old |-> TRUE]       \* the key of an earlier bond

\* Two names with one value, as in the source.
CancelledByLocal == "State9"
W4LastAck == "State9"

VARIABLES
  side,   \* the state of each security manager, and what it has queued in the adapter
  wire,   \* packets on the air from each side
  enc,    \* the encryption procedure: None or [ok, answer, told]
  up,     \* the link is up
  smpBudget \* what is left of the bound on calls
smpVars == <<side, wire, enc, up, smpBudget>>

AllKeys == {"initEnc", "initId", "rspEnc", "rspId"}
Features == [io: {"DisplayOnly", "DisplayYesNo", "KeyboardOnly", "NoInputNoOutput", "KeyboardDisplay"},
             mitm: BOOLEAN, sc: BOOLEAN, bond: BOOLEAN, dist: SUBSET AllKeys]
OldBond == [id |-> Zero, key |-> OldKey, mitm |-> FALSE, sc |-> TRUE]

New(x, bond) ==
  [role |-> x, state |-> "Idle", wait |-> None, run |-> 0, timer |-> FALSE,
   req |-> None, rsp |-> None, feat |-> None, model |-> None,
   passkey |-> None, bit |-> 0, myRand |-> None, peerRand |-> None,
   confirm |-> None, check |-> None, numericOk |-> FALSE, key |-> None, rspLtk |-> None,
   handled |-> FALSE, withLtk |-> FALSE, failedOut |-> FALSE,
   avail |-> bond, bonded |-> bond # None, level |-> None,
   prompts |-> {}, out |-> <<>>, ack |-> None, hci |-> <<>>, mute |-> FALSE,
   \* history: the run an answer of the user was asked in, the last outcome,
   \* whether a pairing is under way at the master and was cancelled by its user
   answered |-> None, outcome |-> None, open |-> FALSE, cancelled |-> FALSE]

SmpInit ==
  /\ \E bond \in {None} \cup (IF MayBeBonded THEN {OldBond} ELSE {}) :
       side = [x \in Sides |-> New(x, bond)]
  /\ wire = [x \in Sides |-> <<>>]
  /\ enc = None
  /\ up = TRUE
  /\ smpBudget \in SmpBudgets
-----------------------------------------------------------------------------
(* The toolbox. *)

JustWorks == "JustWorks"
Numeric == "NumericComparison"
ByPasskey(model) == model \notin {JustWorks, Numeric}

AssociationModel(initIo, rspIo, sc, mitm) ==
  LET plain(io) == IF ~sc /\ io = "DisplayYesNo" THEN "DisplayOnly" ELSE io
      i == plain(initIo)
      r == plain(rspIo)
  IN CASE ~mitm \/ "NoInputNoOutput" \in {i, r} -> JustWorks
       [] i = "KeyboardOnly" /\ r = "KeyboardOnly" -> "BothInput"
       [] i = "KeyboardOnly" -> "InitInputs"
       [] r = "KeyboardOnly" -> "RspInputs"
       [] i = "KeyboardDisplay" /\ r = "KeyboardDisplay" -> IF sc THEN Numeric ELSE "RspInputs"
       [] i = "DisplayOnly" /\ r = "KeyboardDisplay" -> "RspInputs"
       [] i = "KeyboardDisplay" /\ r = "DisplayOnly" -> "InitInputs"
       [] i = "DisplayOnly" \/ r = "DisplayOnly" -> JustWorks
       [] OTHER -> Numeric

BitwiseAndKeys(rsp, req) == [rsp EXCEPT !.dist = @ \cap req.dist]
CombineAuthReq(rsp, req) ==
  [rsp EXCEPT !.bond = @ /\ req.bond, !.mitm = @ \/ req.mitm, !.sc = @ /\ req.sc]

Fresh(r) == [by |-> r.role, run |-> r.run, bit |-> r.bit]
InitRand(r) == IF r.role = Master THEN r.myRand ELSE r.peerRand
RspRand(r) == IF r.role = Master THEN r.peerRand ELSE r.myRand
Bit(r) == IF ByPasskey(r.model) THEN (r.passkey \div 2^r.bit) % 2 ELSE 2
\* Slip: a confirm value that leaves the passkey out.
ConfirmWithoutPasskey(r, rand) ==
  IF r.feat.sc THEN [rand |-> rand, bit |-> 2] ELSE [rand |-> rand, req |-> r.req, rsp |-> r.rsp]
Confirm(r, rand) ==
  IF r.feat.sc THEN [rand |-> rand, bit |-> Bit(r)]
  ELSE [rand |-> rand, passkey |-> r.passkey, req |-> r.req, rsp |-> r.rsp]
\* f6 covers the IO capabilities and the authentication flags, not the key distribution.
Caps(f) == <<f.io, f.mitm, f.sc, f.bond>>
CheckValue(r, owner) ==
  [owner |-> owner, init |-> InitRand(r), rsp |-> RspRand(r), passkey |-> r.passkey,
   caps |-> Caps(IF owner = Master THEN r.req ELSE r.rsp)]
LtkOf(r) == [init |-> InitRand(r), rsp |-> RspRand(r)]
StkOf(r) == IF r.feat.sc THEN r.key
            ELSE [passkey |-> r.passkey, rsp |-> RspRand(r), init |-> InitRand(r)]
-----------------------------------------------------------------------------
(* What handlers do to the record of a side. *)

SendData(r, msg, then) ==
  IF r.mute THEN r ELSE [r EXCEPT !.out = Append(@, [msg |-> msg, then |-> then, run |-> r.run])]
\* Slip: a packet is sent without starting the timer.
SendingUntimed(r, msg, then) ==
  IF r.state = "TimedOut" THEN r ELSE SendData([r EXCEPT !.state = "W4PacketEnqueued"], msg, then)
Sending(r, msg, then) ==
  IF r.state = "TimedOut" THEN r
  ELSE SendData([r EXCEPT !.timer = TRUE, !.state = "W4PacketEnqueued"], msg, then)
SendPacket(r, msg, next) ==
  Sending(IF r.state = "TimedOut" THEN r ELSE [r EXCEPT !.wait = next], msg, "W4Packet")
SendBeforeLtkRequest(r, msg) == Sending(r, msg, "W4LtkRequest")
\* A packet of the key distribution, and all of them but the last.
Item(r, op) == [op |-> op, val |-> [by |-> r.role, run |-> r.run]]
SendAllButLast(r, ops) ==
  LET entry(i) == [msg |-> Item(r, ops[i]), then |-> None, run |-> r.run]
  IN IF r.mute \/ Len(ops) < 2 THEN r
     ELSE [r EXCEPT !.timer = TRUE, !.out = @ \o [i \in 1 .. Len(ops) - 1 |-> entry(i)]]
SendLast(r, ops) ==
  SendData([SendAllButLast(r, ops) EXCEPT !.state = W4LastAck, !.timer = TRUE],
           Item(r, ops[Len(ops)]), "Done")

Report(r, outcome) == [r EXCEPT !.outcome = outcome, !.open = FALSE]
\* The values of a pairing that is over are dropped here: each of them is
\* assigned again before a handler reads it (feat and model may still be read).
Forget(r) ==
  [r EXCEPT !.req = None, !.rsp = None, !.passkey = None, !.bit = 0, !.myRand = None, !.peerRand = None,
            !.confirm = None, !.check = None, !.numericOk = FALSE, !.key = None, !.rspLtk = None,
            !.answered = None]
Stop(r) == [Forget(r) EXCEPT !.timer = FALSE, !.state = "Idle", !.run = @ + 1]
FailedOnAir(r) ==
  IF r.failedOut THEN r ELSE SendData([r EXCEPT !.failedOut = TRUE], [op |-> "Failed"], "FailedSent")
SlavePairingFailed(r) == Report(Stop(FailedOnAir(r)), "failed")
MasterPairingFailed(r, fromRemote) ==
  LET s == Stop(IF fromRemote THEN r ELSE FailedOnAir(r))
  IN IF r.withLtk THEN s ELSE Report(s, "failed")
PairingDone(r) ==
  LET ltk == IF r.feat.sc THEN r.key ELSE r.rspLtk
      bond == r.feat.bond
  IN Report([Stop(r) EXCEPT
       !.bonded = @ \/ bond,
       !.avail = IF bond /\ ltk # None
                 THEN [id |-> IF r.feat.sc THEN Zero ELSE ltk, key |-> ltk,
                       mitm |-> r.feat.mitm /\ r.model # JustWorks, sc |-> r.feat.sc]
                 ELSE @], "complete")
\* The level that is published, and (history) the one the key really has.
Level(mitm, sc, keyMitm, keySc) == [mitm |-> mitm, sc |-> sc, key |-> [mitm |-> keyMitm, sc |-> keySc]]
PairingLevel(r) == Level(r.feat.mitm, r.feat.sc, r.feat.mitm /\ r.model # JustWorks, r.feat.sc)

\* The part of the response that both sides have in common: the association
\* model, the refusal to replace a bond by Just Works, and a clean slate.
Negotiate(r, feat, shown) ==
  LET model == AssociationModel(r.req.io, r.rsp.io, feat.sc, feat.mitm)
  IN [r EXCEPT !.feat = feat, !.model = model, !.bit = 0, !.rspLtk = None, !.key = None, !.answered = None,
        !.passkey = IF ~ByPasskey(model) THEN 0
                    ELSE IF model = (IF r.role = Master THEN "RspInputs" ELSE "InitInputs") THEN shown
                    ELSE None]
ReplacesBond(r) == ~r.handled /\ r.bonded /\ r.level = None /\ r.model = JustWorks
Prompt(r, kind) == [r EXCEPT !.prompts = @ \cup {[kind |-> kind, run |-> r.run]}]
-----------------------------------------------------------------------------
(* The slave. *)

SlaveAnswer(r, offer, shown) ==
  LET rsp == BitwiseAndKeys(offer, r.req)
      s == Negotiate([r EXCEPT !.rsp = rsp], CombineAuthReq(rsp, r.req), shown)
      asked == IF ByPasskey(s.model) /\ s.passkey = None THEN Prompt(s, "passkey") ELSE s
  IN IF ReplacesBond(s) THEN SlavePairingFailed(s)
     ELSE SendPacket(asked, [op |-> "PairingResponse", val |-> rsp],
                     IF s.feat.sc THEN "PublicKey" ELSE "Confirm")

\* With a listener for 'pairingRequest' the user is asked, else the default is taken.
SlaveOnPairingRequest(r, m) ==
  LET s == [r EXCEPT !.timer = TRUE, !.req = m.val, !.run = @ + 1, !.state = "W4UserFeatures", !.cancelled = FALSE]
  IN IF ~(r.state = "Idle" \/ (r.state = "W4Packet" /\ r.wait = "PairingRequest")) THEN {r}
     ELSE {Prompt([s EXCEPT !.handled = TRUE], "features")} \cup
          {SlaveAnswer([s EXCEPT !.handled = FALSE], Defaults[Slave], pk) : pk \in Passkeys}

AfterInitsConfirmAndPasskey(r) ==
  LET s == [r EXCEPT !.myRand = Fresh(r)]
  IN SendPacket(s, [op |-> "Confirm", val |-> Confirm(s, s.myRand)], "Random")

AfterNumericComparisonOkAndDHKeyCheck(r) ==
  IF r.check # CheckValue(r, Master) THEN SlavePairingFailed(r)
  ELSE SendBeforeLtkRequest([r EXCEPT !.key = LtkOf(r)], [op |-> "DhKeyCheck", val |-> CheckValue(r, Slave)])

SlaveOnPublicKey(r, m) ==
  LET s == [r EXCEPT !.myRand = Fresh(r)]
  IN IF ByPasskey(r.model) THEN {SendPacket(r, [op |-> "PublicKey"], "Confirm")}
     ELSE {SendPacket(SendData(s, [op |-> "PublicKey"], None),
                      [op |-> "Confirm", val |-> Confirm(s, s.myRand)], "Random")}

SlaveOnConfirm(r, m) ==
  LET s == [r EXCEPT !.confirm = m.val]
  IN IF r.passkey # None THEN {AfterInitsConfirmAndPasskey(s)} ELSE {[s EXCEPT !.state = "W4UserPasskey"]}

SlaveOnRandom(r, m) ==
  LET s == [r EXCEPT !.peerRand = m.val]
      reply == [op |-> "Random", val |-> r.myRand]
      unchecked == s.feat.sc /\ ~ByPasskey(s.model)
  IN CASE unchecked ->
            LET t == SendPacket([s EXCEPT !.numericOk = FALSE], reply, "DhKeyCheck")
            IN {IF s.model = Numeric THEN Prompt(t, "compare") ELSE t}
       [] ~unchecked /\ s.confirm # Confirm(s, m.val) -> {SlavePairingFailed(s)}
       [] ~s.feat.sc /\ s.confirm = Confirm(s, m.val) -> {SendBeforeLtkRequest(s, reply)}
       [] OTHER -> {SendPacket([s EXCEPT !.bit = @ + 1], reply,
                               IF s.bit + 1 < Rounds THEN "Confirm" ELSE "DhKeyCheck")}

SlaveOnDhKeyCheck(r, m) ==
  LET s == [r EXCEPT !.check = m.val]
  IN IF s.model # Numeric \/ s.numericOk THEN {AfterNumericComparisonOkAndDHKeyCheck(s)}
     ELSE {[s EXCEPT !.state = "W4UserNumericComparison"]}

SlaveOnKey(r, m) ==
  CASE m.op = "EncInfo" -> {[r EXCEPT !.wait = "MasterId"]}
    [] m.op = "MasterId" -> {IF "initId" \in r.feat.dist THEN [r EXCEPT !.wait = "IdInfo"] ELSE PairingDone(r)}
    [] m.op = "IdInfo" -> {[r EXCEPT !.wait = "IdAddr"]}
    [] m.op = "IdAddr" -> {PairingDone(r)}

SlaveOnFailed(r, m) == {Report(Stop(r), "failed")}

\* The controller asks for a key: that of the pairing, or one of an earlier pairing.
SlaveOnLtkRequest(r, id) ==
  IF r.state = "W4LtkRequest" /\ id = Zero
  THEN [r |-> [r EXCEPT !.state = "W4EncryptionStarted"], key |-> StkOf(r), from |-> "pairing", clear |-> FALSE]
  ELSE LET clear == r.state = "W4Packet" /\ r.wait = "PairingRequest"
           have == r.avail # None /\ r.avail.id = id
       IN [r |-> IF clear THEN [r EXCEPT !.timer = FALSE] ELSE r,
           key |-> IF have THEN r.avail.key ELSE None,
           from |-> IF have THEN "bond" ELSE None, clear |-> clear]

\* Slip: the key that is given away is not kept.
SlaveDistributesUnkept(r) ==
  LET d == r.feat.dist
      own == (IF ~r.feat.sc /\ "rspEnc" \in d THEN <<"EncInfo", "MasterId">> ELSE <<>>)
             \o (IF "rspId" \in d THEN <<"IdInfo", "IdAddr">> ELSE <<>>)
      next == IF ~r.feat.sc /\ "initEnc" \in d THEN "EncInfo" ELSE IF "initId" \in d THEN "IdInfo" ELSE None
  IN CASE next # None /\ own # <<>> -> SendPacket(SendAllButLast(r, own), Item(r, own[Len(own)]), next)
       [] next # None /\ own = <<>> -> [r EXCEPT !.state = "W4Packet", !.wait = next]
       [] next = None /\ own # <<>> -> SendLast(r, own)
       [] OTHER -> PairingDone(r)
\* Own keys go first at the slave; what it waits for next depends on the features.
SlaveDistributes(r) ==
  LET d == r.feat.dist
      own == (IF ~r.feat.sc /\ "rspEnc" \in d THEN <<"EncInfo", "MasterId">> ELSE <<>>)
             \o (IF "rspId" \in d THEN <<"IdInfo", "IdAddr">> ELSE <<>>)
      next == IF ~r.feat.sc /\ "initEnc" \in d THEN "EncInfo" ELSE IF "initId" \in d THEN "IdInfo" ELSE None
      s == IF ~r.feat.sc /\ "rspEnc" \in d THEN [r EXCEPT !.rspLtk = Item(r, "EncInfo").val] ELSE r
  IN CASE next # None /\ own # <<>> -> SendPacket(SendAllButLast(s, own), Item(s, own[Len(own)]), next)
       [] next # None /\ own = <<>> -> [s EXCEPT !.state = "W4Packet", !.wait = next]
       [] next = None /\ own # <<>> -> SendLast(s, own)
       [] OTHER -> PairingDone(s)

\* The callback of the reply: the link is encrypted, or the refusal was sent.
SlaveEncrypted(r, e) ==
  CASE e.from = "pairing" ->
         LET s == [r EXCEPT !.level = PairingLevel(r)]
         IN IF r.state = "W4EncryptionStarted" THEN SlaveDistributes(s) ELSE s
    [] e.from = "bond" ->
         [r EXCEPT !.level = Level(e.bond.mitm, e.bond.mitm, e.bond.mitm, e.bond.sc),
                   !.state = IF e.clear THEN "Idle" ELSE @]
    [] OTHER -> [r EXCEPT !.state = IF e.clear THEN "Idle" ELSE @]
-----------------------------------------------------------------------------
(* The master. *)

StartPairingRequest(r, offer) ==
  SendPacket([r EXCEPT !.req = offer, !.open = TRUE, !.cancelled = FALSE],
             [op |-> "PairingRequest", val |-> offer], "PairingResponse")

AskStartPairing(r, mitm) ==
  LET s == [r EXCEPT !.timer = TRUE, !.state = "W4UserFeatures"]
  IN {Prompt([s EXCEPT !.handled = TRUE], "features"),
      IF r.bonded /\ ~mitm /\ r.level = None THEN MasterPairingFailed(s, FALSE)
      ELSE StartPairingRequest(IF r.bonded THEN [s EXCEPT !.handled = FALSE] ELSE s, Defaults[Master])}

StartEncryptWithAvailableLtk(r, ask) ==
  [r EXCEPT !.state = "W4EncryptionStarted", !.withLtk = TRUE,
            !.hci = Append(@, [id |-> r.avail.id, key |-> r.avail.key, from |-> "bond", ask |-> ask])]

MasterOnSecurityRequest(r, m) ==
  CASE r.state # "Idle" -> {r}
    [] r.state = "Idle" /\ r.avail # None /\ (m.mitm => r.avail.mitm) /\ (m.sc => r.avail.sc) ->
         {StartEncryptWithAvailableLtk(r, {m.mitm})}
    [] OTHER -> AskStartPairing(r, m.mitm)

SendConfirm(r) ==
  LET s == [r EXCEPT !.myRand = Fresh(r)]
  IN SendPacket(s, [op |-> "Confirm", val |-> Confirm(s, s.myRand)], "Confirm")

StartPasskeyExchange(r) ==
  CASE ByPasskey(r.model) /\ r.passkey = None -> Prompt([r EXCEPT !.state = "W4UserPasskey"], "passkey")
    [] ~ByPasskey(r.model) /\ r.feat.sc ->
         [r EXCEPT !.myRand = Fresh(r), !.state = "W4Packet", !.wait = "Confirm"]
    [] OTHER -> SendConfirm(r)

MasterOnPairingResponse(r, m) ==
  {LET rsp == BitwiseAndKeys(m.val, r.req)
       s == Negotiate([r EXCEPT !.rsp = m.val], CombineAuthReq(rsp, r.req), shown)
   IN CASE ReplacesBond(s) -> MasterPairingFailed(s, FALSE)
        [] ~ReplacesBond(s) /\ s.feat.sc -> SendPacket(s, [op |-> "PublicKey"], "PublicKey")
        [] OTHER -> StartPasskeyExchange(s) : shown \in Passkeys}

MasterOnConfirm(r, m) ==
  {SendPacket([r EXCEPT !.confirm = m.val], [op |-> "Random", val |-> r.myRand], "Random")}

SendDHKeyCheck(r) ==
  SendPacket([r EXCEPT !.key = LtkOf(r)], [op |-> "DhKeyCheck", val |-> CheckValue(r, Master)], "DhKeyCheck")

StartEncryptionAfterPairing(r) ==
  [r EXCEPT !.state = "W4EncryptionStarted",
            !.hci = Append(@, [id |-> Zero, key |-> StkOf(r), from |-> "pairing", ask |-> {}])]

MasterOnRandom(r, m) ==
  LET s == [r EXCEPT !.peerRand = m.val]
      next == [s EXCEPT !.bit = @ + 1]
  IN {CASE s.confirm # Confirm(s, m.val) -> MasterPairingFailed(s, FALSE)
        [] s.confirm = Confirm(s, m.val) /\ ~s.feat.sc -> StartEncryptionAfterPairing(s)
        [] s.confirm = Confirm(s, m.val) /\ s.feat.sc /\ s.model = JustWorks -> SendDHKeyCheck(s)
        [] s.confirm = Confirm(s, m.val) /\ s.feat.sc /\ s.model = Numeric ->
             Prompt([s EXCEPT !.state = "W4UserNumericComparison"], "compare")
        [] OTHER -> IF next.bit < Rounds THEN SendConfirm(next) ELSE SendDHKeyCheck(next)}

MasterOnDhKeyCheck(r, m) ==
  {IF m.val = CheckValue(r, Slave) THEN StartEncryptionAfterPairing(r) ELSE MasterPairingFailed(r, FALSE)}

StartDistributeOwnKeys(r) ==
  LET own == (IF ~r.feat.sc /\ "initEnc" \in r.feat.dist THEN <<"EncInfo", "MasterId">> ELSE <<>>)
             \o (IF "initId" \in r.feat.dist THEN <<"IdInfo", "IdAddr">> ELSE <<>>)
  IN IF own = <<>> THEN PairingDone(r) ELSE SendLast(r, own)

MasterOnKey(r, m) ==
  CASE m.op = "EncInfo" -> {[r EXCEPT !.rspLtk = m.val, !.wait = "MasterId"]}
    [] m.op = "MasterId" -> {IF "rspId" \in r.feat.dist THEN [r EXCEPT !.wait = "IdInfo"]
                             ELSE StartDistributeOwnKeys(r)}
    [] m.op = "IdInfo" -> {[r EXCEPT !.wait = "IdAddr"]}
    [] m.op = "IdAddr" -> {StartDistributeOwnKeys(r)}

MasterOnFailed(r, m) ==
  CASE r.state = "W4EncryptionStarted" /\ ~r.withLtk -> {[r EXCEPT !.state = "CancelledByPeer"]}
    [] r.state \in {"CancelledByPeer", CancelledByLocal} -> {r}
    [] OTHER -> {MasterPairingFailed(r, TRUE)}

MasterSendPairingFailed(r) ==
  CASE r.state \in {"CancelledByPeer", CancelledByLocal} -> r
    [] r.state = "W4EncryptionStarted" /\ ~r.withLtk -> [r EXCEPT !.state = CancelledByLocal]
    [] OTHER -> MasterPairingFailed(r, FALSE)

\* The callback of the encryption procedure, started after a pairing ...
EncryptedAfterPairing(r, ok) ==
  LET s == IF ok THEN [r EXCEPT !.level = PairingLevel(r)] ELSE r
      d == s.feat.dist
  IN CASE s.state = "W4EncryptionStarted" /\ ~ok -> {MasterPairingFailed(s, FALSE)}
       [] s.state = "W4EncryptionStarted" /\ ok /\ ~s.feat.sc /\ "rspEnc" \in d ->
            {[s EXCEPT !.state = "W4Packet", !.wait = "EncInfo"]}
       [] s.state = "W4EncryptionStarted" /\ ok /\ (s.feat.sc \/ "rspEnc" \notin d) ->
            {IF "rspId" \in d THEN [s EXCEPT !.state = "W4Packet", !.wait = "IdInfo"]
             ELSE StartDistributeOwnKeys(s)}
       [] s.state = CancelledByLocal -> {MasterPairingFailed(s, FALSE)}
       [] s.state = "CancelledByPeer" -> {MasterPairingFailed(s, TRUE)}
       [] OTHER -> {s}

\* ... or with the key of an earlier one, for the user or for a Security Request.
EncryptedWithAvailableLtk(r, h, result) ==
  LET s == [r EXCEPT !.withLtk = FALSE]
      t == IF s.state = "TimedOut" THEN s ELSE Stop(s)
  IN CASE result = "missing" /\ h.ask # {} -> AskStartPairing(t, TRUE \in h.ask)
       [] result = "ok" -> {[t EXCEPT !.level = Level(t.avail.mitm, t.avail.sc, t.avail.mitm, t.avail.sc)]}
       [] OTHER -> {t}

MasterEncrypted(r, h, result) ==
  LET s == [r EXCEPT !.hci = Tail(@)]
  IN CASE r.level # None /\ result # "ok" -> {[s EXCEPT !.state = "TimedOut", !.withLtk = FALSE]}
       [] ~(r.level # None /\ result # "ok") /\ h.from = "pairing" -> EncryptedAfterPairing(s, result = "ok")
       [] OTHER -> EncryptedWithAvailableLtk(s, h, result)
-----------------------------------------------------------------------------
(* Steps. *)

Set(x, r) == side' = [side EXCEPT ![x] = r]

\* The adapter writes a packet and calls its sentCallback; the completeCallback of
\* the last packet of the key distribution comes with the acknowledgement.
Sent(r) ==
  LET e == Head(r.out)
      s == [r EXCEPT !.out = Tail(@)]
  IN CASE e.then = "FailedSent" -> [s EXCEPT !.failedOut = FALSE]
       [] e.then = "Done" -> [s EXCEPT !.ack = e.run]
       [] e.then \in {"W4Packet", "W4LtkRequest"} /\ e.run = r.run -> [s EXCEPT !.state = e.then]
       [] OTHER -> s
Send(x) ==
  /\ up /\ side[x].out # <<>>
  /\ wire' = [wire EXCEPT ![x] = Append(@, Head(side[x].out).msg)]
  /\ Set(x, Sent(side[x]))
  /\ UNCHANGED <<enc, up, smpBudget>>
Acknowledged(x) ==
  /\ up /\ side[x].ack # None
  /\ LET r == [side[x] EXCEPT !.ack = None]
     IN Set(x, IF r.run = side[x].ack THEN PairingDone(r) ELSE r)
  /\ UNCHANGED <<wire, enc, up, smpBudget>>

Expected(r, op) == r.state = "W4Packet" /\ r.wait = op
KeyPackets == {"EncInfo", "MasterId", "IdInfo", "IdAddr"}
SlaveReceives(r, m) ==
  CASE m.op = "PairingRequest" -> SlaveOnPairingRequest(r, m)
    [] m.op = "Failed" -> SlaveOnFailed(r, m)
    [] m.op = "PublicKey" /\ Expected(r, m.op) -> SlaveOnPublicKey(r, m)
    [] m.op = "Confirm" /\ Expected(r, m.op) -> SlaveOnConfirm(r, m)
    [] m.op = "Random" /\ Expected(r, m.op) -> SlaveOnRandom(r, m)
    [] m.op = "DhKeyCheck" /\ Expected(r, m.op) -> SlaveOnDhKeyCheck(r, m)
    [] m.op \in KeyPackets /\ Expected(r, m.op) -> SlaveOnKey(r, m)
    [] OTHER -> {r}
MasterReceives(r, m) ==
  CASE m.op = "SecurityRequest" -> MasterOnSecurityRequest(r, m)
    [] m.op = "Failed" -> MasterOnFailed(r, m)
    [] m.op = "PairingResponse" /\ Expected(r, m.op) -> MasterOnPairingResponse(r, m)
    [] m.op = "PublicKey" /\ Expected(r, m.op) -> {StartPasskeyExchange(r)}
    [] m.op = "Confirm" /\ Expected(r, m.op) -> MasterOnConfirm(r, m)
    [] m.op = "Random" /\ Expected(r, m.op) -> MasterOnRandom(r, m)
    [] m.op = "DhKeyCheck" /\ Expected(r, m.op) -> MasterOnDhKeyCheck(r, m)
    [] m.op \in KeyPackets /\ Expected(r, m.op) -> MasterOnKey(r, m)
    [] OTHER -> {r}
\* Packets wait while the link layer changes to encryption.
Receive(x) ==
  /\ up /\ wire[Other(x)] # <<>>
  /\ enc # None => x \in enc.told
  /\ LET m == Head(wire[Other(x)])
         r == side[x]
     IN \E s \in IF r.state = "TimedOut" THEN {r}
                  ELSE IF x = Slave THEN SlaveReceives(r, m) ELSE MasterReceives(r, m) : Set(x, s)
  /\ wire' = [wire EXCEPT ![Other(x)] = Tail(@)]
  /\ UNCHANGED <<enc, up, smpBudget>>

\* The procedure of the two controllers: the slave's host is asked for the key;
\* with different keys the link is lost, else each host is told the outcome.
LtkRequest ==
  /\ up /\ enc = None /\ side[Master].hci # <<>>
  /\ LET h == Head(side[Master].hci)
         a == SlaveOnLtkRequest(side[Slave], h.id)
     IN /\ Set(Slave, a.r)
        /\ up' = (a.key \in {None, h.key})
        /\ enc' = [from |-> a.from, clear |-> a.clear, told |-> {}, ok |-> a.key # None,
                   bond |-> side[Slave].avail]
  /\ UNCHANGED <<wire, smpBudget>>
Told(x) == enc' = IF enc.told \cup {x} = Sides THEN None ELSE [enc EXCEPT !.told = @ \cup {x}]
SlaveIsTold ==
  /\ up /\ enc # None /\ Slave \notin enc.told
  /\ Set(Slave, SlaveEncrypted(side[Slave], enc))
  /\ Told(Slave)
  /\ UNCHANGED <<wire, up, smpBudget>>
MasterIsTold ==
  /\ up /\ enc # None /\ Master \notin enc.told
  /\ LET r == side[Master]
         result == IF enc.ok THEN "ok" ELSE "missing"
     IN /\ \E s \in MasterEncrypted(r, Head(r.hci), result) : Set(Master, s)
        /\ up' = (r.level = None \/ enc.ok)
  /\ Told(Master)
  /\ UNCHANGED <<wire, smpBudget>>
\* The controller refuses a second procedure while one is under way.
SecondIsRefused ==
  /\ up /\ Len(side[Master].hci) = 2
  /\ LET r == side[Master]
         h == r.hci[2]
     IN /\ \E s \in MasterEncrypted([r EXCEPT !.hci = <<h>>], h, "error") :
             Set(Master, [s EXCEPT !.hci = <<Head(r.hci)>>])
        /\ up' = (r.level = None)
  /\ UNCHANGED <<wire, enc, smpBudget>>

\* Thirty seconds: as a rule nothing is on its way any more.
Quiet == enc = None /\ \A x \in Sides : side[x].out = <<>> /\ wire[x] = <<>> /\ side[x].hci = <<>>
Timeout(x) ==
  /\ up /\ side[x].timer
  /\ smpBudget.slow \/ Quiet
  /\ Set(x, [Report(Forget(side[x]), "timeout") EXCEPT
               !.run = @ + 1, !.state = "TimedOut", !.timer = FALSE, !.mute = TRUE])
  /\ up' \in BOOLEAN   \* a listener for 'timeout' keeps the link
  /\ UNCHANGED <<wire, enc, smpBudget>>
-----------------------------------------------------------------------------
(* The users. *)

Call == up /\ smpBudget.calls > 0 /\ smpBudget' = [smpBudget EXCEPT !.calls = @ - 1]

UserPairs ==
  /\ Call /\ side[Master].state \in {"Idle", "W4UserFeatures"}
  /\ \E offer \in Offers[Master] :
       Set(Master, StartPairingRequest([side[Master] EXCEPT !.handled = TRUE], offer))
  /\ UNCHANGED <<wire, enc, up>>
UserEncrypts ==
  /\ Call /\ side[Master].state = "Idle" /\ side[Master].avail # None
  /\ Set(Master, StartEncryptWithAvailableLtk(side[Master], {}))
  /\ UNCHANGED <<wire, enc, up>>
UserAsksForSecurity ==
  /\ Call /\ side[Slave].state = "Idle"
  /\ \E mitm \in BOOLEAN :
       Set(Slave, SendData([side[Slave] EXCEPT !.state = "W4Packet", !.wait = "PairingRequest", !.timer = TRUE],
                           [op |-> "SecurityRequest", mitm |-> mitm, sc |-> Defaults[Slave].sc], None))
  /\ UNCHANGED <<wire, enc, up>>
UserCancels(x) ==
  /\ Call /\ side[x].state \notin {"Idle", "TimedOut"} /\ ~side[x].withLtk
  /\ LET r == [side[x] EXCEPT !.cancelled = TRUE]
     IN Set(x, IF x = Slave THEN SlavePairingFailed(r) ELSE MasterSendPairingFailed(r))
  /\ UNCHANGED <<wire, enc, up>>

\* Answers come at any time, also for a pairing that is over.
WithAnswer(r, p) == [r EXCEPT !.answered = p.run]
OnFeatures(r, p, offer, shown) ==
  IF r.state # "W4UserFeatures" \/ r.run # p.run THEN r
  ELSE IF r.role = Slave THEN SlaveAnswer(r, offer, shown) ELSE StartPairingRequest(r, offer)
\* Slip: the callback does not ask which pairing it belongs to.
OnPasskeyOfAnyRun(r, p, passkey) ==
  LET s == WithAnswer([r EXCEPT !.passkey = passkey], p)
  IN CASE r.passkey # None -> r
       [] r.passkey = None /\ r.role = Slave ->
            IF r.state = "W4UserPasskey" THEN AfterInitsConfirmAndPasskey(s) ELSE s
       [] OTHER -> IF r.state = "W4UserPasskey" THEN SendConfirm(s) ELSE r
OnPasskey(r, p, passkey) ==
  LET s == WithAnswer([r EXCEPT !.passkey = passkey], p)
  IN CASE r.run # p.run \/ r.passkey # None -> r
       [] r.run = p.run /\ r.passkey = None /\ r.role = Slave ->
            IF r.state = "W4UserPasskey" THEN AfterInitsConfirmAndPasskey(s) ELSE s
       [] OTHER -> IF r.state = "W4UserPasskey" THEN SendConfirm(s) ELSE r
OnCompared(r, p) ==
  LET s == WithAnswer(r, p)
  IN CASE r.run # p.run -> r
       [] r.run = p.run /\ r.role = Slave ->
            IF r.state = "W4UserNumericComparison"
            THEN AfterNumericComparisonOkAndDHKeyCheck([s EXCEPT !.numericOk = TRUE])
            ELSE [s EXCEPT !.numericOk = TRUE]
       [] OTHER -> IF r.state = "W4UserNumericComparison" THEN SendDHKeyCheck(s) ELSE r
UserAnswers(x) ==
  /\ up
  /\ \E p \in side[x].prompts, offer \in Offers[x], pk \in Passkeys :
       LET r == [side[x] EXCEPT !.prompts = @ \ {p}]
       IN Set(x, CASE p.kind = "features" -> OnFeatures(r, p, offer, pk)
                   [] p.kind = "passkey" -> OnPasskey(r, p, pk)
                   [] p.kind = "compare" -> OnCompared(r, p))
  /\ UNCHANGED <<wire, enc, up, smpBudget>>

System(x) == Send(x) \/ Acknowledged(x) \/ Receive(x) \/ Timeout(x)
SmpNext ==
  \/ \E x \in Sides : System(x) \/ UserCancels(x) \/ UserAnswers(x)
  \/ LtkRequest \/ SlaveIsTold \/ MasterIsTold \/ SecondIsRefused
  \/ UserPairs \/ UserEncrypts \/ UserAsksForSecurity
SmpSpec == SmpInit /\ [][SmpNext]_smpVars
\* The event loop serves what is ready, the radio and the controllers make
\* progress, and a timer that stays armed expires.  Users owe nothing.
Fairness ==
  /\ \A x \in Sides : /\ WF_smpVars(Send(x)) /\ WF_smpVars(Receive(x))
                      /\ WF_smpVars(Acknowledged(x)) /\ WF_smpVars(Timeout(x))
  /\ WF_smpVars(LtkRequest) /\ WF_smpVars(SlaveIsTold) /\ WF_smpVars(MasterIsTold) /\ WF_smpVars(SecondIsRefused)
FairSmpSpec == SmpSpec /\ Fairness
-----------------------------------------------------------------------------
Busy(x) == up /\ side[x].state \notin {"Idle", "TimedOut"}

\* The master has started encryption with the key of a pairing and the slave has one for it.
MeetOnEncryption ==
  /\ up /\ enc = None /\ side[Slave].state = "W4LtkRequest"
  /\ side[Master].hci # <<>> /\ Head(side[Master].hci).from = "pairing"

\* When the two sides meet to encrypt, it is with the same key, the same association model
\* and the same view of what both can do: the checks of smp.js leave no other case, also
\* when packets of an abandoned pairing are still on the way.
PairingAgrees ==
  MeetOnEncryption =>
    /\ Head(side[Master].hci).key = StkOf(side[Slave])
    /\ side[Master].model = side[Slave].model
    /\ Caps(side[Master].feat) = Caps(side[Slave].feat)

\* A key, a confirmation or a passkey that the user gave for one pairing is
\* never used in another (the runCounter tests).
LateAnswersIgnored ==
  \A x \in Sides : Busy(x) /\ side[x].answered # None => side[x].answered = side[x].run

\* When both ends report a completed pairing, are idle and nothing is on the
\* way, the keys they keep are the same.
BondsMatch ==
  (/\ up /\ enc = None
   /\ \A x \in Sides : /\ side[x].state = "Idle" /\ side[x].outcome = "complete"
                       /\ side[x].out = <<>> /\ wire[x] = <<>>)
  => side[Master].avail = side[Slave].avail

\* Whatever the users do, no side stays in the middle of a procedure.
EverySideSettles == \A x \in Sides : Busy(x) ~> ~Busy(x)

-----------------------------------------------------------------------------
(* What docs/api/security-manager.md promises and the code does not keep: no run checks    *)
(* these; the README says how each is broken.                                              *)

\* The level of the 'encrypt' event is that of the key in use.
LevelIsTruthful ==
  \A x \in Sides : LET l == side[x].level IN l # None => [mitm |-> l.mitm, sc |-> l.sc] = l.key

\* A pairing that the user cancelled does not complete.
CancelledNeverCompletes == \A x \in Sides : ~(side[x].cancelled /\ side[x].outcome = "complete")

\* A pairing that sendPairingRequest started ends with an event.
EveryPairingReported == side[Master].open ~> (~side[Master].open \/ ~up)
=============================================================================
