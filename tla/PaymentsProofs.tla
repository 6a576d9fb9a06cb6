--------------------------- MODULE PaymentsProofs ---------------------------
(***************************************************************************)
(* Payments keeps its invariants for every number of acts, every set of    *)
(* goods and with or without a keyboard, and implements the ledger.        *)
(***************************************************************************)
EXTENDS Payments, FiniteSetTheorems, TLAPS

(* Requests name acts and tokens there are.                                *)
TypeInv ==
    /\ TypeOK
    /\ \A i \in DOMAIN wire : wire[i].act \in DOMAIN acts /\ wire[i].token \in 0 .. Len(tokens)

(* An act has one handler, and the loader counts the handlers.             *)
LoadInv ==
    /\ IsFiniteSet(tasks)
    /\ \A t, u \in tasks : t.act = u.act => t = u
    /\ LoaderBalanced

(* A press is of itself, a return page is of the press that led to it.     *)
PressIn(s, a) == a \in DOMAIN s /\ s[a].of = a
ChainInv ==
    /\ \A a \in DOMAIN acts : PressIn(acts, acts[a].of)
    /\ \A n \in DOMAIN tokens : PressIn(acts, tokens[n].act)
    /\ \A a \in DOMAIN acts : acts[a].of = a => ~acts[a].again

(* What a handler carries is that of its act and of its token.             *)
OfForm(t) ==
    /\ PressIn(acts, t.act) /\ t.vref \in {0, t.token}
    /\ t.at \in {"check", "auth"} => t.token # 0
    /\ t.token # 0 => tokens[t.token].act = t.act /\ tokens[t.token].flow = t.flow
OfReturn(t) ==
    /\ t.at \in {"auth", "post"} /\ t.token # 0 /\ ~PressIn(acts, t.act)
    /\ acts[t.act].of = tokens[t.token].act /\ t.flow = tokens[t.token].flow
    /\ url # 0 => t.token = url
Deed(t) ==
    /\ t.goods = acts[t.act].goods
    /\ t.from = "form" => OfForm(t)
    /\ t.from = "return" => OfReturn(t)
DeedInv == \A t \in tasks : Deed(t)

(* A handler has sent nothing before its last stage; then it has sent one  *)
(* request that may be answered, and others that nothing handled.          *)
Before == {"token", "check", "auth"}
HasSent(t) ==
    /\ t.req \in DOMAIN wire /\ wire[t.req].act = t.act
    /\ wire[t.req].stripe = (t.at # "post")
    /\ t.at = "confirm" => wire[t.req].state = "action"
    /\ \A i \in DOMAIN wire : wire[i].act = t.act => i = t.req \/ wire[i].state = "missing"
RequestInv ==
    /\ \A i \in DOMAIN wire : wire[i].goods = acts[wire[i].act].goods
    /\ \A i \in DOMAIN wire : wire[i].stripe \/ wire[i].state = "pending" => wire[i].goods # None
    /\ \A t \in tasks : t.at \in Before => \A i \in DOMAIN wire : wire[i].act # t.act
    /\ \A t \in tasks : t.at \notin Before => HasSent(t)
    /\ OneChargePerAct

(* What is booked was requested.                                           *)
BookInv ==
    \A k \in DOMAIN books :
        \E i \in DOMAIN wire : wire[i].act = books[k] /\ wire[i].state = "booked"

(* A press that led to the issuer is over: it has no handler and no        *)
(* request, and the issuer returns once for it.                            *)
Over(S, w, p) == (\A t \in S : t.act # p) /\ (\A i \in DOMAIN w : w[i].act # p)
First(s, a) == s[a].of # a /\ ~s[a].again
OverInv ==
    /\ \A a \in DOMAIN acts : acts[a].of # a => Over(tasks, wire, acts[a].of)
    /\ url # 0 => Over(tasks, wire, tokens[url].act)
    /\ page = "issuer" =>
        /\ tasks = {} /\ Over(tasks, wire, tokens[challenge].act)
        /\ \A a \in DOMAIN acts : First(acts, a) => acts[a].of # tokens[challenge].act
    /\ \A a, b \in DOMAIN acts :
        First(acts, a) /\ First(acts, b) /\ acts[a].of = acts[b].of => a = b

(* The pages and the two copies of the deposit.                            *)
ScreenInv ==
    /\ page = "return" => url # 0 /\ flow = tokens[url].flow
    /\ kept.deposit \in {redux.deposit, None}
    /\ page = "form" => flow \in FlowKinds
    /\ page = "form" /\ flow = "deposit" => kept.deposit \in {goods, None}

(* As long as nobody got through the overlay, the storage holds what the   *)
(* press under way, or the return page it led to, will post.               *)
Holds(f, g) == IF f = "deposit" THEN kept.deposit \in {g, None} ELSE kept.mapped \in {g, None}
HoldsToken(f, g, n) ==
    IF f = "deposit" THEN kept.redirect.goods \in {g, None} /\ kept.redirect.vref \in {0, n}
    ELSE tokens[n].vref => kept.vref \in {0, n}
IssuerHolds ==
    LET k == tokens[challenge]
        g == acts[k.act].goods
    IN Holds(k.flow, g) /\ HoldsToken(k.flow, g, challenge)
StoreInv ==
    /\ \A t, u \in tasks : t.from = "form" => u = t \/ acts[u.act].again
    /\ \A t \in tasks : t.at \in {"token", "check"} => Holds(t.flow, t.goods)
    /\ \A t \in tasks : t.at = "check" => HoldsToken(t.flow, t.goods, t.token)
    /\ page = "issuer" => IssuerHolds
    /\ \A t \in tasks :
        t.from = "return" /\ t.at = "auth" /\ ~acts[t.act].again =>
            IF t.flow = "deposit" THEN t.vref \in {0, t.token}
            ELSE tokens[t.token].vref => kept.vref \in {0, t.token}

Inv ==
    /\ TypeInv /\ LoadInv /\ ChainInv /\ DeedInv /\ RequestInv /\ BookInv /\ OverInv
    /\ ScreenInv /\ (~crossed => StoreInv) /\ VrefOfToken
------------------------------------------------------------------------------
(* Sequences, and what the loader counts.                                  *)

LEMMA Appended ==
    ASSUME NEW S, NEW s \in Seq(S), NEW e \in S
    PROVE  /\ Append(s, e) \in Seq(S) /\ Len(s) \in Nat /\ Len(Append(s, e)) = Len(s) + 1
           /\ DOMAIN s = 1 .. Len(s) /\ DOMAIN Append(s, e) = 1 .. Len(s) + 1
           /\ Append(s, e)[Len(s) + 1] = e
           /\ \A i \in DOMAIN s : i \in DOMAIN Append(s, e) /\ Append(s, e)[i] = s[i] /\ s[i] \in S
           /\ \A i \in DOMAIN Append(s, e) : i \in DOMAIN s \/ i = Len(s) + 1
OBVIOUS

LEMMA AppendedOnly ==
    ASSUME NEW S, NEW s \in Seq(S), NEW e \in S
    PROVE  \A i \in DOMAIN Append(s, e) :
              (i \in DOMAIN s /\ Append(s, e)[i] = s[i]) \/ Append(s, e)[i] = e
BY Appended

LEMMA Elements ==
    ASSUME NEW S, NEW s \in Seq(S)
    PROVE  DOMAIN s = 1 .. Len(s) /\ Len(s) \in Nat /\ \A i \in DOMAIN s : s[i] \in S
OBVIOUS

Weight(t) == IF t.at = "check" THEN 2 ELSE 1
Checks(S) == {t \in S : t.at = "check"}
Load(S) == Cardinality(S) + Cardinality(Checks(S))

LEMMA LoadNat ==
    ASSUME NEW S, IsFiniteSet(S)
    PROVE  Load(S) \in Nat /\ (S # {} => Load(S) > 0)
<1>1. IsFiniteSet(Checks(S))
  BY FS_Subset DEF Checks
<1>2. Cardinality(S) \in Nat /\ Cardinality(Checks(S)) \in Nat
  BY <1>1, FS_CardinalityType
<1>3. S # {} => Cardinality(S) # 0
  BY FS_EmptySet
<1>. QED
  BY <1>2, <1>3 DEF Load

LEMMA LoadAdd ==
    ASSUME NEW S, IsFiniteSet(S), NEW x, x \notin S
    PROVE  IsFiniteSet(S \cup {x}) /\ Load(S \cup {x}) = Load(S) + Weight(x)
<1>1. IsFiniteSet(Checks(S))
  BY FS_Subset DEF Checks
<1>2. Cardinality(S) \in Nat /\ Cardinality(Checks(S)) \in Nat
  BY <1>1, FS_CardinalityType
<1>3. IsFiniteSet(S \cup {x}) /\ Cardinality(S \cup {x}) = Cardinality(S) + 1
  BY FS_AddElement
<1>4. CASE x.at = "check"
  <2>1. Checks(S \cup {x}) = Checks(S) \cup {x} /\ x \notin Checks(S)
    BY <1>4 DEF Checks
  <2>2. Cardinality(Checks(S \cup {x})) = Cardinality(Checks(S)) + 1
    BY <1>1, <2>1, FS_AddElement
  <2>. QED
    BY <1>2, <1>3, <1>4, <2>2 DEF Load, Weight
<1>5. CASE x.at # "check"
  <2>1. Checks(S \cup {x}) = Checks(S)
    BY <1>5 DEF Checks
  <2>. QED
    BY <1>2, <1>3, <1>5, <2>1 DEF Load, Weight
<1>. QED
  BY <1>4, <1>5

LEMMA LoadRemove ==
    ASSUME NEW S, IsFiniteSet(S), NEW x \in S
    PROVE  IsFiniteSet(S \ {x}) /\ Load(S \ {x}) = Load(S) - Weight(x)
<1>1. IsFiniteSet(S \ {x})
  BY FS_RemoveElement
<1>2. x \notin S \ {x} /\ (S \ {x}) \cup {x} = S
  OBVIOUS
<1>3. Load(S) = Load(S \ {x}) + Weight(x)
  BY <1>1, <1>2, LoadAdd
<1>4. Load(S \ {x}) \in Nat
  BY <1>1, LoadNat
<1>. QED
  BY <1>1, <1>3, <1>4 DEF Weight

LEMMA LoadMove ==
    ASSUME NEW S, IsFiniteSet(S), NEW x \in S, NEW y, y \notin S \ {x}
    PROVE  /\ IsFiniteSet((S \ {x}) \cup {y})
           /\ Load((S \ {x}) \cup {y}) = Load(S) - Weight(x) + Weight(y)
<1>1. IsFiniteSet(S \ {x}) /\ Load(S \ {x}) = Load(S) - Weight(x)
  BY LoadRemove
<1>. QED
  BY <1>1, LoadAdd
------------------------------------------------------------------------------
(* How a handler ends: with or without a receipt, and what it takes out of *)
(* the storage.                                                            *)

SimpleTypes ==
    /\ page \in {"home", "form", "issuer", "return", "receipt"} /\ flow \in FlowKinds \cup {None}
    /\ goods \in Choice /\ redux \in Stored /\ kept \in Kept /\ crossed \in BOOLEAN

Forgets ==
    /\ kept' \in Kept /\ redux' \in Stored
    /\ kept'.mapped \in {kept.mapped, None} /\ kept'.deposit \in {kept.deposit, None}
    /\ kept'.redirect \in {kept.redirect, NoRedirect} /\ kept'.vref = kept.vref
    /\ kept.deposit \in {redux.deposit, None} => kept'.deposit \in {redux'.deposit, None}

Shows(t, ok) ==
    \/ UNCHANGED <<page, goods, url, receipt>>
    \/ /\ page' = "receipt" /\ goods' = None /\ url' = url
       /\ receipt' = [act |-> t.act, ok |-> ok]
    \/ /\ page = "return" /\ t.from = "return" /\ t.flow = "schedule"
       /\ page' = "form" /\ goods' = t.goods /\ url' = 0 /\ receipt' = receipt

Quits(t, weight, ok) ==
    /\ tasks' = tasks \ {t} /\ loading' = loading - weight
    /\ UNCHANGED <<flow, challenge, acts, crossed, tokens>>
    /\ Forgets /\ Shows(t, ok)

LEMMA ClearForgets ==
    ASSUME SimpleTypes, NEW t \in Tasks, CleanUp(t) \/ ForgetSchedule \/ UNCHANGED store
    PROVE  Forgets
<1>1. /\ kept \in Kept /\ redux \in Stored /\ NoRedirect \in Redirects
      /\ None \in Choice
  BY DEF SimpleTypes, NoRedirect, Redirects, Choice
<1>2. CASE CleanUp(t)
  <2>1. CASE t.flow = "payment"
    <3>1. kept' = Clear(kept) /\ redux' = redux
      BY <1>2, <2>1 DEF CleanUp
    <3>. QED
      BY <1>1, <3>1 DEF Forgets, Clear, Kept, Stored
  <2>2. CASE t.flow = "deposit"
    <3>1. /\ kept' \in {[Clear(kept) EXCEPT !.redirect = NoRedirect],
                        [kept EXCEPT !.deposit = None, !.redirect = NoRedirect]}
          /\ redux' = [redux EXCEPT !.deposit = None]
      BY <1>2, <2>2 DEF CleanUp
    <3>2. kept' \in Kept /\ redux' \in Stored
      BY <1>1, <3>1 DEF Clear, Kept, Stored
    <3>. QED
      BY <1>1, <3>1, <3>2 DEF Forgets, Clear, Kept, Stored
  <2>3. CASE t.flow = "schedule"
    <3>1. kept' = kept /\ redux' = redux
      BY <1>2, <2>3 DEF CleanUp, store
    <3>. QED
      BY <1>1, <3>1 DEF Forgets
  <2>. QED
    BY <2>1, <2>2, <2>3 DEF Tasks, FlowKinds
<1>3. CASE ForgetSchedule
  <2>1. kept' = [kept EXCEPT !.mapped = None] /\ redux' = [redux EXCEPT !.mapped = None]
    BY <1>3 DEF ForgetSchedule
  <2>. QED
    BY <1>1, <2>1 DEF Forgets, Kept, Stored
<1>4. CASE UNCHANGED store
  BY <1>1, <1>4 DEF Forgets, store
<1>. QED
  BY <1>2, <1>3, <1>4

LEMMA SucceedQuits ==
    ASSUME SimpleTypes, NEW t \in Tasks, Succeed(t)
    PROVE  Quits(t, 1, TRUE)
<1>1. /\ tasks' = tasks \ {t} /\ loading' = loading - 1
      /\ UNCHANGED <<challenge, acts, crossed, tokens>>
  BY DEF Succeed, EndTask
<1>2. Forgets
  <2>1. CleanUp(t) \/ ForgetSchedule \/ UNCHANGED store
    BY DEF Succeed, store
  <2>. QED
    BY <2>1, ClearForgets
<1>3. Shows(t, TRUE) /\ flow' = flow
  BY DEF Succeed, Shows, ShowReceipt
<1>. QED
  BY <1>1, <1>2, <1>3 DEF Quits

LEMMA FailQuits ==
    ASSUME SimpleTypes, NEW t \in Tasks, NEW weight, Fail(t, weight)
    PROVE  Quits(t, weight, FALSE)
<1>1. /\ tasks' = tasks \ {t} /\ loading' = loading - weight
      /\ UNCHANGED <<challenge, acts, crossed, tokens>>
  BY DEF Fail, EndTask
<1>2. Forgets
  <2>1. CleanUp(t) \/ UNCHANGED store
    BY DEF Fail, store
  <2>. QED
    BY <2>1, ClearForgets
<1>3. Shows(t, FALSE) /\ flow' = flow
  BY DEF Fail, Shows, ShowReceipt, Shown, Tasks
<1>. QED
  BY <1>1, <1>2, <1>3 DEF Quits
------------------------------------------------------------------------------
(* The kinds of steps, as far as the invariants tell them apart.           *)

\* The user moves between the pages that take no part.
Idle ==
    /\ UNCHANGED <<acts, tokens, tasks, loading, wire, books, url>>
    /\ page' \in {"home", "form"} /\ challenge' \in {challenge, 0}
    /\ crossed' \in {crossed, TRUE} /\ receipt' \in {receipt, None}
    /\ kept' = kept \/ loading = 0 \/ crossed'
    /\ SimpleTypes' /\ (ScreenInv => ScreenInv')

Gone(t, at) == [t EXCEPT !.at = at]

\* A handler goes on to another stage without a request.
Goes(t) ==
    /\ \/ t.at = "check" /\ Move(t, [t EXCEPT !.at = "auth"]) /\ loading' = loading - 1
       \/ /\ t.at \in {"charge", "fallback"} /\ wire[t.req].state = "action" /\ loading' = loading
          /\ Move(t, [t EXCEPT !.at = "confirm"])
    /\ UNCHANGED <<page, flow, goods, store, challenge, url, acts, crossed, tokens, host, receipt>>

\* A handler ends, and the host does not notice.
Ended(t, ok) == Quits(t, Weight(t), ok) /\ UNCHANGED host

\* The card holder has authenticated, and the handler ends.
Concluded(t, state) ==
    /\ t.at = "confirm" /\ state \in {"booked", "pending", "refused"}
    /\ wire' = [wire EXCEPT ![t.req].state = state]
    /\ books' = IF state = "booked" THEN Append(books, t.act) ELSE books
    /\ Quits(t, 1, state # "refused")

\* The host decides about a request.
Decides(i, state) ==
    /\ wire[i].state \in {"sent", "pending"}
    /\ state \in {"action", "pending", "booked", "refused", "missing"}
    /\ state # "refused" => wire[i].goods # None
    /\ Settle(i, state)

\* A return page is loaded: from the issuer, or again.
Mounts(n, st, running, again) ==
    /\ n \in DOMAIN tokens /\ st \in {redux, Loaded} /\ running \in {{}, tasks}
    /\ IF again THEN n = url ELSE page = "issuer" /\ n = challenge /\ st = Loaded /\ running = {}
    /\ Mount(n, st, running, again)

Step ==
    \/ Idle
    \/ \E k \in Kinds : Press(k)
    \/ \E t \in tasks :
        \/ \E v \in BOOLEAN : TokenIssued(t, v) \/ AuthAnswered(t, v)
        \/ StripeMissing(t)
        \/ Goes(t) \/ CheckChallenges(t)
        \/ \E ok \in BOOLEAN : Ended(t, ok)
        \/ \E state \in {"booked", "pending", "refused"} : Concluded(t, state)
    \/ \E i \in DOMAIN wire, state \in {"action", "pending", "booked", "refused", "missing"} : Decides(i, state)
    \/ \E n \in DOMAIN tokens, st \in {redux, Loaded}, running \in {{}, tasks}, again \in BOOLEAN :
        Mounts(n, st, running, again)

LEMMA InvTypes ==
    ASSUME TypeInv
    PROVE  /\ SimpleTypes /\ tasks \subseteq Tasks /\ acts \in Seq(Acts) /\ wire \in Seq(Requests)
           /\ \A t \in tasks : /\ t \in Tasks /\ t.act \in DOMAIN acts
                               /\ t.token \in 0 .. Len(tokens) /\ t.req \in 0 .. Len(wire)
           /\ DOMAIN acts = 1 .. Len(acts) /\ DOMAIN wire = 1 .. Len(wire)
           /\ DOMAIN tokens = 1 .. Len(tokens) /\ Len(acts) \in Nat /\ Len(wire) \in Nat
           /\ Len(tokens) \in Nat
           /\ \A n \in DOMAIN tokens : /\ tokens[n].act \in DOMAIN acts /\ tokens[n].flow \in FlowKinds
                                       /\ tokens[n].goods \in Choice /\ tokens[n].vref \in BOOLEAN
           /\ \A a \in DOMAIN acts : acts[a] \in Acts
           /\ \A i \in DOMAIN wire : /\ wire[i] \in Requests /\ wire[i].act \in DOMAIN acts
                                     /\ wire[i].token \in 0 .. Len(tokens)
           /\ challenge \in 0 .. Len(tokens) /\ url \in 0 .. Len(tokens)
           /\ receipt = None \/ receipt \in [act : DOMAIN acts, ok : BOOLEAN]
           /\ page = "issuer" => challenge # 0
           /\ books \in Seq(DOMAIN acts)
<1>1. TypeOK /\ \A i \in DOMAIN wire : wire[i].act \in DOMAIN acts /\ wire[i].token \in 0 .. Len(tokens)
  BY DEF TypeInv
<1>2. SimpleTypes
  BY <1>1 DEF TypeOK, SimpleTypes
<1>3. /\ tasks \subseteq Tasks /\ acts \in Seq(Acts) /\ wire \in Seq(Requests)
      /\ tokens \in Seq([act : DOMAIN acts, flow : FlowKinds, goods : Choice, vref : BOOLEAN])
      /\ \A t \in tasks : /\ t.act \in DOMAIN acts
                          /\ t.token \in 0 .. Len(tokens) /\ t.req \in 0 .. Len(wire)
      /\ challenge \in 0 .. Len(tokens) /\ url \in 0 .. Len(tokens)
      /\ receipt = None \/ receipt \in [act : DOMAIN acts, ok : BOOLEAN]
      /\ page = "issuer" => challenge # 0
      /\ books \in Seq(DOMAIN acts)
  BY <1>1 DEF TypeOK
<1>4. /\ \A n \in DOMAIN tokens : tokens[n] \in [act : DOMAIN acts, flow : FlowKinds, goods : Choice, vref : BOOLEAN]
      /\ \A a \in DOMAIN acts : acts[a] \in Acts
      /\ \A i \in DOMAIN wire : wire[i] \in Requests
      /\ DOMAIN acts = 1 .. Len(acts) /\ DOMAIN wire = 1 .. Len(wire)
      /\ DOMAIN tokens = 1 .. Len(tokens) /\ Len(acts) \in Nat /\ Len(wire) \in Nat
      /\ Len(tokens) \in Nat
  BY <1>3, Elements
<1>5. \A n \in DOMAIN tokens : /\ tokens[n].act \in DOMAIN acts /\ tokens[n].flow \in FlowKinds
                               /\ tokens[n].goods \in Choice /\ tokens[n].vref \in BOOLEAN
  BY <1>4
<1>. QED
  BY <1>1, <1>2, <1>3, <1>4, <1>5

LEMMA IdleSteps ==
    ASSUME TypeInv, \/ \E f \in FlowKinds : Open(f)
                    \/ \E g \in Goods : Type(g)
                    \/ Leave \/ IssuerAbandoned
    PROVE  Idle
<1>1. SimpleTypes /\ kept \in Kept /\ redux \in Stored /\ None \in Choice /\ Goods \subseteq Choice
  BY InvTypes DEF SimpleTypes, Choice
<1>2. redux.deposit \in Choice /\ kept.deposit \in Choice /\ kept.mapped \in Choice
  BY <1>1 DEF Stored, Kept
<1>3. ASSUME NEW f \in FlowKinds, Open(f) PROVE Idle
  <2>1. /\ UNCHANGED <<acts, tokens, tasks, loading, wire, books, url, challenge, crossed, redux, kept>>
        /\ page' = "form" /\ receipt' = None /\ flow' = f
        /\ goods' \in IF f = "deposit" THEN {redux.deposit} ELSE Goods
    BY <1>3 DEF Open, store, host
  <2>2. SimpleTypes'
    BY <1>1, <1>2, <2>1 DEF SimpleTypes
  <2>3. ScreenInv => ScreenInv'
    BY <2>1 DEF ScreenInv
  <2>. QED
    BY <2>1, <2>2, <2>3 DEF Idle
<1>4. ASSUME NEW g \in Goods, Type(g) PROVE Idle
  <2>1. /\ UNCHANGED <<acts, tokens, tasks, loading, wire, books, url, challenge, page, flow, receipt>>
        /\ page = "form" /\ flow = "deposit" /\ goods' = g
        /\ redux' = [redux EXCEPT !.deposit = g] /\ kept' = [kept EXCEPT !.deposit = g]
    BY <1>4 DEF Type, host
  <2>2. redux' \in Stored /\ kept' \in Kept /\ redux'.deposit = g /\ kept'.deposit = g
    BY <1>1, <2>1 DEF Stored, Kept
  <2>3. crossed' = (crossed \/ loading > 0) /\ crossed \in BOOLEAN
    BY <1>1, <1>4 DEF Type, SimpleTypes
  <2>4. loading \in Nat
    BY DEF TypeInv, TypeOK
  <2>5. loading > 0 \/ loading = 0
    BY <2>4
  <2>6. crossed' \in {crossed, TRUE} /\ (loading = 0 \/ crossed') /\ crossed' \in BOOLEAN
    BY <2>3, <2>5
  <2>7. SimpleTypes'
    BY <1>1, <2>1, <2>2, <2>6 DEF SimpleTypes
  <2>8. ScreenInv => ScreenInv'
    BY <2>1, <2>2 DEF ScreenInv
  <2>. QED
    BY <2>1, <2>6, <2>7, <2>8 DEF Idle
<1>5. ASSUME Leave PROVE Idle
  <2>1. /\ UNCHANGED <<acts, tokens, tasks, loading, wire, books, url, challenge, crossed, redux, kept, flow, receipt>>
        /\ page' = "home" /\ goods' = None
    BY <1>5 DEF Leave, store, host
  <2>2. SimpleTypes'
    BY <1>1, <2>1 DEF SimpleTypes
  <2>3. ScreenInv => ScreenInv'
    BY <2>1 DEF ScreenInv
  <2>. QED
    BY <2>1, <2>2, <2>3 DEF Idle
<1>6. ASSUME IssuerAbandoned PROVE Idle
  <2>1. /\ UNCHANGED <<acts, tokens, tasks, loading, wire, books, url, crossed, kept, flow, goods, receipt>>
        /\ page' = "home" /\ challenge' = 0
        /\ redux' = [mapped |-> kept.mapped, deposit |-> kept.deposit]
    BY <1>6 DEF IssuerAbandoned, Loaded, host
  <2>2. redux' \in Stored /\ redux'.deposit = kept.deposit
    BY <1>2, <2>1 DEF Stored
  <2>3. SimpleTypes'
    BY <1>1, <2>1, <2>2 DEF SimpleTypes
  <2>4. ScreenInv => ScreenInv'
    BY <2>1, <2>2 DEF ScreenInv
  <2>. QED
    BY <2>1, <2>3, <2>4 DEF Idle
<1>. QED
  BY <1>3, <1>4, <1>5, <1>6

LEMMA TaskSteps ==
    ASSUME TypeInv, NEW t \in tasks, TaskStep(t)
    PROVE  Step
<1>1. SimpleTypes /\ t \in Tasks
  BY InvTypes
<1>2. t.at \in Stages /\ t.from \in {"form", "return"}
  BY <1>1 DEF Tasks
<1>4. ASSUME NEW w, w = Weight(t), Fail(t, w), UNCHANGED host PROVE Step
  <2>1. Quits(t, Weight(t), FALSE)
    BY <1>1, <1>4, FailQuits
  <2>. QED
    BY <1>4, <2>1 DEF Ended, Step
<1>5. ASSUME t.at # "check", Succeed(t), UNCHANGED host PROVE Step
  <2>1. Quits(t, Weight(t), TRUE)
    <3>1. Weight(t) = 1
      BY <1>5 DEF Weight
    <3>. QED
      BY <1>1, <1>5, <3>1, SucceedQuits
  <2>2. Ended(t, TRUE)
    BY <1>5, <2>1 DEF Ended
  <2>. QED
    BY <2>2 DEF Step
<1>6. ASSUME NEW v \in BOOLEAN, TokenIssued(t, v) \/ AuthAnswered(t, v) PROVE Step
  BY <1>6 DEF Step
<1>7. CASE TokenFails(t) \/ AuthFails(t)
  BY <1>4, <1>7 DEF TokenFails, AuthFails, Weight
<1>8. CASE CheckFails(t)
  BY <1>4, <1>8 DEF CheckFails, Weight
<1>9. CASE CheckPasses(t)
  <2>1. Goes(t)
    BY <1>9 DEF CheckPasses, Goes
  <2>. QED
    BY <2>1 DEF Step
<1>10. CASE CheckChallenges(t)
  BY <1>10 DEF Step
<1>11. ASSUME NEW unclear \in BOOLEAN, PostAnswered(t, unclear) PROVE Step
  <2>1. t.at = "post" /\ UNCHANGED host /\ (Succeed(t) \/ Fail(t, 1))
    BY <1>11 DEF PostAnswered
  <2>. QED
    BY <1>4, <1>5, <2>1 DEF Weight
<1>12. CASE PostLost(t) \/ StripeLost(t)
  <2>1. t.at # "check" /\ Fail(t, 1) /\ UNCHANGED host
    BY <1>12 DEF PostLost, StripeLost, Charging
  <2>. QED
    BY <1>4, <2>1 DEF Weight
<1>13. CASE StripeAnswered(t)
  <2>1. t.at \in {"charge", "fallback"} /\ UNCHANGED host
    BY <1>13 DEF StripeAnswered, Charging
  <2>2. CASE Succeed(t)
    BY <1>5, <2>1, <2>2
  <2>3. CASE Fail(t, 1)
    BY <1>4, <2>1, <2>3 DEF Weight
  <2>4. CASE /\ wire[t.req].state = "action" /\ Move(t, [t EXCEPT !.at = "confirm"])
             /\ UNCHANGED <<page, flow, goods, store, challenge, url, acts, crossed, tokens, loading, receipt>>
    <3>1. Goes(t)
      BY <2>1, <2>4 DEF Goes
    <3>. QED
      BY <3>1 DEF Step
  <2>. QED
    BY <1>13, <2>2, <2>3, <2>4 DEF StripeAnswered
<1>14. ASSUME NEW s \in {"booked", "pending", "refused"}, Confirmed(t, s) PROVE Step
  <2>1. Quits(t, 1, s # "refused")
    <3>1. CASE s = "refused"
      <4>1. Fail(t, 1)
        BY <1>14, <3>1 DEF Confirmed
      <4>2. Quits(t, 1, FALSE)
        BY <1>1, <4>1, FailQuits
      <4>. QED
        BY <3>1, <4>2
    <3>2. CASE s # "refused"
      <4>1. Succeed(t)
        BY <1>14, <3>2 DEF Confirmed
      <4>2. Quits(t, 1, TRUE)
        BY <1>1, <4>1, SucceedQuits
      <4>3. (s # "refused") = TRUE
        BY <3>2
      <4>. QED
        BY <4>2, <4>3
    <3>. QED
      BY <3>1, <3>2
  <2>2. Concluded(t, s)
    BY <1>14, <2>1 DEF Confirmed, Concluded
  <2>. QED
    BY <2>2 DEF Step
<1>15. CASE ConfirmSkipped(t)
  BY <1>5, <1>15 DEF ConfirmSkipped
<1>16. CASE StripeMissing(t)
  BY <1>16 DEF Step
<1>. QED
  BY <1>6, <1>7, <1>8, <1>9, <1>10, <1>11, <1>12, <1>13, <1>14, <1>15, <1>16 DEF TaskStep

LEMMA HostSteps ==
    ASSUME TypeInv, RequestInv, NEW i \in DOMAIN wire, HostStep(i)
    PROVE  Step
<1>1. wire[i].stripe \/ wire[i].state = "pending" => wire[i].goods # None
  BY DEF RequestInv
<1>2. ASSUME NEW ok \in BOOLEAN, HostHandles(i, ok) PROVE Step
  <2>1. Decides(i, IF ok THEN "booked" ELSE "refused")
    BY <1>2 DEF HostHandles, Decides
  <2>. QED
    BY <2>1 DEF Step
<1>3. ASSUME NEW ok \in BOOLEAN, StripeDecides(i, ok) PROVE Step
  <2>1. wire[i].state = "pending" /\ Settle(i, IF ok THEN "booked" ELSE "refused")
    BY <1>3 DEF StripeDecides
  <2>2. Decides(i, IF ok THEN "booked" ELSE "refused")
    BY <1>1, <2>1 DEF Decides
  <2>. QED
    BY <2>2 DEF Step
<1>4. ASSUME NEW s \in {"booked", "refused", "action", "pending", "missing"}, StripeHandles(i, s) PROVE Step
  <2>1. Decides(i, s)
    BY <1>1, <1>4 DEF StripeHandles, Decides
  <2>. QED
    BY <2>1 DEF Step
<1>. QED
  BY <1>2, <1>3, <1>4 DEF HostStep

LEMMA Steps ==
    ASSUME TypeInv, RequestInv, Next
    PROVE  Step
<1>1. /\ challenge \in 0 .. Len(tokens) /\ url \in 0 .. Len(tokens) /\ DOMAIN tokens = 1 .. Len(tokens)
      /\ page = "issuer" => challenge # 0
      /\ Len(tokens) \in Nat
  BY InvTypes
<1>2. (challenge # 0 => challenge \in DOMAIN tokens) /\ (url # 0 => url \in DOMAIN tokens)
  BY <1>1
<1>3. CASE IssuerReturns
  <2>1. Mounts(challenge, Loaded, {}, FALSE) /\ challenge \in DOMAIN tokens
    BY <1>1, <1>2, <1>3 DEF IssuerReturns, Mounts
  <2>. QED
    BY <2>1 DEF Step
<1>4. CASE Back
  <2>1. Mounts(url, redux, tasks, TRUE) /\ url \in DOMAIN tokens
    BY <1>2, <1>4 DEF Back, Mounts
  <2>. QED
    BY <2>1 DEF Step
<1>5. CASE Reload
  <2>1. Mounts(url, Loaded, {}, TRUE) /\ url \in DOMAIN tokens
    BY <1>2, <1>5 DEF Reload, Mounts
  <2>. QED
    BY <2>1 DEF Step
<1>6. CASE \/ \E f \in FlowKinds : Open(f)
           \/ \E g \in Goods : Type(g)
           \/ Leave \/ IssuerAbandoned
  <2>1. Idle
    BY <1>6, IdleSteps
  <2>. QED
    BY <2>1 DEF Step
<1>7. CASE \E k \in Kinds : Press(k)
  BY <1>7 DEF Step
<1>8. CASE \E t \in tasks : TaskStep(t)
  BY <1>8, TaskSteps
<1>9. CASE \E i \in DOMAIN wire : HostStep(i)
  BY <1>9, HostSteps
<1>. QED
  BY <1>3, <1>4, <1>5, <1>6, <1>7, <1>8, <1>9 DEF Next
------------------------------------------------------------------------------
(* What the kinds of steps do to the handlers and to the numbered things.  *)

PressStage(k) == CASE k = "stripe" -> "charge" [] k = "3ds" -> "token" [] OTHER -> "post"
Pressed(k) ==
    [act |-> NextAct, flow |-> flow, from |-> "form", kind |-> k, at |-> PressStage(k),
     goods |-> goods, token |-> 0, vref |-> 0, req |-> IF k = "3ds" THEN 0 ELSE Len(wire) + 1]
Request(t, vref, stripe) ==
    [act |-> t.act, flow |-> t.flow, goods |-> t.goods, token |-> t.token,
     vref |-> vref, stripe |-> stripe, state |-> "sent"]

Details(n, st) ==
    IF tokens[n].flow # "deposit" THEN st.mapped
    ELSE IF st.deposit # None THEN st.deposit ELSE kept.redirect.goods
Returned(n, st) ==
    [act |-> NextAct, flow |-> tokens[n].flow, from |-> "return", kind |-> "3ds", at |-> "auth",
     goods |-> Details(n, st), token |-> n,
     vref |-> IF tokens[n].flow = "deposit" THEN kept.redirect.vref ELSE 0, req |-> 0]

LEMMA PressEffect ==
    ASSUME TypeInv, ScreenInv, NEW k \in Kinds, Press(k)
    PROVE  /\ Pressed(k) \in Tasks /\ flow \in FlowKinds /\ goods \in Goods /\ page = "form"
           /\ loading = 0 \/ Keyboard
           /\ acts' = Append(acts, [flow |-> flow, goods |-> goods, of |-> NextAct, again |-> FALSE])
           /\ [flow |-> flow, goods |-> goods, of |-> NextAct, again |-> FALSE] \in Acts
           /\ crossed' = (crossed \/ loading > 0)
           /\ tasks' = tasks \cup {Pressed(k)} /\ loading' = loading + 1
           /\ k = "3ds" => wire' = wire
           /\ k # "3ds" => /\ wire' = Append(wire, Request(Pressed(k), 0, k = "stripe"))
                           /\ Request(Pressed(k), 0, k = "stripe") \in Requests
           /\ IF k = "3ds" /\ flow # "deposit"
                THEN /\ redux' = [redux EXCEPT !.mapped = goods]
                     /\ kept' = [kept EXCEPT !.mapped = goods]
                ELSE redux' = redux /\ kept' = kept
           /\ UNCHANGED <<page, flow, goods, challenge, url, tokens, books, receipt>>
<1>1. /\ page = "form" /\ goods # None /\ (loading = 0 \/ Keyboard)
      /\ acts' = Append(acts, [flow |-> flow, goods |-> goods, of |-> NextAct, again |-> FALSE])
      /\ crossed' = (crossed \/ loading > 0)
      /\ loading' = loading + 1
      /\ UNCHANGED <<page, flow, goods, challenge, url, tokens, books, receipt>>
  BY DEF Press, Reachable
<1>2. tasks' = tasks \cup {Pressed(k)}
  BY DEF Press, Pressed, PressStage
<1>3. /\ IF k = "3ds" /\ flow # "deposit"
           THEN /\ redux' = [redux EXCEPT !.mapped = goods]
                /\ kept' = [kept EXCEPT !.mapped = goods]
           ELSE redux' = redux /\ kept' = kept
      /\ k = "3ds" => wire' = wire
  BY DEF Press, store
<1>4. k # "3ds" => wire' = Append(wire, Request(Pressed(k), 0, k = "stripe"))
  BY DEF Press, Send, Request, Pressed, PressStage
<1>5. flow \in FlowKinds /\ goods \in Goods /\ goods \in Choice /\ k \in PayKinds
  BY <1>1, InvTypes, FlowAssumption DEF SimpleTypes, Choice, ScreenInv
<1>6. NextAct \in Nat /\ Len(wire) + 1 \in Nat /\ 0 \in Nat
  BY InvTypes DEF NextAct
<1>7. [flow |-> flow, goods |-> goods, of |-> NextAct, again |-> FALSE] \in Acts
  BY <1>5, <1>6 DEF Acts
<1>8. PressStage(k) \in Stages /\ (IF k = "3ds" THEN 0 ELSE Len(wire) + 1) \in Nat
  BY <1>6 DEF PressStage, Stages
<1>9. Pressed(k) \in Tasks
  BY <1>5, <1>6, <1>8 DEF Pressed, Tasks
<1>10. /\ NextAct \in Nat /\ flow \in FlowKinds /\ goods \in Choice /\ 0 \in Nat
       /\ (k = "stripe") \in BOOLEAN
       /\ Pressed(k).act = NextAct /\ Pressed(k).flow = flow /\ Pressed(k).goods = goods
       /\ Pressed(k).token = 0
  BY <1>5, <1>6 DEF Pressed
<1>11. Request(Pressed(k), 0, k = "stripe") \in Requests
  BY <1>10 DEF Request, Requests
<1>. QED
  BY <1>1, <1>2, <1>3, <1>4, <1>5, <1>7, <1>9, <1>11

\* A handler that has its token, and the token.
Issued(t, withVref) ==
    [t EXCEPT !.at = "check", !.token = Len(tokens) + 1, !.vref = IF withVref THEN Len(tokens) + 1 ELSE 0]
TokenOf(t, withVref) == [act |-> t.act, flow |-> t.flow, goods |-> t.goods, vref |-> withVref]

LEMMA IssueEffect ==
    ASSUME TypeInv, NEW t \in tasks, NEW v \in BOOLEAN, TokenIssued(t, v)
    PROVE  /\ t.at = "token" /\ Issued(t, v) \in Tasks
           /\ tokens' = Append(tokens, TokenOf(t, v))
           /\ TokenOf(t, v) \in [act : DOMAIN acts, flow : FlowKinds, goods : Choice, vref : BOOLEAN]
           /\ tasks' = (tasks \ {t}) \cup {Issued(t, v)} /\ loading' = loading + 1
           /\ kept' \in Kept /\ kept'.mapped = kept.mapped /\ kept'.deposit = kept.deposit
           /\ IF t.flow = "deposit"
                THEN /\ kept'.redirect = [goods |-> t.goods, vref |-> Issued(t, v).vref]
                     /\ kept'.vref = kept.vref
                ELSE kept'.redirect = kept.redirect /\ kept'.vref = IF v THEN Len(tokens) + 1 ELSE kept.vref
           /\ UNCHANGED <<page, flow, goods, redux, challenge, url, acts, crossed, wire, books, receipt>>
<1> DEFINE n == Len(tokens) + 1
           vref == IF v THEN n ELSE 0
<1>1. t \in Tasks /\ t.act \in DOMAIN acts /\ Len(tokens) \in Nat /\ kept \in Kept
  BY InvTypes DEF SimpleTypes
<1>2. n \in Nat /\ vref \in Nat
  BY <1>1
<1>3. /\ t.at = "token" /\ tokens' = Append(tokens, TokenOf(t, v))
      /\ tasks' = (tasks \ {t}) \cup {Issued(t, v)} /\ loading' = loading + 1
      /\ UNCHANGED <<page, flow, goods, redux, challenge, url, acts, crossed, wire, books, receipt>>
  BY DEF TokenIssued, Move, Issued, TokenOf, host
<1>4. kept' = IF t.flow = "deposit" THEN [kept EXCEPT !.redirect = [goods |-> t.goods, vref |-> vref]]
              ELSE IF v THEN [kept EXCEPT !.vref = n] ELSE kept
  BY DEF TokenIssued
<1> HIDE DEF n, vref
<1>5. t.flow \in FlowKinds /\ t.goods \in Choice
  BY <1>1 DEF Tasks
<1>6. TokenOf(t, v) \in [act : DOMAIN acts, flow : FlowKinds, goods : Choice, vref : BOOLEAN]
  BY <1>1, <1>5 DEF TokenOf
<1>7. Issued(t, v) \in Tasks /\ Issued(t, v).vref = vref
  <2>1. Issued(t, v) = [t EXCEPT !.at = "check", !.token = n, !.vref = vref]
    BY DEF Issued, n, vref
  <2>. QED
    BY <1>1, <1>2, <2>1 DEF Tasks, Stages
<1>8. [goods |-> t.goods, vref |-> vref] \in Redirects
  BY <1>2, <1>5 DEF Redirects
<1>9. /\ kept' \in Kept /\ kept'.mapped = kept.mapped /\ kept'.deposit = kept.deposit
      /\ IF t.flow = "deposit"
           THEN kept'.redirect = [goods |-> t.goods, vref |-> vref] /\ kept'.vref = kept.vref
           ELSE kept'.redirect = kept.redirect /\ kept'.vref = IF v THEN n ELSE kept.vref
  BY <1>1, <1>2, <1>4, <1>8 DEF Kept
<1>. QED
  BY <1>3, <1>6, <1>7, <1>9 DEF n

\* A handler that posts with the authentication result.
Posting(t, vref) == [t EXCEPT !.at = "post", !.vref = vref, !.req = Len(wire) + 1]

LEMMA PostingFields ==
    ASSUME NEW t \in Tasks, NEW vref \in Nat, Len(wire) \in Nat
    PROVE  /\ Posting(t, vref) \in Tasks /\ Posting(t, vref).at = "post"
           /\ Posting(t, vref).vref = vref /\ Posting(t, vref).req = Len(wire) + 1
           /\ Posting(t, vref).act = t.act /\ Posting(t, vref).flow = t.flow
           /\ Posting(t, vref).from = t.from /\ Posting(t, vref).goods = t.goods
           /\ Posting(t, vref).token = t.token
<1> DEFINE m == Len(wire) + 1
<1>1. m \in Nat
  OBVIOUS
<1> HIDE DEF m
<1>2. Posting(t, vref) = [t EXCEPT !.at = "post", !.vref = vref, !.req = m]
  BY DEF Posting, m
<1>3. Posting(t, vref).req = Len(wire) + 1
  BY <1>2 DEF m, Tasks
<1>. QED
  BY <1>1, <1>2, <1>3 DEF Tasks, Stages

LEMMA IssuedFields ==
    ASSUME NEW t \in Tasks, NEW v \in BOOLEAN, Len(tokens) \in Nat
    PROVE  /\ Issued(t, v).at = "check" /\ Issued(t, v).token = Len(tokens) + 1
           /\ Issued(t, v).vref = (IF v THEN Len(tokens) + 1 ELSE 0)
           /\ Issued(t, v).act = t.act /\ Issued(t, v).flow = t.flow
           /\ Issued(t, v).from = t.from /\ Issued(t, v).goods = t.goods
           /\ Issued(t, v).req = t.req
BY DEF Issued, Tasks

LEMMA GoesFields ==
    ASSUME NEW t \in Tasks, NEW at \in Stages
    PROVE  /\ Gone(t, at) \in Tasks /\ Gone(t, at).at = at /\ Gone(t, at).act = t.act
           /\ Gone(t, at).flow = t.flow /\ Gone(t, at).from = t.from
           /\ Gone(t, at).goods = t.goods /\ Gone(t, at).token = t.token
           /\ Gone(t, at).vref = t.vref /\ Gone(t, at).req = t.req
BY DEF Tasks, Gone

LEMMA AuthEffect ==
    ASSUME TypeInv, DeedInv, NEW t \in tasks, NEW v \in BOOLEAN, AuthAnswered(t, v)
    PROVE  \E vref \in Nat :
             /\ t.at = "auth" /\ Posting(t, vref) \in Tasks
             /\ wire' = Append(wire, Request(t, vref, FALSE)) /\ Request(t, vref, FALSE) \in Requests
             /\ tasks' = (tasks \ {t}) \cup {Posting(t, vref)}
             /\ kept' \in Kept /\ kept'.mapped = kept.mapped /\ kept'.deposit = kept.deposit
             /\ kept'.redirect = kept.redirect
             /\ kept'.vref = IF t.from = "return" /\ t.flow # "deposit" THEN 0 ELSE kept.vref
             /\ vref \in {t.token, IF t.from = "form" \/ t.flow = "deposit" THEN t.vref ELSE kept.vref}
             /\ UNCHANGED <<page, flow, goods, redux, challenge, url, acts, crossed, tokens, loading, books, receipt>>
<1> DEFINE stored == IF t.flow = "deposit" THEN t.vref ELSE kept.vref
           vref == IF t.from = "form" THEN t.vref ELSE IF v THEN t.token ELSE stored
<1>1. t \in Tasks /\ kept \in Kept /\ Len(wire) \in Nat
  BY InvTypes DEF SimpleTypes
<1>2. vref \in Nat /\ t.flow \in FlowKinds /\ t.goods \in Choice /\ t.act \in Nat /\ t.token \in Nat
  BY <1>1 DEF Tasks, Kept
<1>3. /\ t.at = "auth" /\ wire' = Append(wire, Request(t, vref, FALSE))
      /\ tasks' = (tasks \ {t}) \cup {Posting(t, vref)}
      /\ UNCHANGED <<page, flow, goods, redux, challenge, url, acts, crossed, tokens, loading, books, receipt>>
  BY DEF AuthAnswered, Move, Send, Posting, Request
<1>4. kept' = IF t.from = "return" /\ t.flow # "deposit" THEN [kept EXCEPT !.vref = 0] ELSE kept
  BY DEF AuthAnswered
<1>5. vref \in {t.token, IF t.from = "form" \/ t.flow = "deposit" THEN t.vref ELSE kept.vref}
  OBVIOUS
<1> HIDE DEF stored, vref
<1>6. Request(t, vref, FALSE) \in Requests
  BY <1>2 DEF Request, Requests
<1>7. Posting(t, vref) \in Tasks
  BY <1>1, <1>2, PostingFields
<1>8. /\ kept' \in Kept /\ kept'.mapped = kept.mapped /\ kept'.deposit = kept.deposit
      /\ kept'.redirect = kept.redirect
      /\ kept'.vref = IF t.from = "return" /\ t.flow # "deposit" THEN 0 ELSE kept.vref
  BY <1>1, <1>4 DEF Kept
<1>. QED
  BY <1>2, <1>3, <1>5, <1>6, <1>7, <1>8

\* A handler that posts its charge to the older address.
FallingBack(t) == [t EXCEPT !.at = "fallback", !.req = Len(wire) + 1]

LEMMA MissingEffect ==
    ASSUME TypeInv, DeedInv, NEW t \in tasks, StripeMissing(t)
    PROVE  /\ t.at = "charge" /\ t.from = "form" /\ wire[t.req].state = "missing"
           /\ wire' = Append(wire, Request(t, 0, TRUE)) /\ Request(t, 0, TRUE) \in Requests
           /\ Request(t, 0, TRUE).act = t.act /\ Request(t, 0, TRUE).goods = t.goods
           /\ Request(t, 0, TRUE).token = t.token /\ Request(t, 0, TRUE).vref = 0
           /\ Request(t, 0, TRUE).stripe = TRUE /\ Request(t, 0, TRUE).state = "sent"
           /\ tasks' = (tasks \ {t}) \cup {FallingBack(t)} /\ FallingBack(t) \in Tasks
           /\ FallingBack(t).at = "fallback" /\ FallingBack(t).req = Len(wire) + 1
           /\ FallingBack(t).act = t.act /\ FallingBack(t).flow = t.flow
           /\ FallingBack(t).from = t.from /\ FallingBack(t).goods = t.goods
           /\ FallingBack(t).token = t.token /\ FallingBack(t).vref = t.vref
           /\ UNCHANGED <<page, flow, goods, redux, kept, challenge, url, acts, crossed, tokens,
                          loading, books, receipt>>
<1>1. t \in Tasks /\ Deed(t) /\ Len(wire) \in Nat
  BY InvTypes DEF DeedInv
<1>2. /\ t.at = "charge" /\ wire[t.req].state = "missing"
      /\ wire' = Append(wire, Request(t, 0, TRUE))
      /\ tasks' = (tasks \ {t}) \cup {FallingBack(t)}
      /\ UNCHANGED <<page, flow, goods, redux, kept, challenge, url, acts, crossed, tokens,
                     loading, books, receipt>>
  BY DEF StripeMissing, Send, Request, Move, FallingBack, store
<1>3. t.from = "form"
  BY <1>1, <1>2 DEF Deed, OfReturn, Tasks
<1>4. t.flow \in FlowKinds /\ t.goods \in Choice /\ t.act \in Nat /\ t.token \in Nat /\ 0 \in Nat
  BY <1>1 DEF Tasks
<1>5. Request(t, 0, TRUE) \in Requests
  BY <1>4 DEF Request, Requests
<1>6. /\ Request(t, 0, TRUE).act = t.act /\ Request(t, 0, TRUE).goods = t.goods
      /\ Request(t, 0, TRUE).token = t.token /\ Request(t, 0, TRUE).vref = 0
      /\ Request(t, 0, TRUE).stripe = TRUE /\ Request(t, 0, TRUE).state = "sent"
  BY DEF Request
<1> DEFINE m == Len(wire) + 1
<1>7. m \in Nat /\ FallingBack(t) = [t EXCEPT !.at = "fallback", !.req = m]
  BY <1>1 DEF FallingBack
<1> HIDE DEF m
<1>8. /\ FallingBack(t) \in Tasks /\ FallingBack(t).at = "fallback" /\ FallingBack(t).req = m
      /\ FallingBack(t).act = t.act /\ FallingBack(t).flow = t.flow
      /\ FallingBack(t).from = t.from /\ FallingBack(t).goods = t.goods
      /\ FallingBack(t).token = t.token /\ FallingBack(t).vref = t.vref
  BY <1>1, <1>7 DEF Tasks, Stages
<1>. QED
  BY <1>2, <1>3, <1>5, <1>6, <1>8 DEF m

\* A return page shows, with a handler unless it has nothing to post.
LEMMA MountEffect ==
    ASSUME TypeInv, NEW n \in DOMAIN tokens, NEW st \in {redux, Loaded}, NEW running \in {{}, tasks},
           NEW again \in BOOLEAN, Mounts(n, st, running, again)
    PROVE  /\ page' = "return" /\ flow' = tokens[n].flow /\ goods' = None /\ url' = n /\ challenge' = 0
           /\ redux' = st /\ st \in Stored /\ receipt' = None /\ Details(n, st) \in Choice
           /\ UNCHANGED <<kept, crossed, tokens, wire, books>>
           /\ n # 0 /\ (again => n = url)
           /\ ~again => page = "issuer" /\ n = challenge /\ st = Loaded /\ running = {}
           /\ \/ /\ tasks' = running /\ UNCHANGED acts
                 /\ loading' = IF running = {} THEN 0 ELSE loading
              \/ /\ acts' = Append(acts, [flow |-> tokens[n].flow, goods |-> Details(n, st),
                                          of |-> tokens[n].act, again |-> again])
                 /\ [flow |-> tokens[n].flow, goods |-> Details(n, st),
                     of |-> tokens[n].act, again |-> again] \in Acts
                 /\ tasks' = running \cup {Returned(n, st)} /\ Returned(n, st) \in Tasks
                 /\ loading' = 1 + (IF running = {} THEN 0 ELSE loading)
<1>1. /\ tokens[n].flow \in FlowKinds /\ tokens[n].act \in DOMAIN acts /\ Len(acts) \in Nat
      /\ DOMAIN acts = 1 .. Len(acts) /\ n \in 1 .. Len(tokens) /\ Len(tokens) \in Nat
      /\ kept \in Kept /\ redux \in Stored
  BY InvTypes DEF SimpleTypes
<1>2. st \in Stored
  BY <1>1 DEF Loaded, Stored, Kept
<1>3. Details(n, st) \in Choice
  BY <1>1, <1>2 DEF Details, Stored, Kept, Redirects
<1>4. n \in Nat /\ n # 0 /\ NextAct \in Nat /\ tokens[n].act \in Nat /\ 0 \in Nat /\ kept.redirect.vref \in Nat
  BY <1>1 DEF NextAct, Kept, Redirects
<1>5. [flow |-> tokens[n].flow, goods |-> Details(n, st), of |-> tokens[n].act, again |-> again] \in Acts
  BY <1>1, <1>3, <1>4 DEF Acts
<1>6. Returned(n, st) \in Tasks
  <2>1. (IF tokens[n].flow = "deposit" THEN kept.redirect.vref ELSE 0) \in Nat
    BY <1>4
  <2>. QED
    BY <1>1, <1>3, <1>4, <2>1 DEF Returned, Tasks, Stages, PayKinds
<1>7. /\ page' = "return" /\ flow' = tokens[n].flow /\ goods' = None /\ url' = n /\ challenge' = 0
      /\ redux' = st /\ receipt' = None
      /\ UNCHANGED <<kept, crossed, tokens, wire, books>>
  BY DEF Mounts, Mount, host
<1>8. (again => n = url) /\ (~again => page = "issuer" /\ n = challenge /\ st = Loaded /\ running = {})
  BY DEF Mounts
<1>9. Mount(n, st, running, again)
  BY DEF Mounts
<1>10. \/ /\ tasks' = running /\ UNCHANGED acts
          /\ loading' = IF running = {} THEN 0 ELSE loading
       \/ /\ acts' = Append(acts, [flow |-> tokens[n].flow, goods |-> Details(n, st),
                                   of |-> tokens[n].act, again |-> again])
          /\ tasks' = running \cup {Returned(n, st)}
          /\ loading' = (IF running = {} THEN 0 ELSE loading) + 1
  BY <1>9 DEF Mount, Details, Returned
<1>11. (IF running = {} THEN 0 ELSE loading) + 1 = 1 + (IF running = {} THEN 0 ELSE loading)
  BY DEF TypeInv, TypeOK
<1>. QED
  BY <1>2, <1>3, <1>4, <1>5, <1>6, <1>7, <1>8, <1>10, <1>11
------------------------------------------------------------------------------
(* The loader counts the handlers.                                         *)

LEMMA LoadAfter ==
    ASSUME IsFiniteSet(tasks'), loading' = Load(tasks'),
           \A t, u \in tasks' : t.act = u.act => t = u
    PROVE  LoadInv'
BY DEF LoadInv, LoaderBalanced, Load, Checks

LEMMA LoadNow ==
    ASSUME LoadInv
    PROVE  /\ IsFiniteSet(tasks) /\ loading = Load(tasks) /\ loading \in Nat
           /\ tasks # {} => loading > 0
           /\ \A t, u \in tasks : t.act = u.act => t = u
<1>1. IsFiniteSet(tasks) /\ loading = Load(tasks) /\ \A t, u \in tasks : t.act = u.act => t = u
  BY DEF LoadInv, LoaderBalanced, Load, Checks
<1>. QED
  BY <1>1, LoadNat

LEMMA LoadMoved ==
    ASSUME LoadInv, NEW t \in tasks, NEW u, u.act = t.act,
           tasks' = (tasks \ {t}) \cup {u}, loading' = loading - Weight(t) + Weight(u)
    PROVE  LoadInv'
<1>1. u \notin tasks \ {t}
  BY LoadNow
<1>2. IsFiniteSet(tasks') /\ loading' = Load(tasks')
  BY <1>1, LoadNow, LoadMove
<1>3. \A x, y \in tasks' : x.act = y.act => x = y
  BY LoadNow
<1>. QED
  BY <1>2, <1>3, LoadAfter

LEMMA LoadLess ==
    ASSUME LoadInv, NEW t \in tasks, tasks' = tasks \ {t}, loading' = loading - Weight(t)
    PROVE  LoadInv'
<1>1. IsFiniteSet(tasks') /\ loading' = Load(tasks')
  BY LoadNow, LoadRemove
<1>2. \A x, y \in tasks' : x.act = y.act => x = y
  BY LoadNow
<1>. QED
  BY <1>1, <1>2, LoadAfter

LEMMA LoadMore ==
    ASSUME TypeInv, LoadInv, NEW running \in {{}, tasks}, NEW u, u.act = Len(acts) + 1, u.at # "check",
           tasks' = running \cup {u}, loading' = 1 + (IF running = {} THEN 0 ELSE loading)
    PROVE  LoadInv'
<1>1. \A t \in running : t.act \in 1 .. Len(acts) /\ Len(acts) \in Nat
  BY InvTypes
<1>2. u \notin running
  BY <1>1
<1>3. IsFiniteSet(running) /\ (IF running = {} THEN 0 ELSE loading) = Load(running)
  <2>1. Checks({}) = {}
    BY DEF Checks
  <2>2. Load({}) = 0
    BY <2>1, FS_EmptySet DEF Load
  <2>. QED
    BY <2>2, LoadNow, FS_EmptySet
<1>4. IsFiniteSet(tasks') /\ Load(tasks') = Load(running) + 1
  BY <1>2, <1>3, LoadAdd DEF Weight
<1>5. Load(running) \in Nat
  BY <1>3, LoadNat
<1>6. loading' = Load(tasks')
  BY <1>3, <1>4, <1>5
<1>7. \A x, y \in tasks' : x.act = y.act => x = y
  BY <1>1, LoadNow
<1>. QED
  BY <1>4, <1>6, <1>7, LoadAfter

LEMMA LoadKept ==
    ASSUME TypeInv, LoadInv, DeedInv, ScreenInv, Step
    PROVE  LoadInv'
<1>1. \A t \in tasks : t \in Tasks
  BY InvTypes
<1>2. loading \in Nat /\ Len(tokens) \in Nat /\ Len(wire) \in Nat
  BY LoadNow, InvTypes
<1>3. ASSUME UNCHANGED <<tasks, loading>> PROVE LoadInv'
  BY <1>3, LoadNow, LoadAfter
<1>4. CASE Idle
  BY <1>3, <1>4 DEF Idle
<1>5. ASSUME NEW k \in Kinds, Press(k) PROVE LoadInv'
  <2>1. tasks' = tasks \cup {Pressed(k)} /\ loading' = loading + 1
    BY <1>5, PressEffect
  <2>2. Pressed(k).act = Len(acts) + 1 /\ Pressed(k).at # "check"
    BY DEF Pressed, NextAct, PressStage
  <2>3. loading' = 1 + (IF tasks = {} THEN 0 ELSE loading)
    <3>1. Checks({}) = {}
      BY DEF Checks
    <3>2. Load({}) = 0
      BY <3>1, FS_EmptySet DEF Load
    <3>3. tasks = {} => loading = 0
      BY <3>2, LoadNow
    <3>. QED
      BY <1>2, <2>1, <3>3
  <2>. QED
    BY <2>1, <2>2, <2>3, LoadMore
<1>6. ASSUME NEW t \in tasks, NEW v \in BOOLEAN, TokenIssued(t, v) PROVE LoadInv'
  <2>1. /\ t.at = "token" /\ tasks' = (tasks \ {t}) \cup {Issued(t, v)} /\ loading' = loading + 1
    BY <1>6, IssueEffect
  <2>2. Issued(t, v).act = t.act /\ Issued(t, v).at = "check"
    BY <1>1, <1>2, IssuedFields
  <2>3. loading' = loading - Weight(t) + Weight(Issued(t, v))
    BY <1>2, <2>1, <2>2 DEF Weight
  <2>. QED
    BY <2>1, <2>2, <2>3, LoadMoved
<1>7. ASSUME NEW t \in tasks, NEW v \in BOOLEAN, AuthAnswered(t, v) PROVE LoadInv'
  <2>1. PICK vref \in Nat : /\ t.at = "auth" /\ tasks' = (tasks \ {t}) \cup {Posting(t, vref)}
                            /\ loading' = loading
    BY <1>7, AuthEffect
  <2>2. Posting(t, vref).act = t.act /\ Posting(t, vref).at = "post"
    BY <1>1, <1>2, PostingFields
  <2>3. loading' = loading - Weight(t) + Weight(Posting(t, vref))
    BY <1>2, <2>1, <2>2 DEF Weight
  <2>. QED
    BY <2>1, <2>2, <2>3, LoadMoved
<1>8. ASSUME NEW t \in tasks, Goes(t) PROVE LoadInv'
  <2>1. PICK at \in {"auth", "confirm"} :
            /\ tasks' = (tasks \ {t}) \cup {Gone(t, at)}
            /\ loading' = IF t.at = "check" THEN loading - 1 ELSE loading
    BY <1>8 DEF Goes, Move, Gone
  <2>2. Gone(t, at).act = t.act /\ Gone(t, at).at = at
    BY <1>1, GoesFields DEF Stages
  <2>3. loading' = loading - Weight(t) + Weight(Gone(t, at))
    BY <1>2, <2>1, <2>2 DEF Weight
  <2>. QED
    BY <2>1, <2>2, <2>3, LoadMoved
<1>9. ASSUME NEW t \in tasks, CheckChallenges(t) PROVE LoadInv'
  <2>1. tasks' = {} /\ loading' = 0
    BY <1>9 DEF CheckChallenges
  <2>2. Checks({}) = {}
    BY DEF Checks
  <2>3. Load({}) = 0 /\ IsFiniteSet({})
    BY <2>2, FS_EmptySet DEF Load
  <2>. QED
    BY <2>1, <2>3, LoadAfter
<1>10. ASSUME NEW t \in tasks, NEW ok \in BOOLEAN, Ended(t, ok) PROVE LoadInv'
  BY <1>10, LoadLess DEF Ended, Quits
<1>11. ASSUME NEW t \in tasks, NEW s \in {"booked", "pending", "refused"}, Concluded(t, s) PROVE LoadInv'
  BY <1>11, LoadLess DEF Concluded, Quits, Weight
<1>12. ASSUME NEW i \in DOMAIN wire, NEW s, Decides(i, s) PROVE LoadInv'
  BY <1>3, <1>12 DEF Decides, Settle
<1>13. ASSUME NEW n \in DOMAIN tokens, NEW st \in {redux, Loaded}, NEW running \in {{}, tasks},
              NEW again \in BOOLEAN, Mounts(n, st, running, again)
       PROVE  LoadInv'
  <2>1. CASE tasks' = running /\ loading' = IF running = {} THEN 0 ELSE loading
    <3>1. Checks({}) = {}
      BY DEF Checks
    <3>2. Load({}) = 0 /\ IsFiniteSet({})
      BY <3>1, FS_EmptySet DEF Load
    <3>. QED
      BY <2>1, <3>2, LoadNow, LoadAfter
  <2>2. CASE /\ tasks' = running \cup {Returned(n, st)}
             /\ loading' = 1 + (IF running = {} THEN 0 ELSE loading)
    <3>1. Returned(n, st).act = Len(acts) + 1 /\ Returned(n, st).at # "check"
      BY DEF Returned, NextAct
    <3>. QED
      BY <2>2, <3>1, LoadMore
  <2>. QED
    BY <1>13, <2>1, <2>2, MountEffect
<1>14. ASSUME NEW t \in tasks, StripeMissing(t) PROVE LoadInv'
  <2>1. FallingBack(t).act = t.act /\ Weight(FallingBack(t)) = Weight(t) /\ Weight(t) \in Nat
    BY <1>14, MissingEffect DEF Weight
  <2>2. loading' = loading
    BY <1>14, MissingEffect
  <2>3. loading' = loading - Weight(t) + Weight(FallingBack(t))
    BY <1>2, <2>1, <2>2
  <2>. QED
    BY <1>14, <2>1, <2>3, MissingEffect, LoadMoved
<1>. QED
  BY <1>4, <1>5, <1>6, <1>7, <1>8, <1>9, <1>10, <1>11, <1>12, <1>13, <1>14 DEF Step
------------------------------------------------------------------------------
(* Types.                                                                  *)

\* What the acts and the tokens were they stay.
Keeps ==
    /\ acts' \in Seq(Acts) /\ DOMAIN acts \subseteq DOMAIN acts'
    /\ tokens' \in Seq([act : DOMAIN acts', flow : FlowKinds, goods : Choice, vref : BOOLEAN])
    /\ Len(tokens') \in Nat /\ Len(tokens') >= Len(tokens)
    /\ wire' \in Seq(Requests) /\ Len(wire') \in Nat /\ Len(wire') >= Len(wire)
    /\ \A i \in DOMAIN wire' : wire'[i].act \in DOMAIN acts' /\ wire'[i].token \in 0 .. Len(tokens')
    /\ books' \in Seq(DOMAIN acts')

LEMMA SeqWiden ==
    ASSUME NEW A, NEW B, A \subseteq B, NEW s \in Seq(A)
    PROVE  s \in Seq(B)
OBVIOUS

LEMMA TokensWiden ==
    ASSUME NEW A, NEW B, A \subseteq B,
           NEW s \in Seq([act : A, flow : FlowKinds, goods : Choice, vref : BOOLEAN])
    PROVE  s \in Seq([act : B, flow : FlowKinds, goods : Choice, vref : BOOLEAN])
<1>1. [act : A, flow : FlowKinds, goods : Choice, vref : BOOLEAN]
        \subseteq [act : B, flow : FlowKinds, goods : Choice, vref : BOOLEAN]
  OBVIOUS
<1>. QED
  BY <1>1, SeqWiden

LEMMA TypeTokens ==
    ASSUME TypeInv
    PROVE  tokens \in Seq([act : DOMAIN acts, flow : FlowKinds, goods : Choice, vref : BOOLEAN])
BY DEF TypeInv, TypeOK

LEMMA KeepAll ==
    ASSUME TypeInv, UNCHANGED <<acts, tokens, wire, books>>
    PROVE  Keeps
<1>1. /\ acts \in Seq(Acts) /\ wire \in Seq(Requests) /\ books \in Seq(DOMAIN acts)
      /\ \A i \in DOMAIN wire : wire[i].act \in DOMAIN acts /\ wire[i].token \in 0 .. Len(tokens)
      /\ Len(tokens) \in Nat /\ Len(wire) \in Nat
  BY InvTypes
<1>. QED
  BY <1>1, TypeTokens DEF Keeps

LEMMA KeepActs ==
    ASSUME TypeInv, NEW a \in Acts, acts' = Append(acts, a), UNCHANGED <<tokens, books>>,
           \/ wire' = wire
           \/ \E r \in Requests : r.act = Len(acts) + 1 /\ r.token = 0 /\ wire' = Append(wire, r)
    PROVE  Keeps
<1>1. /\ acts \in Seq(Acts) /\ wire \in Seq(Requests) /\ books \in Seq(DOMAIN acts)
      /\ \A i \in DOMAIN wire : wire[i].act \in DOMAIN acts /\ wire[i].token \in 0 .. Len(tokens)
      /\ Len(tokens) \in Nat /\ Len(wire) \in Nat /\ Len(acts) \in Nat
  BY InvTypes
<1>2. /\ acts' \in Seq(Acts) /\ DOMAIN acts \subseteq DOMAIN acts' /\ Len(acts) + 1 \in DOMAIN acts'
  BY <1>1, Appended
<1>3. /\ tokens' \in Seq([act : DOMAIN acts', flow : FlowKinds, goods : Choice, vref : BOOLEAN])
      /\ Len(tokens') \in Nat /\ Len(tokens') >= Len(tokens)
  <2>1. tokens \in Seq([act : DOMAIN acts', flow : FlowKinds, goods : Choice, vref : BOOLEAN])
    BY <1>2, TypeTokens, TokensWiden
  <2>2. tokens' = tokens /\ Len(tokens) >= Len(tokens)
    BY <1>1
  <2>. QED
    BY <1>1, <2>1, <2>2
<1>4. books' \in Seq(DOMAIN acts')
  BY <1>1, <1>2, SeqWiden
<1>5. CASE wire' = wire
  BY <1>1, <1>2, <1>3, <1>4, <1>5 DEF Keeps
<1>6. CASE \E r \in Requests : r.act = Len(acts) + 1 /\ r.token = 0 /\ wire' = Append(wire, r)
  <2>1. PICK r \in Requests : r.act = Len(acts) + 1 /\ r.token = 0 /\ wire' = Append(wire, r)
    BY <1>6
  <2>2. /\ wire' \in Seq(Requests) /\ Len(wire') = Len(wire) + 1 /\ wire'[Len(wire) + 1] = r
        /\ \A i \in DOMAIN wire : wire'[i] = wire[i]
        /\ \A i \in DOMAIN wire' : i \in DOMAIN wire \/ i = Len(wire) + 1
    BY <1>1, <2>1, Appended
  <2>3. 0 \in 0 .. Len(tokens)
    BY <1>1
  <2>4. \A i \in DOMAIN wire' : wire'[i].act \in DOMAIN acts' /\ wire'[i].token \in 0 .. Len(tokens)
    BY <1>1, <1>2, <2>1, <2>2, <2>3
  <2>5. Len(wire') \in Nat /\ Len(wire') >= Len(wire)
    BY <1>1, <2>2
  <2>6. tokens' = tokens
    OBVIOUS
  <2>. QED
    BY <1>2, <1>3, <1>4, <2>2, <2>4, <2>5, <2>6 DEF Keeps
<1>. QED
  BY <1>5, <1>6

LEMMA KeepTokens ==
    ASSUME TypeInv, UNCHANGED <<acts, wire, books>>,
           NEW k \in [act : DOMAIN acts, flow : FlowKinds, goods : Choice, vref : BOOLEAN],
           tokens' = Append(tokens, k)
    PROVE  Keeps /\ Len(tokens') = Len(tokens) + 1
<1>1. /\ acts \in Seq(Acts) /\ wire \in Seq(Requests) /\ books \in Seq(DOMAIN acts)
      /\ \A i \in DOMAIN wire : wire[i].act \in DOMAIN acts /\ wire[i].token \in 0 .. Len(tokens)
      /\ Len(tokens) \in Nat /\ Len(wire) \in Nat
  BY InvTypes
<1>2. /\ tokens' \in Seq([act : DOMAIN acts, flow : FlowKinds, goods : Choice, vref : BOOLEAN])
      /\ Len(tokens') = Len(tokens) + 1
  BY TypeTokens, Appended
<1>3. \A i \in 0 .. Len(tokens) : i \in 0 .. Len(tokens')
  BY <1>1, <1>2
<1>. QED
  BY <1>1, <1>2, <1>3 DEF Keeps

LEMMA KeepWire ==
    ASSUME TypeInv, UNCHANGED <<acts, tokens>>, NEW r \in Requests, r.act \in DOMAIN acts,
           r.token \in 0 .. Len(tokens), wire' = Append(wire, r), books' = books
    PROVE  Keeps /\ Len(wire') = Len(wire) + 1
<1>1. /\ acts \in Seq(Acts) /\ wire \in Seq(Requests) /\ books \in Seq(DOMAIN acts)
      /\ \A i \in DOMAIN wire : wire[i].act \in DOMAIN acts /\ wire[i].token \in 0 .. Len(tokens)
      /\ Len(tokens) \in Nat /\ Len(wire) \in Nat
  BY InvTypes
<1>2. /\ wire' \in Seq(Requests) /\ Len(wire') = Len(wire) + 1 /\ wire'[Len(wire) + 1] = r
      /\ \A i \in DOMAIN wire : wire'[i] = wire[i]
      /\ \A i \in DOMAIN wire' : i \in DOMAIN wire \/ i = Len(wire) + 1
  BY <1>1, Appended
<1>3. \A i \in DOMAIN wire' : wire'[i].act \in DOMAIN acts /\ wire'[i].token \in 0 .. Len(tokens)
  BY <1>1, <1>2
<1>. QED
  BY <1>1, <1>2, <1>3, TypeTokens DEF Keeps

\* Whoever decides about a request changes nothing but its state, and books its act.
StateIs(i, state) ==
    /\ wire' = [wire EXCEPT ![i].state = state]
    /\ books' = IF state = "booked" THEN Append(books, wire[i].act) ELSE books

LEMMA Stated ==
    ASSUME TypeInv, NEW i \in DOMAIN wire, NEW state \in {"action", "pending", "booked", "refused", "missing"},
           StateIs(i, state)
    PROVE  /\ wire' \in Seq(Requests) /\ Len(wire') = Len(wire) /\ DOMAIN wire' = DOMAIN wire
           /\ \A j \in DOMAIN wire :
                /\ wire'[j].act = wire[j].act /\ wire'[j].goods = wire[j].goods
                /\ wire'[j].token = wire[j].token /\ wire'[j].vref = wire[j].vref
                /\ wire'[j].stripe = wire[j].stripe
                /\ wire'[j].state = IF j = i THEN state ELSE wire[j].state
           /\ books' \in Seq(DOMAIN acts)
<1>1. /\ wire \in Seq(Requests) /\ books \in Seq(DOMAIN acts) /\ wire[i].act \in DOMAIN acts
      /\ \A j \in DOMAIN wire : wire[j] \in Requests
  BY InvTypes
<1>2. [wire[i] EXCEPT !.state = state] \in Requests
  BY <1>1 DEF Requests
<1>3. wire' = [wire EXCEPT ![i] = [wire[i] EXCEPT !.state = state]]
  BY DEF StateIs
<1>4. wire' \in Seq(Requests) /\ Len(wire') = Len(wire) /\ DOMAIN wire' = DOMAIN wire
  BY <1>1, <1>2, <1>3
<1>5. \A j \in DOMAIN wire : wire'[j] = IF j = i THEN [wire[i] EXCEPT !.state = state] ELSE wire[j]
  BY <1>1, <1>3
<1>6. \A j \in DOMAIN wire :
        /\ wire'[j].act = wire[j].act /\ wire'[j].goods = wire[j].goods
        /\ wire'[j].token = wire[j].token /\ wire'[j].vref = wire[j].vref
        /\ wire'[j].stripe = wire[j].stripe
        /\ wire'[j].state = IF j = i THEN state ELSE wire[j].state
  BY <1>1, <1>5 DEF Requests
<1>7. books' \in Seq(DOMAIN acts)
  BY <1>1, Appended DEF StateIs
<1>. QED
  BY <1>4, <1>6, <1>7

LEMMA KeepStates ==
    ASSUME TypeInv, UNCHANGED <<acts, tokens>>, NEW i \in DOMAIN wire,
           NEW state \in {"action", "pending", "booked", "refused", "missing"}, StateIs(i, state)
    PROVE  Keeps
<1>1. /\ acts \in Seq(Acts) /\ Len(tokens) \in Nat /\ Len(wire) \in Nat
      /\ \A j \in DOMAIN wire : wire[j].act \in DOMAIN acts /\ wire[j].token \in 0 .. Len(tokens)
  BY InvTypes
<1>2. /\ wire' \in Seq(Requests) /\ Len(wire') = Len(wire) /\ DOMAIN wire' = DOMAIN wire
      /\ \A j \in DOMAIN wire : wire'[j].act = wire[j].act /\ wire'[j].token = wire[j].token
      /\ books' \in Seq(DOMAIN acts)
  BY Stated
<1>3. \A j \in DOMAIN wire' : wire'[j].act \in DOMAIN acts /\ wire'[j].token \in 0 .. Len(tokens)
  BY <1>1, <1>2
<1>. QED
  BY <1>1, <1>2, <1>3, TypeTokens DEF Keeps

Fits(t) ==
    /\ t \in Tasks /\ t.act \in DOMAIN acts'
    /\ t.token \in 0 .. Len(tokens') /\ t.req \in 0 .. Len(wire')

LEMMA OldFits ==
    ASSUME TypeInv, Keeps
    PROVE  /\ \A t \in tasks : Fits(t)
           /\ \A n \in 0 .. Len(tokens) : n \in 0 .. Len(tokens')
           /\ challenge \in 0 .. Len(tokens') /\ url \in 0 .. Len(tokens') /\ 0 \in 0 .. Len(tokens')
           /\ 0 \in 0 .. Len(wire')
           /\ receipt = None \/ receipt \in [act : DOMAIN acts', ok : BOOLEAN]
<1>1. /\ Len(tokens) \in Nat /\ Len(tokens') \in Nat /\ Len(tokens') >= Len(tokens)
      /\ Len(wire) \in Nat /\ Len(wire') \in Nat /\ Len(wire') >= Len(wire)
      /\ DOMAIN acts \subseteq DOMAIN acts'
  BY InvTypes DEF Keeps
<1>2. /\ \A n \in 0 .. Len(tokens) : n \in 0 .. Len(tokens')
      /\ \A i \in 0 .. Len(wire) : i \in 0 .. Len(wire')
      /\ 0 \in 0 .. Len(tokens') /\ 0 \in 0 .. Len(wire')
  BY <1>1
<1>3. /\ challenge \in 0 .. Len(tokens) /\ url \in 0 .. Len(tokens)
      /\ receipt = None \/ receipt \in [act : DOMAIN acts, ok : BOOLEAN]
      /\ \A t \in tasks : /\ t \in Tasks /\ t.act \in DOMAIN acts
                          /\ t.token \in 0 .. Len(tokens) /\ t.req \in 0 .. Len(wire)
  BY InvTypes
<1>4. receipt \in [act : DOMAIN acts, ok : BOOLEAN] => receipt \in [act : DOMAIN acts', ok : BOOLEAN]
  BY <1>1
<1>. QED
  BY <1>1, <1>2, <1>3, <1>4 DEF Fits

LEMMA TypeAfter ==
    ASSUME Keeps, LoadInv', SimpleTypes', \A t \in tasks' : Fits(t),
           challenge' \in 0 .. Len(tokens'), url' \in 0 .. Len(tokens'),
           page' = "issuer" => challenge' # 0,
           receipt' = None \/ receipt' \in [act : DOMAIN acts', ok : BOOLEAN]
    PROVE  TypeInv'
<1>1. loading' \in Nat
  <2>1. IsFiniteSet(tasks') /\ loading' = Load(tasks')
    BY DEF LoadInv, LoaderBalanced, Load, Checks
  <2>. QED
    BY <2>1, LoadNat
<1>2. /\ page' \in {"home", "form", "issuer", "return", "receipt"} /\ flow' \in FlowKinds \cup {None}
      /\ goods' \in Choice /\ redux' \in Stored /\ kept' \in Kept /\ crossed' \in BOOLEAN
  BY DEF SimpleTypes
<1>3. /\ acts' \in Seq(Acts) /\ wire' \in Seq(Requests) /\ books' \in Seq(DOMAIN acts')
      /\ tokens' \in Seq([act : DOMAIN acts', flow : FlowKinds, goods : Choice, vref : BOOLEAN])
      /\ \A i \in DOMAIN wire' : wire'[i].act \in DOMAIN acts' /\ wire'[i].token \in 0 .. Len(tokens')
  BY DEF Keeps
<1>4. /\ tasks' \subseteq Tasks
      /\ \A t \in tasks' : /\ t.act \in DOMAIN acts' /\ t.token \in 0 .. Len(tokens')
                           /\ t.req \in 0 .. Len(wire')
  BY DEF Fits
<1>5. TypeOK'
  BY <1>1, <1>2, <1>3, <1>4 DEF TypeOK
<1>. QED
  BY <1>3, <1>5 DEF TypeInv

LEMMA QuitTypes ==
    ASSUME TypeInv, Keeps, LoadInv', NEW t \in tasks, NEW weight, NEW ok \in BOOLEAN, Quits(t, weight, ok)
    PROVE  TypeInv'
<1>1. /\ SimpleTypes /\ t \in Tasks /\ t.act \in DOMAIN acts' /\ t.goods \in Choice
      /\ None \in Choice /\ (page = "issuer" => challenge # 0)
  BY InvTypes DEF Keeps, Tasks, Choice
<1>2. /\ tasks' = tasks \ {t} /\ UNCHANGED <<flow, challenge, acts, crossed, tokens>>
      /\ kept' \in Kept /\ redux' \in Stored /\ Shows(t, ok)
  BY DEF Quits, Forgets
<1>3. /\ page' \in {page, "receipt", "form"} /\ goods' \in {goods, None, t.goods} /\ url' \in {url, 0}
      /\ receipt' \in {receipt, [act |-> t.act, ok |-> ok]}
  BY <1>2 DEF Shows
<1>4. SimpleTypes'
  BY <1>1, <1>2, <1>3 DEF SimpleTypes
<1>5. [act |-> t.act, ok |-> ok] \in [act : DOMAIN acts', ok : BOOLEAN]
  BY <1>1
<1>6. receipt' = None \/ receipt' \in [act : DOMAIN acts', ok : BOOLEAN]
  BY <1>3, <1>5, OldFits
<1>7. page' = "issuer" => challenge' # 0
  BY <1>1, <1>2, <1>3
<1>8. challenge' \in 0 .. Len(tokens') /\ url' \in 0 .. Len(tokens')
  BY <1>2, <1>3, OldFits
<1>. QED
  BY <1>2, <1>4, <1>6, <1>7, <1>8, OldFits, TypeAfter

LEMMA TypeKept ==
    ASSUME TypeInv, LoadInv, DeedInv, RequestInv, ScreenInv, Step
    PROVE  TypeInv'
<1>0. LoadInv'
  BY LoadKept
<1>1. /\ SimpleTypes /\ Len(acts) \in Nat /\ Len(tokens) \in Nat /\ Len(wire) \in Nat
      /\ (page = "issuer" => challenge # 0)
      /\ \A t \in tasks : /\ t \in Tasks /\ t.act \in DOMAIN acts
                          /\ t.token \in 0 .. Len(tokens) /\ t.req \in 0 .. Len(wire)
      /\ None \in Choice
  BY InvTypes DEF Choice
<1>4. CASE Idle
  <2>1. Keeps
    BY <1>4, KeepAll DEF Idle
  <2>2. /\ tasks' = tasks /\ url' = url /\ challenge' \in {challenge, 0} /\ receipt' \in {receipt, None}
        /\ page' # "issuer" /\ SimpleTypes'
    BY <1>4 DEF Idle
  <2>. QED
    BY <1>0, <2>1, <2>2, OldFits, TypeAfter
<1>5. ASSUME NEW k \in Kinds, Press(k) PROVE TypeInv'
  <2>1. Keeps
    <3>1. Request(Pressed(k), 0, k = "stripe").act = Len(acts) + 1 /\ Request(Pressed(k), 0, k = "stripe").token = 0
      BY DEF Request, Pressed, NextAct
    <3>. QED
      BY <1>5, <3>1, PressEffect, KeepActs
  <2>2. Fits(Pressed(k))
    <3>1. Pressed(k) \in Tasks /\ acts \in Seq(Acts)
      BY <1>5, PressEffect, InvTypes
    <3>2. Pressed(k).act \in DOMAIN acts'
      BY <1>5, <3>1, PressEffect, Appended DEF Pressed, NextAct
    <3>3. Pressed(k).token = 0 /\ Pressed(k).req = IF k = "3ds" THEN 0 ELSE Len(wire) + 1
      BY DEF Pressed
    <3>4. k # "3ds" => Len(wire') = Len(wire) + 1
      BY <1>5, PressEffect, InvTypes, Appended
    <3>5. Pressed(k).req \in 0 .. Len(wire')
      BY <1>1, <2>1, <3>3, <3>4, OldFits
    <3>. QED
      BY <2>1, <3>1, <3>2, <3>3, <3>5, OldFits DEF Fits
  <2>3. /\ tasks' = tasks \cup {Pressed(k)} /\ UNCHANGED <<page, flow, goods, challenge, url, receipt>>
        /\ crossed' = (crossed \/ loading > 0) /\ goods \in Choice
    BY <1>5, PressEffect DEF Choice
  <2>4. redux' \in Stored /\ kept' \in Kept
    <3>1. redux \in Stored /\ kept \in Kept
      BY <1>1 DEF SimpleTypes
    <3>2. \/ redux' = [redux EXCEPT !.mapped = goods] /\ kept' = [kept EXCEPT !.mapped = goods]
          \/ redux' = redux /\ kept' = kept
      BY <1>5, PressEffect
    <3>. QED
      BY <2>3, <3>1, <3>2 DEF Stored, Kept
  <2>5. crossed' \in BOOLEAN
    BY <2>3
  <2>6. SimpleTypes'
    BY <1>1, <2>3, <2>4, <2>5 DEF SimpleTypes
  <2>. QED
    BY <1>0, <1>1, <2>1, <2>2, <2>3, <2>6, OldFits, TypeAfter
<1>6. ASSUME NEW t \in tasks, NEW v \in BOOLEAN, TokenIssued(t, v) PROVE TypeInv'
  <2>1. Keeps /\ Len(tokens') = Len(tokens) + 1
    BY <1>6, IssueEffect, KeepTokens
  <2>2. Fits(Issued(t, v))
    <3>1. Issued(t, v) \in Tasks /\ Issued(t, v).act = t.act /\ Issued(t, v).req = t.req
          /\ Issued(t, v).token = Len(tokens) + 1
      <4>1. t \in Tasks /\ Len(tokens) \in Nat
        BY <1>1
      <4>2. Issued(t, v).act = t.act /\ Issued(t, v).req = t.req /\ Issued(t, v).token = Len(tokens) + 1
        BY <4>1, IssuedFields
      <4>3. Issued(t, v) \in Tasks
        BY <1>6, IssueEffect
      <4>. QED
        BY <4>2, <4>3
    <3>2. Len(tokens) + 1 \in 0 .. Len(tokens')
      BY <1>1, <2>1
    <3>. QED
      BY <2>1, <3>1, <3>2, OldFits DEF Fits
  <2>3. /\ tasks' = (tasks \ {t}) \cup {Issued(t, v)} /\ kept' \in Kept
        /\ UNCHANGED <<page, flow, goods, redux, challenge, url, crossed, receipt>>
    BY <1>6, IssueEffect
  <2>4. SimpleTypes'
    BY <1>1, <2>3 DEF SimpleTypes
  <2>. QED
    BY <1>0, <1>1, <2>1, <2>2, <2>3, <2>4, OldFits, TypeAfter
<1>7. ASSUME NEW t \in tasks, NEW v \in BOOLEAN, AuthAnswered(t, v) PROVE TypeInv'
  <2>1. PICK vref \in Nat :
           /\ Posting(t, vref) \in Tasks
           /\ wire' = Append(wire, Request(t, vref, FALSE)) /\ Request(t, vref, FALSE) \in Requests
           /\ tasks' = (tasks \ {t}) \cup {Posting(t, vref)} /\ kept' \in Kept
           /\ UNCHANGED <<page, flow, goods, redux, challenge, url, acts, crossed, tokens, books, receipt>>
    BY <1>7, AuthEffect
  <2>2. Request(t, vref, FALSE).act = t.act /\ Request(t, vref, FALSE).token = t.token
    BY DEF Request
  <2>3. Keeps /\ Len(wire') = Len(wire) + 1
    BY <1>1, <2>1, <2>2, KeepWire
  <2>4. Fits(Posting(t, vref))
    <3>1. Posting(t, vref).act = t.act /\ Posting(t, vref).token = t.token /\ Posting(t, vref).req = Len(wire) + 1
      BY <1>1, PostingFields
    <3>2. Len(wire) + 1 \in 0 .. Len(wire')
      BY <1>1, <2>3
    <3>. QED
      BY <2>1, <2>3, <3>1, <3>2, OldFits DEF Fits
  <2>5. SimpleTypes'
    BY <1>1, <2>1 DEF SimpleTypes
  <2>. QED
    BY <1>0, <1>1, <2>1, <2>3, <2>4, <2>5, OldFits, TypeAfter
<1>8. ASSUME NEW t \in tasks, Goes(t) PROVE TypeInv'
  <2>1. PICK at \in {"auth", "confirm"} : tasks' = (tasks \ {t}) \cup {Gone(t, at)}
    BY <1>8 DEF Goes, Move, Gone
  <2>2. /\ UNCHANGED <<page, flow, goods, redux, kept, challenge, url, acts, crossed, tokens, wire, books, receipt>>
    BY <1>8 DEF Goes, store, host
  <2>3. Keeps
    BY <2>2, KeepAll
  <2>4. Fits(Gone(t, at))
    <3>1. t \in Tasks /\ at \in Stages
      BY <1>1 DEF Stages
    <3>2. /\ Gone(t, at) \in Tasks /\ Gone(t, at).act = t.act
          /\ Gone(t, at).token = t.token /\ Gone(t, at).req = t.req
      BY <3>1, GoesFields
    <3>. QED
      BY <2>3, <3>2, OldFits DEF Fits
  <2>5. SimpleTypes'
    BY <1>1, <2>2 DEF SimpleTypes
  <2>. QED
    BY <1>0, <1>1, <2>1, <2>2, <2>3, <2>4, <2>5, OldFits, TypeAfter
<1>9. ASSUME NEW t \in tasks, CheckChallenges(t) PROVE TypeInv'
  <2>1. /\ t.at = "check" /\ page' = "issuer" /\ goods' = None /\ challenge' = t.token /\ tasks' = {}
        /\ UNCHANGED <<flow, redux, kept, url, acts, crossed, tokens, wire, books, receipt>>
    BY <1>9 DEF CheckChallenges, store, host
  <2>2. Keeps
    BY <2>1, KeepAll
  <2>3. t.token # 0
    BY <1>1, <2>1 DEF DeedInv, Deed, OfForm, OfReturn, Tasks
  <2>4. SimpleTypes'
    BY <1>1, <2>1 DEF SimpleTypes
  <2>5. t.token \in 0 .. Len(tokens')
    BY <2>2, OldFits DEF Fits
  <2>. QED
    BY <1>0, <2>1, <2>2, <2>3, <2>4, <2>5, OldFits, TypeAfter
<1>10. ASSUME NEW t \in tasks, NEW ok \in BOOLEAN, Ended(t, ok) PROVE TypeInv'
  <2>1. Quits(t, Weight(t), ok) /\ UNCHANGED <<wire, books>>
    BY <1>10 DEF Ended, host
  <2>2. Keeps
    BY <2>1, KeepAll DEF Quits
  <2>. QED
    BY <1>0, <2>1, <2>2, QuitTypes
<1>11. ASSUME NEW t \in tasks, NEW s \in {"booked", "pending", "refused"}, Concluded(t, s) PROVE TypeInv'
  <2>1. Quits(t, 1, s # "refused") /\ (s # "refused") \in BOOLEAN
    BY <1>11 DEF Concluded
  <2>2. t.at = "confirm" /\ t.at \notin Before
    BY <1>11 DEF Concluded, Before
  <2>3. t.req \in DOMAIN wire /\ wire[t.req].act = t.act
    BY <2>2 DEF RequestInv, HasSent
  <2>4. StateIs(t.req, s)
    BY <1>11, <2>3 DEF Concluded, StateIs
  <2>5. Keeps
    BY <2>1, <2>3, <2>4, KeepStates DEF Quits
  <2>. QED
    BY <1>0, <2>1, <2>5, QuitTypes
<1>12. ASSUME NEW i \in DOMAIN wire, NEW s \in {"action", "pending", "booked", "refused", "missing"}, Decides(i, s)
       PROVE  TypeInv'
  <2>1. /\ UNCHANGED <<page, flow, goods, redux, kept, challenge, url, acts, crossed, tokens, tasks, receipt>>
        /\ StateIs(i, s)
    BY <1>12 DEF Decides, Settle, store, StateIs
  <2>2. Keeps
    BY <2>1, KeepStates
  <2>3. SimpleTypes'
    BY <1>1, <2>1 DEF SimpleTypes
  <2>. QED
    BY <1>0, <1>1, <2>1, <2>2, <2>3, OldFits, TypeAfter
<1>13. ASSUME NEW n \in DOMAIN tokens, NEW st \in {redux, Loaded}, NEW running \in {{}, tasks},
              NEW again \in BOOLEAN, Mounts(n, st, running, again)
       PROVE  TypeInv'
  <2>1. /\ page' = "return" /\ flow' = tokens[n].flow /\ goods' = None /\ url' = n /\ challenge' = 0
        /\ redux' = st /\ st \in Stored /\ receipt' = None
        /\ UNCHANGED <<kept, crossed, tokens, wire, books>>
    BY <1>13, MountEffect
  <2>2. SimpleTypes'
    <3>1. tokens[n].flow \in FlowKinds
      BY InvTypes
    <3>. QED
      BY <1>1, <2>1, <3>1 DEF SimpleTypes
  <2>3. n \in 0 .. Len(tokens)
    BY InvTypes
  <2>4. CASE tasks' = running /\ UNCHANGED acts
    <3>1. Keeps
      BY <2>1, <2>4, KeepAll
    <3>. QED
      BY <1>0, <2>1, <2>2, <2>3, <2>4, <3>1, OldFits, TypeAfter
  <2>5. CASE /\ acts' = Append(acts, [flow |-> tokens[n].flow, goods |-> Details(n, st),
                                      of |-> tokens[n].act, again |-> again])
             /\ [flow |-> tokens[n].flow, goods |-> Details(n, st),
                 of |-> tokens[n].act, again |-> again] \in Acts
             /\ tasks' = running \cup {Returned(n, st)} /\ Returned(n, st) \in Tasks
    <3>1. Keeps
      BY <2>1, <2>5, KeepActs
    <3>2. Fits(Returned(n, st))
      <4>1. Returned(n, st).act = Len(acts) + 1 /\ Returned(n, st).token = n /\ Returned(n, st).req = 0
        BY DEF Returned, NextAct
      <4>2. Len(acts) + 1 \in DOMAIN acts'
        BY <2>5, InvTypes, Appended
      <4>. QED
        BY <2>3, <2>5, <3>1, <4>1, <4>2, OldFits DEF Fits
    <3>. QED
      BY <1>0, <2>1, <2>2, <2>3, <2>5, <3>1, <3>2, OldFits, TypeAfter
  <2>. QED
    BY <1>13, <2>4, <2>5, MountEffect
<1>14. ASSUME NEW t \in tasks, StripeMissing(t) PROVE TypeInv'
  <2>1. Keeps /\ Len(wire') = Len(wire) + 1
    BY <1>1, <1>14, MissingEffect, KeepWire
  <2>2. Fits(FallingBack(t))
    <3>1. Len(wire) + 1 \in 0 .. Len(wire')
      BY <1>1, <2>1
    <3>. QED
      BY <1>14, <2>1, <3>1, MissingEffect, OldFits DEF Fits
  <2>3. SimpleTypes'
    BY <1>1, <1>14, MissingEffect DEF SimpleTypes
  <2>4. /\ tasks' = (tasks \ {t}) \cup {FallingBack(t)}
        /\ UNCHANGED <<page, challenge, url, receipt>>
    BY <1>14, MissingEffect
  <2>. QED
    BY <1>0, <1>1, <2>1, <2>2, <2>3, <2>4, OldFits, TypeAfter
<1>. QED
  BY <1>4, <1>5, <1>6, <1>7, <1>8, <1>9, <1>10, <1>11, <1>12, <1>13, <1>14 DEF Step
------------------------------------------------------------------------------
(* Acts and tokens are only added.                                         *)

Same == UNCHANGED <<acts, tokens>>
NewPress(g) ==
    /\ page = "form" /\ goods = g /\ g \in Goods /\ UNCHANGED tokens
    /\ crossed' = (crossed \/ loading > 0)
    /\ acts' = Append(acts, [flow |-> flow, goods |-> g, of |-> NextAct, again |-> FALSE])
    /\ [flow |-> flow, goods |-> g, of |-> NextAct, again |-> FALSE] \in Acts
NewReturn(n, st, again) ==
    /\ IF again THEN n = url ELSE page = "issuer" /\ n = challenge /\ st = Loaded
    /\ UNCHANGED tokens
    /\ acts' = Append(acts, [flow |-> tokens[n].flow, goods |-> Details(n, st),
                             of |-> tokens[n].act, again |-> again])
    /\ [flow |-> tokens[n].flow, goods |-> Details(n, st),
        of |-> tokens[n].act, again |-> again] \in Acts
NewToken(t, v) ==
    /\ t.at = "token" /\ UNCHANGED acts /\ tokens' = Append(tokens, TokenOf(t, v))
    /\ TokenOf(t, v) \in [act : DOMAIN acts, flow : FlowKinds, goods : Choice, vref : BOOLEAN]

Growth ==
    \/ Same
    \/ \E g \in Goods : NewPress(g)
    \/ \E n \in DOMAIN tokens, st \in {redux, Loaded}, again \in BOOLEAN : NewReturn(n, st, again)
    \/ \E t \in tasks, v \in BOOLEAN : NewToken(t, v)

LEMMA StepsGrow ==
    ASSUME TypeInv, DeedInv, ScreenInv, Step
    PROVE  Growth
<1>1. CASE Idle
  BY <1>1 DEF Idle, Growth, Same
<1>2. ASSUME NEW k \in Kinds, Press(k) PROVE Growth
  <2>1. NewPress(goods) /\ goods \in Goods
    BY <1>2, PressEffect DEF NewPress
  <2>. QED
    BY <2>1 DEF Growth
<1>3. ASSUME NEW t \in tasks, NEW v \in BOOLEAN, TokenIssued(t, v) PROVE Growth
  <2>1. NewToken(t, v)
    BY <1>3, IssueEffect DEF NewToken
  <2>. QED
    BY <2>1 DEF Growth
<1>4. ASSUME NEW t \in tasks, NEW v \in BOOLEAN, AuthAnswered(t, v) PROVE Growth
  BY <1>4 DEF AuthAnswered, Growth, Same
<1>5. ASSUME NEW t \in tasks, Goes(t) \/ CheckChallenges(t) PROVE Growth
  BY <1>5 DEF Goes, CheckChallenges, Growth, Same
<1>6. ASSUME NEW t \in tasks, NEW ok, Ended(t, ok) PROVE Growth
  BY <1>6 DEF Ended, Quits, Growth, Same
<1>7. ASSUME NEW t \in tasks, NEW s, Concluded(t, s) PROVE Growth
  BY <1>7 DEF Concluded, Quits, Growth, Same
<1>8. ASSUME NEW i \in DOMAIN wire, NEW s, Decides(i, s) PROVE Growth
  BY <1>8 DEF Decides, Settle, Growth, Same
<1>9. ASSUME NEW n \in DOMAIN tokens, NEW st \in {redux, Loaded}, NEW running \in {{}, tasks},
             NEW again \in BOOLEAN, Mounts(n, st, running, again)
      PROVE  Growth
  <2>1. UNCHANGED tokens /\ (UNCHANGED acts \/ NewReturn(n, st, again))
    BY <1>9, MountEffect DEF NewReturn
  <2>. QED
    BY <2>1 DEF Growth, Same
<1>10. ASSUME NEW t \in tasks, StripeMissing(t) PROVE Growth
  BY <1>10 DEF StripeMissing, Growth, Same
<1>. QED
  BY <1>1, <1>2, <1>3, <1>4, <1>5, <1>6, <1>7, <1>8, <1>9, <1>10 DEF Step

\* What was there stays as it was; at most one act, or one token, is new.
Steady ==
    /\ \A a \in DOMAIN acts : a \in DOMAIN acts' /\ acts'[a] = acts[a]
    /\ \A a \in DOMAIN acts' : a \in DOMAIN acts \/ a = NextAct
    /\ NextAct \notin DOMAIN acts
    /\ \A n \in DOMAIN tokens : n \in DOMAIN tokens' /\ tokens'[n] = tokens[n]
    /\ \A n \in DOMAIN tokens' : n \in DOMAIN tokens \/ n = Len(tokens) + 1
    /\ Len(tokens) + 1 \notin DOMAIN tokens

LEMMA Steadily ==
    ASSUME TypeInv, Growth
    PROVE  Steady
<1>1. /\ acts \in Seq(Acts) /\ DOMAIN acts = 1 .. Len(acts) /\ Len(acts) \in Nat
      /\ DOMAIN tokens = 1 .. Len(tokens) /\ Len(tokens) \in Nat
      /\ tokens \in Seq([act : DOMAIN acts, flow : FlowKinds, goods : Choice, vref : BOOLEAN])
  BY InvTypes, TypeTokens
<1>2. NextAct \notin DOMAIN acts /\ Len(tokens) + 1 \notin DOMAIN tokens
  BY <1>1 DEF NextAct
<1>3. CASE Same
  BY <1>2, <1>3 DEF Same, Steady
<1>4. ASSUME NEW a \in Acts, acts' = Append(acts, a), UNCHANGED tokens PROVE Steady
  <2>1. /\ \A b \in DOMAIN acts : b \in DOMAIN acts' /\ acts'[b] = acts[b]
        /\ \A b \in DOMAIN acts' : b \in DOMAIN acts \/ b = Len(acts) + 1
    BY <1>1, <1>4, Appended
  <2>. QED
    BY <1>2, <1>4, <2>1 DEF Steady, NextAct
<1>5. ASSUME NEW g \in Goods, NewPress(g) PROVE Steady
  BY <1>4, <1>5 DEF NewPress
<1>6. ASSUME NEW n \in DOMAIN tokens, NEW st, NEW again, NewReturn(n, st, again) PROVE Steady
  BY <1>4, <1>6 DEF NewReturn
<1>7. ASSUME NEW t \in tasks, NEW v \in BOOLEAN, NewToken(t, v) PROVE Steady
  <2>1. /\ \A n \in DOMAIN tokens : n \in DOMAIN tokens' /\ tokens'[n] = tokens[n]
        /\ \A n \in DOMAIN tokens' : n \in DOMAIN tokens \/ n = Len(tokens) + 1
    BY <1>1, <1>7, Appended DEF NewToken
  <2>. QED
    BY <1>2, <1>7, <2>1 DEF Steady, NewToken
<1>. QED
  BY <1>3, <1>5, <1>6, <1>7 DEF Growth

\* The act that is new.
LEMMA NewestAct ==
    ASSUME TypeInv, NEW a \in Acts, acts' = Append(acts, a)
    PROVE  NextAct \in DOMAIN acts' /\ acts'[NextAct] = a
BY InvTypes, Appended DEF NextAct

LEMMA NewestToken ==
    ASSUME TypeInv, NEW t, NEW v, NewToken(t, v)
    PROVE  Len(tokens) + 1 \in DOMAIN tokens' /\ tokens'[Len(tokens) + 1] = TokenOf(t, v)
BY TypeTokens, Appended DEF NewToken

LEMMA PressStays ==
    ASSUME Steady, NEW a, PressIn(acts, a)
    PROVE  PressIn(acts', a)
BY DEF Steady, PressIn

LEMMA ChainKept ==
    ASSUME TypeInv, DeedInv, ChainInv, ScreenInv, Step
    PROVE  ChainInv'
<1>1. Growth /\ Steady
  BY StepsGrow, Steadily
<1>2. \A a \in DOMAIN acts : PressIn(acts', acts'[a].of)
  BY <1>1, PressStays DEF ChainInv, Steady
<1>3. \A n \in DOMAIN tokens : PressIn(acts', tokens'[n].act)
  BY <1>1, PressStays DEF ChainInv, Steady
<1>4. \A a \in DOMAIN acts : acts'[a].of = a => ~acts'[a].again
  BY <1>1 DEF ChainInv, Steady
<1>5. CASE Same
  BY <1>2, <1>3, <1>4, <1>5 DEF Same, ChainInv
<1>6. ASSUME NEW g \in Goods, NewPress(g) PROVE ChainInv'
  <2>1. /\ NextAct \in DOMAIN acts' /\ acts'[NextAct].of = NextAct /\ tokens' = tokens
        /\ ~acts'[NextAct].again
    BY <1>6, NewestAct DEF NewPress
  <2>2. PressIn(acts', acts'[NextAct].of)
    BY <2>1 DEF PressIn
  <2>3. \A a \in DOMAIN acts' : PressIn(acts', acts'[a].of)
    BY <1>1, <1>2, <2>2 DEF Steady
  <2>4. \A n \in DOMAIN tokens' : PressIn(acts', tokens'[n].act)
    BY <1>3, <2>1
  <2>5. \A a \in DOMAIN acts' : acts'[a].of = a => ~acts'[a].again
    BY <1>1, <1>4, <2>1 DEF Steady
  <2>. QED
    BY <2>3, <2>4, <2>5 DEF ChainInv
<1>7. ASSUME NEW n \in DOMAIN tokens, NEW st, NEW again, NewReturn(n, st, again) PROVE ChainInv'
  <2>1. NextAct \in DOMAIN acts' /\ acts'[NextAct].of = tokens[n].act /\ tokens' = tokens
    BY <1>7, NewestAct DEF NewReturn
  <2>2. PressIn(acts', acts'[NextAct].of)
    BY <1>3, <2>1
  <2>3. \A a \in DOMAIN acts' : PressIn(acts', acts'[a].of)
    BY <1>1, <1>2, <2>2 DEF Steady
  <2>4. \A m \in DOMAIN tokens' : PressIn(acts', tokens'[m].act)
    BY <1>3, <2>1
  <2>5. acts'[NextAct].of # NextAct
    BY <1>1, <2>1, InvTypes DEF Steady
  <2>6. \A a \in DOMAIN acts' : acts'[a].of = a => ~acts'[a].again
    BY <1>1, <1>4, <2>5 DEF Steady
  <2>. QED
    BY <2>3, <2>4, <2>6 DEF ChainInv
<1>8. ASSUME NEW t \in tasks, NEW v \in BOOLEAN, NewToken(t, v) PROVE ChainInv'
  <2>1. tokens'[Len(tokens) + 1].act = t.act /\ t.at = "token" /\ acts' = acts
    BY <1>8, NewestToken DEF NewToken, TokenOf
  <2>2. t.from = "form"
    BY <2>1, InvTypes DEF DeedInv, Deed, OfReturn, Tasks
  <2>3. PressIn(acts', t.act)
    BY <1>1, <2>2, PressStays DEF DeedInv, Deed, OfForm
  <2>4. \A n \in DOMAIN tokens' : PressIn(acts', tokens'[n].act)
    BY <1>1, <1>3, <2>1, <2>3 DEF Steady
  <2>. QED
    BY <1>2, <1>4, <2>1, <2>4 DEF ChainInv
<1>. QED
  BY <1>1, <1>5, <1>6, <1>7, <1>8 DEF Growth
------------------------------------------------------------------------------
(* Handlers carry what their acts are about.                               *)

LEMMA OldDeed ==
    ASSUME TypeInv, DeedInv, Steady, NEW t \in tasks, url' \in {url, 0}
    PROVE  Deed(t)'
<1>1. /\ t.act \in DOMAIN acts /\ t.token \in 0 .. Len(tokens) /\ DOMAIN tokens = 1 .. Len(tokens)
      /\ Len(tokens) \in Nat /\ Deed(t)
  BY InvTypes DEF DeedInv
<1>2. t.token # 0 => t.token \in DOMAIN tokens
  BY <1>1
<1>3. /\ acts'[t.act] = acts[t.act] /\ t.act \in DOMAIN acts'
      /\ t.token # 0 => tokens'[t.token] = tokens[t.token]
  BY <1>1, <1>2 DEF Steady
<1>4. PressIn(acts', t.act) = PressIn(acts, t.act)
  BY <1>1, <1>3 DEF PressIn
<1>5. t.goods = acts'[t.act].goods
  BY <1>1, <1>3 DEF Deed
<1>6. t.from = "form" => OfForm(t)'
  BY <1>1, <1>3, <1>4 DEF Deed, OfForm
<1>7. t.from = "return" => OfReturn(t)'
  BY <1>1, <1>3, <1>4 DEF Deed, OfReturn
<1>. QED
  BY <1>5, <1>6, <1>7 DEF Deed

LEMMA DeedKept ==
    ASSUME TypeInv, LoadInv, DeedInv, ScreenInv, Step
    PROVE  DeedInv'
<1>1. Growth /\ Steady
  BY StepsGrow, Steadily
<1>2. /\ Len(acts) \in Nat /\ Len(tokens) \in Nat /\ Len(wire) \in Nat /\ DOMAIN tokens = 1 .. Len(tokens)
      /\ \A t \in tasks : t \in Tasks /\ Deed(t) /\ t.token \in 0 .. Len(tokens) /\ t.act \in DOMAIN acts
  BY InvTypes DEF DeedInv
<1>3. ASSUME tasks' \subseteq tasks, url' \in {url, 0} PROVE DeedInv'
  BY <1>1, <1>3, OldDeed DEF DeedInv
<1>4. CASE Idle
  BY <1>3, <1>4 DEF Idle
<1>5. ASSUME NEW k \in Kinds, Press(k) PROVE DeedInv'
  <2>1. SUFFICES ASSUME NEW u \in tasks', u = Pressed(k) PROVE Deed(u)'
    BY <1>1, <1>5, PressEffect, OldDeed DEF DeedInv
  <2>2. /\ NextAct \in DOMAIN acts' /\ acts'[NextAct].of = NextAct /\ acts'[NextAct].goods = goods
    BY <1>5, PressEffect, NewestAct
  <2>3. /\ u.act = NextAct /\ u.goods = goods /\ u.from = "form" /\ u.token = 0 /\ u.vref = 0
        /\ u.at \notin {"check", "auth"}
    BY <2>1 DEF Pressed, PressStage
  <2>. QED
    BY <2>2, <2>3 DEF Deed, OfForm, PressIn
<1>6. ASSUME NEW t \in tasks, NEW v \in BOOLEAN, TokenIssued(t, v) PROVE DeedInv'
  <2>0. tasks' = (tasks \ {t}) \cup {Issued(t, v)} /\ url' = url
    BY <1>6, IssueEffect
  <2>1. SUFFICES ASSUME NEW u \in tasks', u = Issued(t, v) PROVE Deed(u)'
    BY <1>1, <2>0, OldDeed DEF DeedInv
  <2>2. t.at = "token" /\ NewToken(t, v) /\ acts' = acts /\ Deed(t) /\ t \in Tasks
    BY <1>2, <1>6, IssueEffect DEF NewToken
  <2>3. tokens'[Len(tokens) + 1].act = t.act /\ tokens'[Len(tokens) + 1].flow = t.flow
    <3>1. tokens'[Len(tokens) + 1] = TokenOf(t, v)
      BY <2>2, NewestToken
    <3>. QED
      BY <3>1 DEF TokenOf
  <2>4. t.from = "form" /\ t.goods = acts[t.act].goods /\ PressIn(acts, t.act)
    BY <2>2 DEF Deed, OfReturn, OfForm, Tasks
  <2>5. /\ u.act = t.act /\ u.goods = t.goods /\ u.from = t.from /\ u.token = Len(tokens) + 1
        /\ u.vref \in {0, u.token} /\ u.flow = t.flow
    BY <1>2, <2>1, <2>2, IssuedFields
  <2>6. u.token # 0
    BY <1>2, <2>5
  <2>. QED
    BY <2>2, <2>3, <2>4, <2>5, <2>6 DEF Deed, OfForm
<1>7. ASSUME NEW t \in tasks, NEW v \in BOOLEAN, AuthAnswered(t, v) PROVE DeedInv'
  <2>1. PICK vref \in Nat :
           /\ t.at = "auth" /\ tasks' = (tasks \ {t}) \cup {Posting(t, vref)} /\ url' = url
           /\ vref \in {t.token, IF t.from = "form" \/ t.flow = "deposit" THEN t.vref ELSE kept.vref}
    BY <1>7, AuthEffect
  <2>2. SUFFICES ASSUME NEW u \in tasks', u = Posting(t, vref) PROVE Deed(u)'
    BY <1>1, <2>1, OldDeed DEF DeedInv
  <2>3. /\ u.act = t.act /\ u.goods = t.goods /\ u.from = t.from /\ u.token = t.token
        /\ u.vref = vref /\ u.flow = t.flow /\ u.at = "post"
    BY <1>2, <2>2, PostingFields
  <2>4. Deed(t)' /\ Deed(t)
    BY <1>1, <1>2, <2>1, OldDeed
  <2>5. t.from = "form" => vref \in {0, t.token}
    BY <2>1, <2>4 DEF Deed, OfForm
  <2>. QED
    BY <2>3, <2>4, <2>5 DEF Deed, OfForm, OfReturn
<1>8. ASSUME NEW t \in tasks, Goes(t) PROVE DeedInv'
  <2>1. PICK at \in {"auth", "confirm"} :
           /\ tasks' = (tasks \ {t}) \cup {Gone(t, at)} /\ url' = url /\ t.at \in {"check", "charge", "fallback"}
           /\ at = "auth" => t.at = "check"
    BY <1>8 DEF Goes, Move, Gone
  <2>2. SUFFICES ASSUME NEW u \in tasks', u = Gone(t, at) PROVE Deed(u)'
    BY <1>1, <2>1, OldDeed DEF DeedInv
  <2>3. /\ u.act = t.act /\ u.goods = t.goods /\ u.from = t.from /\ u.token = t.token
        /\ u.vref = t.vref /\ u.flow = t.flow /\ u.at = at
    BY <1>2, <2>2, GoesFields DEF Stages
  <2>4. Deed(t)' /\ Deed(t)
    BY <1>1, <1>2, <2>1, OldDeed
  <2>5. t.from # "return"
    BY <2>1, <2>4 DEF Deed, OfReturn
  <2>. QED
    BY <2>1, <2>3, <2>4, <2>5 DEF Deed, OfForm
<1>9. ASSUME NEW t \in tasks, CheckChallenges(t) PROVE DeedInv'
  BY <1>3, <1>9 DEF CheckChallenges
<1>10. ASSUME NEW t \in tasks, NEW w, NEW ok, Quits(t, w, ok) PROVE DeedInv'
  BY <1>3, <1>10 DEF Quits, Shows
<1>11. ASSUME NEW t \in tasks, NEW ok, Ended(t, ok) PROVE DeedInv'
  BY <1>10, <1>11 DEF Ended
<1>12. ASSUME NEW t \in tasks, NEW s, Concluded(t, s) PROVE DeedInv'
  BY <1>10, <1>12 DEF Concluded
<1>13. ASSUME NEW i \in DOMAIN wire, NEW s, Decides(i, s) PROVE DeedInv'
  BY <1>3, <1>13 DEF Decides, Settle
<1>14. ASSUME NEW n \in DOMAIN tokens, NEW st \in {redux, Loaded}, NEW running \in {{}, tasks},
              NEW again \in BOOLEAN, Mounts(n, st, running, again)
       PROVE  DeedInv'
  <2>1. url' = n /\ (running = {} \/ n = url) /\ n # 0 /\ UNCHANGED tokens
    BY <1>14, MountEffect
  <2>2. CASE tasks' = running
    BY <1>1, <2>1, <2>2, OldDeed DEF DeedInv
  <2>3. CASE /\ acts' = Append(acts, [flow |-> tokens[n].flow, goods |-> Details(n, st),
                                      of |-> tokens[n].act, again |-> again])
             /\ [flow |-> tokens[n].flow, goods |-> Details(n, st),
                 of |-> tokens[n].act, again |-> again] \in Acts
             /\ tasks' = running \cup {Returned(n, st)}
    <3>1. SUFFICES ASSUME NEW u \in tasks', u = Returned(n, st) PROVE Deed(u)'
      BY <1>1, <2>1, <2>3, OldDeed DEF DeedInv
    <3>2. /\ NextAct \in DOMAIN acts' /\ acts'[NextAct].of = tokens[n].act
          /\ acts'[NextAct].goods = Details(n, st)
      BY <2>3, NewestAct
    <3>3. tokens[n].act # NextAct
      BY <1>2, InvTypes DEF NextAct
    <3>4. /\ u.act = NextAct /\ u.goods = Details(n, st) /\ u.from = "return" /\ u.token = n
          /\ u.at = "auth" /\ u.flow = tokens[n].flow
      BY <3>1 DEF Returned
    <3>. QED
      BY <2>1, <3>2, <3>3, <3>4 DEF Deed, OfReturn, PressIn
  <2>. QED
    BY <1>14, <2>2, <2>3, MountEffect
<1>15. ASSUME NEW t \in tasks, StripeMissing(t) PROVE DeedInv'
  <2>1. tasks' = (tasks \ {t}) \cup {FallingBack(t)} /\ url' = url
    BY <1>15, MissingEffect
  <2>2. SUFFICES ASSUME NEW u \in tasks', u = FallingBack(t) PROVE Deed(u)'
    BY <1>1, <2>1, OldDeed DEF DeedInv
  <2>3. /\ u.act = t.act /\ u.goods = t.goods /\ u.from = "form" /\ u.token = t.token
        /\ u.vref = t.vref /\ u.flow = t.flow /\ u.at = "fallback" /\ t.from = "form"
    BY <1>15, <2>2, MissingEffect
  <2>4. Deed(t)'
    BY <1>1, <2>1, OldDeed
  <2>. QED
    BY <2>3, <2>4 DEF Deed, OfForm
<1>. QED
  BY <1>4, <1>5, <1>6, <1>7, <1>8, <1>9, <1>11, <1>12, <1>13, <1>14, <1>15 DEF Step
------------------------------------------------------------------------------
(* At most one request for each act, sent by its handler.                  *)

Unsent(u) == \A i \in DOMAIN wire : wire[i].act # u.act
Sound(u) == IF u.at \in Before THEN Unsent(u) ELSE HasSent(u)

LEMMA SoundTasks ==
    ASSUME RequestInv, NEW t \in tasks
    PROVE  Sound(t)
BY DEF RequestInv, Sound, Unsent

LEMMA RequestAfter ==
    ASSUME \A i \in DOMAIN wire' : wire'[i].goods = acts'[wire'[i].act].goods,
           \A i \in DOMAIN wire' : wire'[i].stripe \/ wire'[i].state = "pending" => wire'[i].goods # None,
           \A u \in tasks' : Sound(u)', OneChargePerAct'
    PROVE  RequestInv'
BY DEF RequestInv, Sound, Unsent

LEMMA RequestsStay ==
    ASSUME TypeInv, Steady, RequestInv, UNCHANGED wire,
           \A u \in tasks' : u \in tasks \/ Sound(u)
    PROVE  RequestInv'
<1>1. \A i \in DOMAIN wire : wire[i].act \in DOMAIN acts
  BY InvTypes
<1>2. \A i \in DOMAIN wire : acts'[wire[i].act] = acts[wire[i].act]
  BY <1>1 DEF Steady
<1>3. \A u \in tasks' : Sound(u)'
  BY SoundTasks DEF Sound, Unsent, HasSent
<1>. QED
  BY <1>2, <1>3, RequestAfter DEF RequestInv, OneChargePerAct

LEMMA RequestAdded ==
    ASSUME TypeInv, Steady, RequestInv, NEW r \in Requests, wire' = Append(wire, r),
           \A i \in DOMAIN wire : wire[i].act = r.act => wire[i].state = "missing",
           r.goods = acts'[r.act].goods, r.stripe => r.goods # None, r.state = "sent",
           \A u \in tasks' :
              \/ u \in tasks /\ u.act # r.act
              \/ /\ u.at \in {"post", "charge", "fallback"} /\ u.req = Len(wire) + 1 /\ u.act = r.act
                 /\ r.stripe = (u.at # "post")
    PROVE  RequestInv'
<1>1. /\ wire \in Seq(Requests)
      /\ \A i \in DOMAIN wire : wire[i].act \in DOMAIN acts
  BY InvTypes
<1>2. /\ Len(wire) + 1 \in DOMAIN wire' /\ wire'[Len(wire) + 1] = r
      /\ \A i \in DOMAIN wire : i \in DOMAIN wire' /\ wire'[i] = wire[i]
      /\ \A i \in DOMAIN wire' : i \in DOMAIN wire \/ i = Len(wire) + 1
  <2>1. DOMAIN wire' = 1 .. Len(wire) + 1 /\ Len(wire) \in Nat
    BY <1>1, Appended
  <2>2. Len(wire) + 1 \in DOMAIN wire'
    BY <2>1
  <2>. QED
    BY <1>1, <2>2, Appended
<1>3. \A i \in DOMAIN wire : acts'[wire[i].act] = acts[wire[i].act]
  BY <1>1 DEF Steady
<1>4. \A i \in DOMAIN wire' : wire'[i].goods = acts'[wire'[i].act].goods
  BY <1>2, <1>3 DEF RequestInv
<1>5. \A i \in DOMAIN wire' : wire'[i].stripe \/ wire'[i].state = "pending" => wire'[i].goods # None
  BY <1>2 DEF RequestInv
<1>6. ASSUME NEW u \in tasks' PROVE Sound(u)'
  <2>1. CASE u \in tasks /\ u.act # r.act
    <3>1. Sound(u)
      BY <2>1, SoundTasks
    <3>2. u.at \in Before => Unsent(u)'
      BY <1>2, <2>1, <3>1 DEF Sound, Unsent
    <3>3. u.at \notin Before => HasSent(u)'
      BY <1>2, <3>1 DEF Sound, HasSent
    <3>. QED
      BY <3>2, <3>3 DEF Sound
  <2>2. CASE /\ u.at \in {"post", "charge", "fallback"} /\ u.req = Len(wire) + 1 /\ u.act = r.act
             /\ r.stripe = (u.at # "post")
    BY <1>2, <2>2 DEF Sound, HasSent, Before
  <2>. QED
    BY <2>1, <2>2
<1>7. OneChargePerAct'
  <2>1. SUFFICES ASSUME NEW i \in DOMAIN wire', NEW j \in DOMAIN wire', i < j,
                        wire'[i].act = wire'[j].act
                 PROVE  wire'[i].state = "missing"
    BY DEF OneChargePerAct
  <2>2. DOMAIN wire = 1 .. Len(wire) /\ Len(wire) \in Nat
    BY InvTypes
  <2>3. i \in DOMAIN wire
    BY <1>2, <2>1, <2>2
  <2>. QED
    BY <1>2, <2>1, <2>3 DEF RequestInv, OneChargePerAct
<1>. QED
  BY <1>4, <1>5, <1>6, <1>7, RequestAfter

LEMMA RequestStated ==
    ASSUME TypeInv, Steady, RequestInv, NEW i \in DOMAIN wire,
           NEW state \in {"action", "pending", "booked", "refused", "missing"}, StateIs(i, state),
           state = "pending" => wire[i].goods # None, wire[i].state # "missing",
           \A u \in tasks' : u \in tasks /\ (u.at = "confirm" => u.req # i)
    PROVE  RequestInv'
<1>1. /\ DOMAIN wire' = DOMAIN wire
      /\ \A j \in DOMAIN wire :
           /\ wire'[j].act = wire[j].act /\ wire'[j].goods = wire[j].goods
           /\ wire'[j].stripe = wire[j].stripe
           /\ wire'[j].state = IF j = i THEN state ELSE wire[j].state
           /\ wire[j].act \in DOMAIN acts
  BY Stated, InvTypes
<1>2. \A j \in DOMAIN wire : acts'[wire[j].act] = acts[wire[j].act]
  BY <1>1 DEF Steady
<1>3. \A j \in DOMAIN wire' : wire'[j].goods = acts'[wire'[j].act].goods
  BY <1>1, <1>2 DEF RequestInv
<1>4. ASSUME NEW j \in DOMAIN wire', wire'[j].stripe \/ wire'[j].state = "pending" PROVE wire'[j].goods # None
  <2>1. wire[j].stripe \/ wire[j].state = "pending" => wire[j].goods # None
    BY <1>1 DEF RequestInv
  <2>2. CASE j = i
    BY <1>1, <1>4, <2>1, <2>2
  <2>3. CASE j # i
    BY <1>1, <1>4, <2>1, <2>3
  <2>. QED
    BY <2>2, <2>3
<1>5. ASSUME NEW u \in tasks' PROVE Sound(u)'
  <2>1. Sound(u) /\ (u.at = "confirm" => u.req # i)
    BY SoundTasks
  <2>2. u.at \in Before => Unsent(u)'
    BY <1>1, <2>1 DEF Sound, Unsent
  <2>3. u.at \notin Before => HasSent(u)'
    BY <1>1, <2>1 DEF Sound, HasSent
  <2>. QED
    BY <2>2, <2>3 DEF Sound
<1>6. OneChargePerAct'
  BY <1>1 DEF RequestInv, OneChargePerAct
<1>. QED
  BY <1>3, <1>4, <1>5, <1>6, RequestAfter

LEMMA RequestKept ==
    ASSUME TypeInv, LoadInv, DeedInv, RequestInv, ScreenInv, Step
    PROVE  RequestInv'
<1>1. Growth /\ Steady
  BY StepsGrow, Steadily
<1>2. /\ Len(acts) \in Nat /\ Len(tokens) \in Nat /\ Len(wire) \in Nat
      /\ \A t \in tasks : t \in Tasks /\ Deed(t) /\ Sound(t) /\ t.act \in DOMAIN acts
      /\ \A i \in DOMAIN wire : wire[i].act \in DOMAIN acts /\ wire[i].act # NextAct
      /\ NextAct \notin DOMAIN acts
  BY InvTypes, SoundTasks DEF DeedInv, NextAct
<1>3. ASSUME tasks' \subseteq tasks, UNCHANGED wire PROVE RequestInv'
  BY <1>1, <1>3, RequestsStay
<1>4. CASE Idle
  BY <1>3, <1>4 DEF Idle
<1>5. ASSUME NEW k \in Kinds, Press(k) PROVE RequestInv'
  <2>1. tasks' = tasks \cup {Pressed(k)} /\ acts'[NextAct].goods = goods /\ goods \in Goods
    BY <1>5, PressEffect, NewestAct
  <2>2. Pressed(k).act = NextAct /\ Pressed(k).goods = goods
    BY DEF Pressed
  <2>3. CASE k = "3ds"
    <3>1. wire' = wire
      BY <1>5, <2>3, PressEffect
    <3>2. Pressed(k).at \in Before
      BY <2>3 DEF Pressed, PressStage, Before
    <3>3. Sound(Pressed(k))
      BY <1>2, <2>2, <3>2 DEF Sound, Unsent
    <3>. QED
      BY <1>1, <2>1, <3>1, <3>3, RequestsStay
  <2>4. CASE k # "3ds"
    <3> DEFINE r == Request(Pressed(k), 0, k = "stripe")
    <3>1. wire' = Append(wire, r) /\ r \in Requests
      BY <1>5, <2>4, PressEffect
    <3>2. r.act = NextAct /\ r.goods = goods /\ r.state = "sent" /\ r.stripe = (k = "stripe")
      BY <2>2 DEF Request
    <3>3. /\ Pressed(k).at \in {"post", "charge"} /\ (Pressed(k).at # "post") = (k = "stripe")
          /\ Pressed(k).req = Len(wire) + 1
      BY <2>4 DEF Pressed, PressStage
    <3> HIDE DEF r
    <3>4. \A u \in tasks' :
            \/ u \in tasks /\ u.act # r.act
            \/ /\ u.at \in {"post", "charge", "fallback"} /\ u.req = Len(wire) + 1 /\ u.act = r.act
               /\ r.stripe = (u.at # "post")
      BY <1>2, <2>1, <2>2, <3>2, <3>3
    <3>5. \A i \in DOMAIN wire : wire[i].act # r.act
      BY <1>2, <3>2
    <3>6. r.goods = acts'[r.act].goods /\ r.goods # None
      BY <2>1, <3>2, NoneAssumption
    <3>. QED
      BY <1>1, <3>1, <3>2, <3>4, <3>5, <3>6, RequestAdded
  <2>. QED
    BY <2>3, <2>4
<1>6. ASSUME NEW t \in tasks, NEW v \in BOOLEAN, TokenIssued(t, v) PROVE RequestInv'
  <2>1. /\ t.at = "token" /\ tasks' = (tasks \ {t}) \cup {Issued(t, v)} /\ wire' = wire
    BY <1>6, IssueEffect
  <2>2. Issued(t, v).at = "check" /\ Issued(t, v).act = t.act
    BY <1>2, IssuedFields
  <2>3. Sound(Issued(t, v))
    BY <1>2, <2>1, <2>2 DEF Sound, Unsent, Before
  <2>. QED
    BY <1>1, <2>1, <2>3, RequestsStay
<1>7. ASSUME NEW t \in tasks, NEW v \in BOOLEAN, AuthAnswered(t, v) PROVE RequestInv'
  <2>1. PICK vref \in Nat :
           /\ t.at = "auth" /\ tasks' = (tasks \ {t}) \cup {Posting(t, vref)} /\ acts' = acts
           /\ wire' = Append(wire, Request(t, vref, FALSE)) /\ Request(t, vref, FALSE) \in Requests
    BY <1>7, AuthEffect
  <2> DEFINE r == Request(t, vref, FALSE)
  <2>2. r.act = t.act /\ r.goods = t.goods /\ r.state = "sent" /\ r.stripe = FALSE
    BY DEF Request
  <2>3. Posting(t, vref).act = t.act /\ Posting(t, vref).at = "post" /\ Posting(t, vref).req = Len(wire) + 1
    BY <1>2, PostingFields
  <2>4. wire' = Append(wire, r) /\ r \in Requests
    BY <2>1
  <2> HIDE DEF r
  <2>5. \A i \in DOMAIN wire : wire[i].act # r.act
    BY <1>2, <2>1, <2>2 DEF Sound, Unsent, Before
  <2>6. r.goods = acts'[r.act].goods
    BY <1>2, <2>1, <2>2 DEF Deed
  <2>7. \A u \in tasks' :
            \/ u \in tasks /\ u.act # r.act
            \/ /\ u.at \in {"post", "charge", "fallback"} /\ u.req = Len(wire) + 1 /\ u.act = r.act
               /\ r.stripe = (u.at # "post")
    BY <2>1, <2>2, <2>3, LoadNow
  <2>. QED
    BY <1>1, <2>2, <2>4, <2>5, <2>6, <2>7, RequestAdded
<1>8. ASSUME NEW t \in tasks, Goes(t) PROVE RequestInv'
  <2>1. PICK at \in {"auth", "confirm"} :
           /\ tasks' = (tasks \ {t}) \cup {Gone(t, at)} /\ wire' = wire
           /\ IF at = "auth" THEN t.at = "check" ELSE t.at \in {"charge", "fallback"} /\ wire[t.req].state = "action"
    BY <1>8 DEF Goes, Move, Gone, host
  <2>2. Gone(t, at).act = t.act /\ Gone(t, at).req = t.req /\ Gone(t, at).at = at
    BY <1>2, GoesFields DEF Stages
  <2>3. Sound(t)
    BY <1>2
  <2>4. Sound(Gone(t, at))
    <3>1. CASE at = "auth"
      BY <2>1, <2>2, <2>3, <3>1 DEF Sound, Unsent, Before
    <3>2. CASE at = "confirm"
      <4>1. t.at \in {"charge", "fallback"} /\ wire[t.req].state = "action" /\ HasSent(t)
        BY <2>1, <2>3, <3>2 DEF Sound, Before
      <4>2. HasSent(Gone(t, at))
        BY <2>2, <3>2, <4>1 DEF HasSent
      <4>. QED
        BY <2>2, <3>2, <4>2 DEF Sound, Before
    <3>. QED
      BY <3>1, <3>2
  <2>. QED
    BY <1>1, <2>1, <2>4, RequestsStay
<1>9. ASSUME NEW t \in tasks, CheckChallenges(t) PROVE RequestInv'
  BY <1>3, <1>9 DEF CheckChallenges, host
<1>10. ASSUME NEW t \in tasks, NEW ok, Ended(t, ok) PROVE RequestInv'
  BY <1>3, <1>10 DEF Ended, Quits, host
<1>11. ASSUME NEW t \in tasks, NEW s \in {"booked", "pending", "refused"}, Concluded(t, s) PROVE RequestInv'
  <2>1. t.at = "confirm" /\ tasks' = tasks \ {t}
    BY <1>11 DEF Concluded, Quits
  <2>2. HasSent(t)
    BY <1>2, <2>1 DEF Sound, Before
  <2>3. t.req \in DOMAIN wire /\ wire[t.req].act = t.act /\ wire[t.req].stripe
        /\ wire[t.req].state # "missing"
    BY <2>1, <2>2 DEF HasSent
  <2>4. StateIs(t.req, s)
    BY <1>11, <2>3 DEF Concluded, StateIs
  <2>5. wire[t.req].goods # None
    BY <2>3 DEF RequestInv
  <2>6. ASSUME NEW u \in tasks', u.at = "confirm" PROVE u.req # t.req
    <3>1. u \in tasks /\ u.act # t.act
      BY <2>1, LoadNow
    <3>2. wire[u.req].act = u.act
      BY <1>2, <2>6, <3>1 DEF Sound, Before, HasSent
    <3>. QED
      BY <2>3, <3>1, <3>2
  <2>. QED
    BY <1>1, <2>1, <2>3, <2>4, <2>5, <2>6, RequestStated
<1>12. ASSUME NEW i \in DOMAIN wire, NEW s \in {"action", "pending", "booked", "refused", "missing"}, Decides(i, s)
       PROVE  RequestInv'
  <2>1. StateIs(i, s) /\ tasks' = tasks /\ wire[i].state \in {"sent", "pending"}
        /\ (s = "pending" => wire[i].goods # None)
    BY <1>12 DEF Decides, Settle, StateIs
  <2>2. ASSUME NEW u \in tasks, u.at = "confirm" PROVE u.req # i
    <3>1. wire[u.req].state = "action"
      BY <1>2, <2>2 DEF Sound, Before, HasSent
    <3>. QED
      BY <2>1, <3>1
  <2>. QED
    BY <1>1, <2>1, <2>2, RequestStated
<1>13. ASSUME NEW n \in DOMAIN tokens, NEW st \in {redux, Loaded}, NEW running \in {{}, tasks},
              NEW again \in BOOLEAN, Mounts(n, st, running, again)
       PROVE  RequestInv'
  <2>1. wire' = wire /\ (tasks' = running \/ tasks' = running \cup {Returned(n, st)})
    BY <1>13, MountEffect
  <2>2. Sound(Returned(n, st))
    <3>1. Returned(n, st).act = NextAct /\ Returned(n, st).at = "auth"
      BY DEF Returned
    <3>. QED
      BY <1>2, <3>1 DEF Sound, Unsent, Before
  <2>. QED
    BY <1>1, <2>1, <2>2, RequestsStay
<1>14. ASSUME NEW t \in tasks, StripeMissing(t) PROVE RequestInv'
  <2> DEFINE r == Request(t, 0, TRUE)
  <2>1. /\ wire' = Append(wire, r) /\ r \in Requests
        /\ r.act = t.act /\ r.goods = t.goods /\ r.stripe /\ r.state = "sent"
        /\ t.at = "charge" /\ wire[t.req].state = "missing" /\ acts' = acts
        /\ tasks' = (tasks \ {t}) \cup {FallingBack(t)}
        /\ FallingBack(t).at = "fallback" /\ FallingBack(t).req = Len(wire) + 1
        /\ FallingBack(t).act = t.act
    BY <1>14, MissingEffect
  <2> HIDE DEF r
  <2>2. HasSent(t) /\ t.goods = acts[t.act].goods
    BY <1>2, <2>1 DEF Sound, Before, Deed
  <2>3. \A i \in DOMAIN wire : wire[i].act = r.act => wire[i].state = "missing"
    BY <2>1, <2>2 DEF HasSent
  <2>4. r.goods # None
    <3>1. t.req \in DOMAIN wire /\ wire[t.req].act = t.act /\ wire[t.req].stripe
      BY <2>1, <2>2 DEF HasSent
    <3>. QED
      BY <2>1, <2>2, <3>1 DEF RequestInv
  <2>5. \A u \in tasks' :
            \/ u \in tasks /\ u.act # r.act
            \/ /\ u.at \in {"post", "charge", "fallback"} /\ u.req = Len(wire) + 1 /\ u.act = r.act
               /\ r.stripe = (u.at # "post")
    <3>1. \A u \in tasks \ {t} : u.act # r.act
      BY <2>1, LoadNow
    <3>2. r.stripe = TRUE
      BY <1>14, MissingEffect DEF r
    <3>. QED
      BY <2>1, <3>1, <3>2
  <2>6. r.goods = acts'[r.act].goods
    BY <2>1, <2>2
  <2>. QED
    BY <1>1, <2>1, <2>3, <2>4, <2>5, <2>6, RequestAdded
<1>. QED
  BY <1>4, <1>5, <1>6, <1>7, <1>8, <1>9, <1>10, <1>11, <1>12, <1>13, <1>14 DEF Step
------------------------------------------------------------------------------
(* What is booked was requested.                                           *)

BookedStays ==
    \A i \in DOMAIN wire :
        /\ i \in DOMAIN wire' /\ wire'[i].act = wire[i].act /\ wire'[i].stripe = wire[i].stripe
        /\ wire[i].state = "booked" => wire'[i].state = "booked"

LEMMA WireStays ==
    ASSUME UNCHANGED wire
    PROVE  BookedStays
BY DEF BookedStays

LEMMA WireLonger ==
    ASSUME TypeInv, NEW r \in Requests, wire' = Append(wire, r)
    PROVE  BookedStays
<1>1. wire \in Seq(Requests)
  BY InvTypes
<1>2. \A i \in DOMAIN wire : i \in DOMAIN wire' /\ wire'[i] = wire[i]
  BY <1>1, Appended
<1>. QED
  BY <1>2 DEF BookedStays

LEMMA WireStated ==
    ASSUME TypeInv, NEW i \in DOMAIN wire, NEW state \in {"action", "pending", "booked", "refused", "missing"},
           StateIs(i, state), wire[i].state # "booked"
    PROVE  BookedStays
BY Stated DEF BookedStays

BackedIn(w, b) == \E i \in DOMAIN w : w[i].act = b /\ w[i].state = "booked"

LEMMA BackedStays ==
    ASSUME BookedStays, NEW b
    PROVE  BackedIn(wire, b) => BackedIn(wire', b)
BY DEF BookedStays, BackedIn

LEMMA BooksAfter ==
    ASSUME TypeInv, BookInv, BookedStays,
           \/ books' = books
           \/ \E b \in DOMAIN acts : books' = Append(books, b) /\ BackedIn(wire', b)
    PROVE  BookInv'
<1>1. books \in Seq(DOMAIN acts)
  BY InvTypes
<1>2. \A k \in DOMAIN books : BackedIn(wire, books[k])
  BY DEF BookInv, BackedIn
<1>3. \A b : BackedIn(wire, b) => BackedIn(wire', b)
  BY BackedStays
<1>4. CASE books' = books
  BY <1>2, <1>3, <1>4 DEF BookInv, BackedIn
<1>5. ASSUME NEW b \in DOMAIN acts, books' = Append(books, b), BackedIn(wire', b)
      PROVE  BookInv'
  <2>1. /\ \A k \in DOMAIN books : books'[k] = books[k]
        /\ \A k \in DOMAIN books' : k \in DOMAIN books \/ k = Len(books) + 1
        /\ books'[Len(books) + 1] = b
    BY <1>1, <1>5, Appended
  <2>2. ASSUME NEW k \in DOMAIN books' PROVE BackedIn(wire', books'[k])
    BY <1>2, <1>3, <1>5, <2>1
  <2>. QED
    BY <2>2 DEF BookInv, BackedIn
<1>. QED
  BY <1>4, <1>5

LEMMA BookKept ==
    ASSUME TypeInv, LoadInv, DeedInv, RequestInv, BookInv, ScreenInv, Step
    PROVE  BookInv'
<1>1. /\ \A t \in tasks : t \in Tasks /\ Sound(t) /\ t.act \in DOMAIN acts
      /\ \A i \in DOMAIN wire : wire[i].act \in DOMAIN acts
  BY InvTypes, SoundTasks
<1>2. ASSUME BookedStays, books' = books PROVE BookInv'
  BY <1>2, BooksAfter
<1>3. CASE Idle
  BY <1>2, <1>3, WireStays DEF Idle
<1>4. ASSUME NEW k \in Kinds, Press(k) PROVE BookInv'
  <2>1. UNCHANGED books
    BY <1>4, PressEffect
  <2>2. BookedStays
    BY <1>4, PressEffect, WireStays, WireLonger
  <2>. QED
    BY <1>2, <2>1, <2>2
<1>5. ASSUME NEW t \in tasks, NEW v \in BOOLEAN, TokenIssued(t, v) PROVE BookInv'
  <2>1. UNCHANGED <<wire, books, receipt>>
    BY <1>5, IssueEffect
  <2>. QED
    BY <1>2, <2>1, WireStays
<1>6. ASSUME NEW t \in tasks, NEW v \in BOOLEAN, AuthAnswered(t, v) PROVE BookInv'
  <2>1. PICK r \in Requests : wire' = Append(wire, r) /\ UNCHANGED <<books, receipt>>
    BY <1>6, AuthEffect
  <2>. QED
    BY <1>2, <2>1, WireLonger
<1>7. ASSUME NEW t \in tasks, Goes(t) \/ CheckChallenges(t) PROVE BookInv'
  BY <1>2, <1>7, WireStays DEF Goes, CheckChallenges, host
<1>8. ASSUME NEW t \in tasks, NEW ok \in BOOLEAN, Ended(t, ok) PROVE BookInv'
  BY <1>2, <1>8, WireStays DEF Ended, host
<1>9. ASSUME NEW t \in tasks, NEW s \in {"booked", "pending", "refused"}, Concluded(t, s) PROVE BookInv'
  <2>1. t.at = "confirm"
    BY <1>9 DEF Concluded
  <2>2. /\ t.req \in DOMAIN wire /\ wire[t.req].act = t.act /\ wire[t.req].stripe
        /\ wire[t.req].state = "action"
    BY <1>1, <2>1 DEF Sound, Before, HasSent
  <2>3. StateIs(t.req, s)
    BY <1>9, <2>2 DEF Concluded, StateIs
  <2>4. BookedStays
    BY <2>2, <2>3, WireStated
  <2>5. t.req \in DOMAIN wire' /\ wire'[t.req].act = t.act /\ wire'[t.req].stripe /\ wire'[t.req].state = s
    BY <2>2, <2>3, Stated
  <2>6. books' = books \/ (books' = Append(books, t.act) /\ BackedIn(wire', t.act))
    BY <2>2, <2>3, <2>5 DEF StateIs, BackedIn
  <2>. QED
    BY <1>1, <2>4, <2>6, BooksAfter
<1>10. ASSUME NEW i \in DOMAIN wire, NEW s \in {"action", "pending", "booked", "refused", "missing"}, Decides(i, s)
       PROVE  BookInv'
  <2>1. StateIs(i, s) /\ wire[i].state # "booked"
    BY <1>10 DEF Decides, Settle, StateIs
  <2>2. BookedStays
    BY <2>1, WireStated
  <2>3. i \in DOMAIN wire' /\ wire'[i].act = wire[i].act /\ wire'[i].state = s
    BY <2>1, Stated
  <2>4. books' = books \/ (books' = Append(books, wire[i].act) /\ BackedIn(wire', wire[i].act))
    <3>1. CASE s = "booked"
      <4>1. BackedIn(wire', wire[i].act)
        BY <2>3, <3>1 DEF BackedIn
      <4>. QED
        BY <2>1, <3>1, <4>1 DEF StateIs
    <3>2. CASE s # "booked"
      BY <2>1, <3>2 DEF StateIs
    <3>. QED
      BY <3>1, <3>2
  <2>. QED
    BY <1>1, <2>2, <2>4, BooksAfter
<1>11. ASSUME NEW n \in DOMAIN tokens, NEW st \in {redux, Loaded}, NEW running \in {{}, tasks},
              NEW again \in BOOLEAN, Mounts(n, st, running, again)
       PROVE  BookInv'
  <2>1. UNCHANGED <<wire, books>>
    BY <1>11, MountEffect
  <2>. QED
    BY <1>2, <2>1, WireStays
<1>12. ASSUME NEW t \in tasks, StripeMissing(t) PROVE BookInv'
  BY <1>2, <1>12, MissingEffect, WireLonger
<1>. QED
  BY <1>3, <1>4, <1>5, <1>6, <1>7, <1>8, <1>9, <1>10, <1>11, <1>12 DEF Step
------------------------------------------------------------------------------
(* A press that went to the issuer is over.                                *)

\* Handlers and requests of a step are those of acts under way, or of the new act.
Inherited ==
    /\ \A u \in tasks' : u.act = NextAct \/ \E t \in tasks : u.act = t.act
    /\ \A i \in DOMAIN wire' :
        \/ wire'[i].act = NextAct
        \/ \E t \in tasks : wire'[i].act = t.act
        \/ \E j \in DOMAIN wire : wire'[i].act = wire[j].act

\* The tab gets to a return page from the issuer, and to the issuer from a check.
Travels ==
    /\ url' \in {url, 0} \/ (page = "issuer" /\ url' = challenge)
    /\ page' = "issuer" =>
        \/ \E t \in tasks : CheckChallenges(t)
        \/ page = "issuer" /\ UNCHANGED <<challenge, acts, tokens, tasks>>

LEMMA WireGrows ==
    ASSUME TypeInv, NEW r \in Requests, wire' = Append(wire, r)
    PROVE  \A i \in DOMAIN wire' : wire'[i].act = r.act \/ \E j \in DOMAIN wire : wire'[i].act = wire[j].act
<1>1. wire \in Seq(Requests)
  BY InvTypes
<1>2. /\ wire'[Len(wire) + 1] = r /\ \A i \in DOMAIN wire : wire'[i] = wire[i]
      /\ \A i \in DOMAIN wire' : i \in DOMAIN wire \/ i = Len(wire) + 1
  BY <1>1, Appended
<1>. QED
  BY <1>2

LEMMA StepsInherit ==
    ASSUME TypeInv, LoadInv, DeedInv, RequestInv, ScreenInv, OverInv, Step
    PROVE  Inherited /\ Travels
<1>1. /\ Len(acts) \in Nat /\ Len(tokens) \in Nat /\ Len(wire) \in Nat
      /\ \A t \in tasks : t \in Tasks /\ Sound(t)
      /\ page = "issuer" => tasks = {}
  BY InvTypes, SoundTasks DEF OverInv
<1>2. ASSUME tasks' \subseteq tasks, wire' = wire PROVE Inherited
  BY <1>2 DEF Inherited
<1>3. CASE Idle
  BY <1>2, <1>3 DEF Idle, Travels
<1>4. ASSUME NEW k \in Kinds, Press(k) PROVE Inherited /\ Travels
  <2>1. /\ page = "form" /\ tasks' = tasks \cup {Pressed(k)} /\ UNCHANGED <<page, url>>
        /\ wire' = wire \/ \E r \in Requests : r.act = NextAct /\ wire' = Append(wire, r)
    <3>1. Request(Pressed(k), 0, k = "stripe").act = NextAct
      BY DEF Request, Pressed
    <3>. QED
      BY <1>4, <3>1, PressEffect
  <2>2. Pressed(k).act = NextAct
    BY DEF Pressed
  <2>. QED
    BY <2>1, <2>2, WireGrows DEF Inherited, Travels
<1>5. ASSUME NEW t \in tasks, NEW v \in BOOLEAN, TokenIssued(t, v) PROVE Inherited /\ Travels
  <2>1. tasks' = (tasks \ {t}) \cup {Issued(t, v)} /\ UNCHANGED <<page, url, wire>>
    BY <1>5, IssueEffect
  <2>2. Issued(t, v).act = t.act
    BY <1>1, IssuedFields
  <2>3. page # "issuer"
    BY <1>1
  <2>. QED
    BY <2>1, <2>2, <2>3 DEF Inherited, Travels
<1>6. ASSUME NEW t \in tasks, NEW v \in BOOLEAN, AuthAnswered(t, v) PROVE Inherited /\ Travels
  <2>1. PICK vref \in Nat :
           /\ tasks' = (tasks \ {t}) \cup {Posting(t, vref)} /\ UNCHANGED <<page, url>>
           /\ wire' = Append(wire, Request(t, vref, FALSE)) /\ Request(t, vref, FALSE) \in Requests
    BY <1>6, AuthEffect
  <2>2. Posting(t, vref).act = t.act
    BY <1>1, PostingFields
  <2>3. Request(t, vref, FALSE).act = t.act
    BY DEF Request
  <2>4. page # "issuer"
    BY <1>1
  <2>. QED
    BY <2>1, <2>2, <2>3, <2>4, WireGrows DEF Inherited, Travels
<1>7. ASSUME NEW t \in tasks, Goes(t) PROVE Inherited /\ Travels
  <2>1. PICK at \in {"auth", "confirm"} : tasks' = (tasks \ {t}) \cup {Gone(t, at)}
    BY <1>7 DEF Goes, Move, Gone
  <2>2. UNCHANGED <<page, url, wire>>
    BY <1>7 DEF Goes, host
  <2>3. Gone(t, at).act = t.act
    BY <1>1, GoesFields DEF Stages
  <2>4. page # "issuer"
    BY <1>1
  <2>. QED
    BY <2>1, <2>2, <2>3, <2>4 DEF Inherited, Travels
<1>8. ASSUME NEW t \in tasks, CheckChallenges(t) PROVE Inherited /\ Travels
  BY <1>2, <1>8 DEF CheckChallenges, host, Travels
<1>9. ASSUME NEW t \in tasks, NEW w, NEW ok, Quits(t, w, ok) PROVE Travels /\ tasks' \subseteq tasks
  BY <1>1, <1>9 DEF Quits, Shows, Travels
<1>10. ASSUME NEW t \in tasks, NEW ok, Ended(t, ok) PROVE Inherited /\ Travels
  BY <1>2, <1>9, <1>10 DEF Ended, host
<1>11. ASSUME TypeInv, NEW i \in DOMAIN wire, NEW s \in {"action", "pending", "booked", "refused", "missing"},
              StateIs(i, s), tasks' \subseteq tasks
       PROVE  Inherited
  BY <1>11, Stated DEF Inherited
<1>12. ASSUME NEW t \in tasks, NEW s \in {"booked", "pending", "refused"}, Concluded(t, s) PROVE Inherited /\ Travels
  <2>1. t.at = "confirm" /\ Quits(t, 1, s # "refused")
    BY <1>12 DEF Concluded
  <2>2. t.req \in DOMAIN wire /\ wire[t.req].act = t.act
    BY <1>1, <2>1 DEF Sound, Before, HasSent
  <2>3. StateIs(t.req, s)
    BY <1>12, <2>2 DEF Concluded, StateIs
  <2>. QED
    BY <1>9, <1>11, <2>1, <2>2, <2>3
<1>13. ASSUME NEW i \in DOMAIN wire, NEW s \in {"action", "pending", "booked", "refused", "missing"}, Decides(i, s)
       PROVE  Inherited /\ Travels
  <2>1. StateIs(i, s) /\ UNCHANGED <<tasks, url, page, challenge, acts, tokens>>
    BY <1>13 DEF Decides, Settle, StateIs
  <2>. QED
    BY <1>11, <2>1 DEF Travels
<1>14. ASSUME NEW n \in DOMAIN tokens, NEW st \in {redux, Loaded}, NEW running \in {{}, tasks},
              NEW again \in BOOLEAN, Mounts(n, st, running, again)
       PROVE  Inherited /\ Travels
  <2>1. /\ wire' = wire /\ (tasks' = running \/ tasks' = running \cup {Returned(n, st)})
        /\ page' = "return" /\ url' = n /\ (again => n = url)
        /\ ~again => page = "issuer" /\ n = challenge
    BY <1>14, MountEffect
  <2>2. Returned(n, st).act = NextAct
    BY DEF Returned
  <2>. QED
    BY <2>1, <2>2 DEF Inherited, Travels
<1>15. ASSUME NEW t \in tasks, StripeMissing(t) PROVE Inherited /\ Travels
  <2>1. /\ tasks' = (tasks \ {t}) \cup {FallingBack(t)} /\ UNCHANGED <<page, url>>
        /\ wire' = Append(wire, Request(t, 0, TRUE)) /\ Request(t, 0, TRUE) \in Requests
        /\ FallingBack(t).act = t.act /\ Request(t, 0, TRUE).act = t.act
    BY <1>15, MissingEffect
  <2>2. page # "issuer"
    BY <1>1
  <2>. QED
    BY <2>1, <2>2, WireGrows DEF Inherited, Travels
<1>. QED
  BY <1>3, <1>4, <1>5, <1>6, <1>7, <1>8, <1>10, <1>12, <1>13, <1>14, <1>15 DEF Step

LEMMA OverStays ==
    ASSUME Inherited, NextAct \notin DOMAIN acts, NEW p \in DOMAIN acts, Over(tasks, wire, p)
    PROVE  Over(tasks', wire', p)
BY DEF Inherited, Over

LEMMA OverKept ==
    ASSUME TypeInv, LoadInv, ChainInv, DeedInv, RequestInv, ScreenInv, OverInv, Step
    PROVE  OverInv'
<1>1. Growth /\ Steady /\ Inherited /\ Travels
  BY StepsGrow, Steadily, StepsInherit
<1>2. /\ DOMAIN tokens = 1 .. Len(tokens) /\ Len(tokens) \in Nat
      /\ url \in 0 .. Len(tokens) /\ challenge \in 0 .. Len(tokens)
      /\ page = "issuer" => challenge # 0
      /\ \A n \in DOMAIN tokens : tokens[n].act \in DOMAIN acts
      /\ NextAct \notin DOMAIN acts
      /\ \A a \in DOMAIN acts : acts[a].of \in DOMAIN acts
  BY <1>1, InvTypes DEF Steady, ChainInv, PressIn
<1>3. (url # 0 => url \in DOMAIN tokens) /\ (page = "issuer" => challenge \in DOMAIN tokens)
      /\ \A n \in DOMAIN tokens : n # 0
  BY <1>2
<1>4. \A p \in DOMAIN acts : Over(tasks, wire, p) => Over(tasks', wire', p)
  BY <1>1, <1>2, OverStays
<1>5. /\ url # 0 => Over(tasks', wire', tokens[url].act) /\ tokens'[url] = tokens[url]
      /\ page = "issuer" => Over(tasks', wire', tokens[challenge].act) /\ tokens'[challenge] = tokens[challenge]
  BY <1>1, <1>2, <1>3, <1>4 DEF OverInv, Steady
<1>6. \A a \in DOMAIN acts : acts'[a].of # a => Over(tasks', wire', acts'[a].of)
  BY <1>1, <1>2, <1>4 DEF OverInv, Steady
<1>7. \A a \in DOMAIN acts' \ DOMAIN acts :
        \/ acts'[a].of = a
        \/ \E n \in DOMAIN tokens : acts'[a].of = tokens[n].act /\ (n = url \/ (page = "issuer" /\ n = challenge))
  <2>1. CASE Same \/ \E t \in tasks, v \in BOOLEAN : NewToken(t, v)
    BY <2>1 DEF Same, NewToken
  <2>2. ASSUME NEW g \in Goods, NewPress(g) PROVE acts'[NextAct].of = NextAct
    BY <2>2, NewestAct DEF NewPress
  <2>3. ASSUME NEW n \in DOMAIN tokens, NEW st, NEW again, NewReturn(n, st, again)
        PROVE  acts'[NextAct].of = tokens[n].act /\ (n = url \/ (page = "issuer" /\ n = challenge))
    BY <2>3, NewestAct DEF NewReturn
  <2>. QED
    BY <1>1, <2>1, <2>2, <2>3 DEF Growth, Steady
<1>8. \A a \in DOMAIN acts' : acts'[a].of # a => Over(tasks', wire', acts'[a].of)
  BY <1>3, <1>5, <1>6, <1>7
<1>9. url' # 0 => Over(tasks', wire', tokens'[url'].act)
  BY <1>1, <1>5 DEF Travels
<1>10. ASSUME page' = "issuer"
       PROVE  /\ tasks' = {} /\ Over(tasks', wire', tokens'[challenge'].act)
              /\ \A a \in DOMAIN acts' : First(acts', a) => acts'[a].of # tokens'[challenge'].act
  <2>1. CASE page = "issuer" /\ UNCHANGED <<challenge, acts, tokens, tasks>>
    BY <1>5, <2>1 DEF OverInv
  <2>2. ASSUME NEW t \in tasks, CheckChallenges(t)
        PROVE  /\ tasks' = {} /\ Over(tasks', wire', tokens'[challenge'].act)
               /\ \A a \in DOMAIN acts' : First(acts', a) => acts'[a].of # tokens'[challenge'].act
    <3>1. /\ t.at = "check" /\ tasks' = {} /\ challenge' = t.token
          /\ UNCHANGED <<acts, tokens, wire>>
      BY <2>2 DEF CheckChallenges, host
    <3>2. Deed(t) /\ Sound(t) /\ t \in Tasks
      BY InvTypes, SoundTasks DEF DeedInv
    <3>3. t.from = "form" /\ tokens[t.token].act = t.act
      BY <3>1, <3>2 DEF Deed, OfForm, OfReturn, Tasks
    <3>4. \A i \in DOMAIN wire : wire[i].act # t.act
      BY <3>1, <3>2 DEF Sound, Unsent, Before
    <3>5. \A a \in DOMAIN acts : First(acts, a) => acts[a].of # t.act
      BY DEF OverInv, Over, First
    <3>. QED
      BY <3>1, <3>3, <3>4, <3>5 DEF Over
  <2>. QED
    BY <1>1, <1>10, <2>1, <2>2 DEF Travels
<1>11. \A a, b \in DOMAIN acts' :
         First(acts', a) /\ First(acts', b) /\ acts'[a].of = acts'[b].of => a = b
  <2>1. \A a, b \in DOMAIN acts :
         First(acts', a) /\ First(acts', b) /\ acts'[a].of = acts'[b].of => a = b
    BY <1>1 DEF OverInv, Steady, First
  <2>2. ASSUME NEW a \in DOMAIN acts' \ DOMAIN acts, NEW b \in DOMAIN acts, First(acts', a), First(acts', b)
        PROVE  acts'[a].of # acts'[b].of
    <3>1. CASE Same \/ \E t \in tasks, v \in BOOLEAN : NewToken(t, v)
      BY <3>1 DEF Same, NewToken
    <3>2. a = NextAct
      BY <1>1 DEF Steady
    <3>3. ASSUME NEW g \in Goods, NewPress(g) PROVE FALSE
      <4>1. acts'[NextAct].of = NextAct
        BY <3>3, NewestAct DEF NewPress
      <4>. QED
        BY <2>2, <3>2, <4>1 DEF First
    <3>4. ASSUME NEW n \in DOMAIN tokens, NEW st, NEW again \in BOOLEAN, NewReturn(n, st, again)
          PROVE  acts'[a].of # acts'[b].of
      <4>1. acts'[a].of = tokens[n].act /\ acts'[a].again = again
        BY <3>2, <3>4, NewestAct DEF NewReturn
      <4>2. page = "issuer" /\ n = challenge
        BY <2>2, <3>4, <4>1 DEF NewReturn, First
      <4>3. First(acts, b) /\ acts'[b] = acts[b]
        BY <1>1, <2>2 DEF Steady, First
      <4>. QED
        BY <4>1, <4>2, <4>3 DEF OverInv
    <3>. QED
      BY <1>1, <3>1, <3>3, <3>4 DEF Growth
  <2>3. \A a, b \in DOMAIN acts' : a \notin DOMAIN acts /\ b \notin DOMAIN acts => a = b
    BY <1>1 DEF Steady
  <2>. QED
    BY <2>1, <2>2, <2>3
<1>. QED
  BY <1>8, <1>9, <1>10, <1>11 DEF OverInv
------------------------------------------------------------------------------
(* The pages, and the two copies of the deposit.                           *)

LEMMA ScreenStays ==
    ASSUME ScreenInv, Steady, url \in DOMAIN tokens \cup {0}, UNCHANGED <<page, flow, goods, url>>,
           kept'.deposit = kept.deposit, redux'.deposit = redux.deposit
    PROVE  ScreenInv'
BY DEF ScreenInv, Steady

LEMMA ScreenQuits ==
    ASSUME TypeInv, DeedInv, ScreenInv, NEW t \in tasks, NEW w, NEW ok, Quits(t, w, ok)
    PROVE  ScreenInv'
<1>1. /\ kept'.deposit \in {kept.deposit, None} /\ kept'.deposit \in {redux'.deposit, None}
      /\ flow' = flow /\ tokens' = tokens /\ Shows(t, ok)
  BY DEF Quits, Forgets, ScreenInv
<1>2. CASE UNCHANGED <<page, goods, url, receipt>>
  BY <1>1, <1>2 DEF ScreenInv
<1>3. CASE page' = "receipt"
  BY <1>1, <1>3 DEF ScreenInv
<1>4. CASE page = "return" /\ t.from = "return" /\ t.flow = "schedule" /\ page' = "form"
  <2>1. OfReturn(t)
    BY <1>4 DEF DeedInv, Deed
  <2>2. flow = "schedule"
    BY <1>4, <2>1 DEF OfReturn, ScreenInv
  <2>. QED
    BY <1>1, <1>4, <2>2 DEF ScreenInv, FlowKinds
<1>. QED
  BY <1>1, <1>2, <1>3, <1>4 DEF Shows

LEMMA ScreenKept ==
    ASSUME TypeInv, LoadInv, DeedInv, RequestInv, ScreenInv, Step
    PROVE  ScreenInv'
<1>1. Growth /\ Steady
  BY StepsGrow, Steadily
<1>2. url \in DOMAIN tokens \cup {0} /\ kept \in Kept /\ redux \in Stored
  BY InvTypes DEF SimpleTypes
<1>3. CASE Idle
  BY <1>3 DEF Idle
<1>4. ASSUME NEW k \in Kinds, Press(k) PROVE ScreenInv'
  <2>1. UNCHANGED <<page, flow, goods, url>>
    BY <1>4, PressEffect
  <2>2. /\ IF k = "3ds" /\ flow # "deposit"
             THEN /\ redux' = [redux EXCEPT !.mapped = goods]
                  /\ kept' = [kept EXCEPT !.mapped = goods]
             ELSE redux' = redux /\ kept' = kept
    BY <1>4, PressEffect
  <2>3. kept'.deposit = kept.deposit /\ redux'.deposit = redux.deposit
    BY <1>2, <2>2 DEF Kept, Stored
  <2>. QED
    BY <1>1, <1>2, <2>1, <2>3, ScreenStays
<1>5. ASSUME NEW t \in tasks, NEW v \in BOOLEAN, TokenIssued(t, v) PROVE ScreenInv'
  BY <1>1, <1>2, <1>5, IssueEffect, ScreenStays
<1>6. ASSUME NEW t \in tasks, NEW v \in BOOLEAN, AuthAnswered(t, v) PROVE ScreenInv'
  <2>1. UNCHANGED <<page, flow, goods, url, redux>> /\ kept'.deposit = kept.deposit
    BY <1>6, AuthEffect
  <2>. QED
    BY <1>1, <1>2, <2>1, ScreenStays
<1>7. ASSUME NEW t \in tasks, Goes(t) PROVE ScreenInv'
  BY <1>1, <1>2, <1>7, ScreenStays DEF Goes, store
<1>8. ASSUME NEW t \in tasks, CheckChallenges(t) PROVE ScreenInv'
  BY <1>8 DEF CheckChallenges, store, ScreenInv
<1>9. ASSUME NEW t \in tasks, NEW ok \in BOOLEAN, Ended(t, ok) PROVE ScreenInv'
  BY <1>9, ScreenQuits DEF Ended
<1>10. ASSUME NEW t \in tasks, NEW s \in {"booked", "pending", "refused"}, Concluded(t, s) PROVE ScreenInv'
  BY <1>10, ScreenQuits DEF Concluded
<1>11. ASSUME NEW i \in DOMAIN wire, NEW s \in {"action", "pending", "booked", "refused", "missing"}, Decides(i, s)
       PROVE  ScreenInv'
  BY <1>1, <1>2, <1>11, ScreenStays DEF Decides, Settle, store
<1>12. ASSUME NEW n \in DOMAIN tokens, NEW st \in {redux, Loaded}, NEW running \in {{}, tasks},
              NEW again \in BOOLEAN, Mounts(n, st, running, again)
       PROVE  ScreenInv'
  <2>1. /\ page' = "return" /\ flow' = tokens[n].flow /\ url' = n /\ n # 0
        /\ redux' = st /\ UNCHANGED <<kept, tokens>>
    BY <1>12, MountEffect
  <2>2. st.deposit \in {redux.deposit, kept.deposit}
    BY DEF Loaded
  <2>. QED
    BY <2>1, <2>2 DEF ScreenInv
<1>13. ASSUME NEW t \in tasks, StripeMissing(t) PROVE ScreenInv'
  BY <1>1, <1>2, <1>13, MissingEffect, ScreenStays
<1>. QED
  BY <1>3, <1>4, <1>5, <1>6, <1>7, <1>8, <1>9, <1>10, <1>11, <1>12, <1>13 DEF Step
------------------------------------------------------------------------------
(* What the storage holds, as long as the overlay kept everybody out.      *)

LEMMA CrossedStays ==
    ASSUME TypeInv, DeedInv, ScreenInv, Step, ~crossed'
    PROVE  ~crossed
<1>1. crossed \in BOOLEAN
  BY InvTypes DEF SimpleTypes
<1>2. ASSUME NEW k \in Kinds, Press(k) PROVE ~crossed
  BY <1>1, <1>2, PressEffect
<1>3. ASSUME NEW t \in tasks, NEW v \in BOOLEAN, TokenIssued(t, v) \/ AuthAnswered(t, v) PROVE ~crossed
  BY <1>1, <1>3 DEF TokenIssued, AuthAnswered
<1>4. ASSUME NEW n \in DOMAIN tokens, NEW st \in {redux, Loaded}, NEW running \in {{}, tasks},
             NEW again \in BOOLEAN, Mounts(n, st, running, again)
      PROVE  ~crossed
  BY <1>4, MountEffect
<1>5. ASSUME NEW t \in tasks, StripeMissing(t) PROVE ~crossed
  BY <1>1, <1>5 DEF StripeMissing
<1>. QED
  BY <1>1, <1>2, <1>3, <1>4, <1>5
  DEF Step, Idle, Goes, CheckChallenges, Ended, Concluded, Quits, Decides, Settle

Shrinks ==
    /\ kept'.mapped \in {kept.mapped, None} /\ kept'.deposit \in {kept.deposit, None}
    /\ kept'.redirect \in {kept.redirect, NoRedirect} /\ kept'.vref \in {kept.vref, 0}

\* A handler that goes on, as far as the storage matters to it.
Follows(u, t) ==
    /\ u.act = t.act /\ u.flow = t.flow /\ u.goods = t.goods /\ u.from = t.from /\ u.token = t.token
    /\ u.at \in {"token", "check"} => u.at = t.at
    /\ u.at = "auth" /\ u.from = "return" => t.at = "auth" /\ u.vref = t.vref

LEMMA HoldsStay ==
    ASSUME Shrinks, NEW f, NEW g, Holds(f, g)
    PROVE  Holds(f, g)'
BY DEF Shrinks, Holds

LEMMA TokenHoldsStay ==
    ASSUME Shrinks, NEW f, NEW g, NEW n, tokens'[n] = tokens[n], HoldsToken(f, g, n)
    PROVE  HoldsToken(f, g, n)'
BY DEF Shrinks, HoldsToken, NoRedirect

LEMMA StoreStays ==
    ASSUME TypeInv, ChainInv, LoadInv', DeedInv, StoreInv, Steady, Shrinks,
           \A u \in tasks' :
              \/ u.from = "return" /\ u.at = "auth" /\ acts'[u.act].again
              \/ \E t \in tasks : Follows(u, t),
           page' = "issuer" => page = "issuer" /\ UNCHANGED challenge
    PROVE  StoreInv'
<1>1. /\ DOMAIN tokens = 1 .. Len(tokens) /\ Len(tokens) \in Nat /\ challenge \in 0 .. Len(tokens)
      /\ page = "issuer" => challenge # 0
      /\ \A n \in DOMAIN tokens : tokens[n].act \in DOMAIN acts
      /\ \A t \in tasks : t.act \in DOMAIN acts /\ t.token \in 0 .. Len(tokens) /\ Deed(t)
  BY InvTypes DEF DeedInv
<1>2. \A t \in tasks : /\ acts'[t.act] = acts[t.act]
                       /\ t.token # 0 => tokens'[t.token] = tokens[t.token]
  <2>1. \A t \in tasks : t.token # 0 => t.token \in DOMAIN tokens
    BY <1>1
  <2>. QED
    BY <1>1, <2>1 DEF Steady
<1>3. ASSUME NEW t \in tasks', NEW u \in tasks', t.from = "form"
      PROVE  u = t \/ acts'[u.act].again
  <2>1. CASE u.from = "return" /\ u.at = "auth" /\ acts'[u.act].again
    BY <2>1
  <2>2. ASSUME NEW u0 \in tasks, Follows(u, u0) PROVE u = t \/ acts'[u.act].again
    <3>1. PICK t0 \in tasks : Follows(t, t0)
      BY <1>3
    <3>2. u0 = t0 \/ acts[u0.act].again
      BY <1>3, <3>1 DEF StoreInv, Follows
    <3>3. CASE u0 = t0
      BY <2>2, <3>1, <3>3 DEF Follows, LoadInv
    <3>4. CASE acts[u0.act].again
      BY <1>2, <2>2, <3>4 DEF Follows
    <3>. QED
      BY <3>2, <3>3, <3>4
  <2>. QED
    BY <2>1, <2>2
<1>4. ASSUME NEW u \in tasks', u.at \in {"token", "check"} PROVE Holds(u.flow, u.goods)'
  <2>1. PICK t \in tasks : Follows(u, t)
    BY <1>4
  <2>2. Holds(t.flow, t.goods) /\ u.flow = t.flow /\ u.goods = t.goods
    BY <1>4, <2>1 DEF StoreInv, Follows
  <2>. QED
    BY <2>2, HoldsStay
<1>5. ASSUME NEW u \in tasks', u.at = "check" PROVE HoldsToken(u.flow, u.goods, u.token)'
  <2>1. PICK t \in tasks : Follows(u, t)
    BY <1>5
  <2>2. /\ HoldsToken(t.flow, t.goods, t.token) /\ u.flow = t.flow /\ u.goods = t.goods
        /\ u.token = t.token /\ t.at = "check"
    BY <1>5, <2>1 DEF StoreInv, Follows
  <2>3. t.token # 0
    BY <1>1, <2>2, InvTypes DEF Deed, OfForm, OfReturn, Tasks
  <2>. QED
    BY <1>2, <2>2, <2>3, TokenHoldsStay
<1>6. ASSUME page' = "issuer" PROVE IssuerHolds'
  <2> DEFINE k == tokens[challenge]
             g == acts[k.act].goods
  <2>1. page = "issuer" /\ challenge' = challenge /\ challenge \in DOMAIN tokens
    BY <1>1, <1>6
  <2>2. tokens'[challenge] = k /\ acts'[k.act].goods = g
    BY <1>1, <2>1 DEF Steady
  <2>3. Holds(k.flow, g) /\ HoldsToken(k.flow, g, challenge)
    BY <2>1 DEF StoreInv, IssuerHolds
  <2>4. IF k.flow = "deposit" THEN kept'.deposit \in {g, None} ELSE kept'.mapped \in {g, None}
    BY <2>3 DEF Shrinks, Holds
  <2>5. IF k.flow = "deposit"
        THEN kept'.redirect.goods \in {g, None} /\ kept'.redirect.vref \in {0, challenge}
        ELSE k.vref => kept'.vref \in {0, challenge}
    BY <2>3 DEF Shrinks, HoldsToken, NoRedirect
  <2>. QED
    BY <2>1, <2>2, <2>4, <2>5 DEF IssuerHolds, Holds, HoldsToken
<1>7. ASSUME NEW u \in tasks', u.from = "return", u.at = "auth", ~acts'[u.act].again
      PROVE  IF u.flow = "deposit" THEN u.vref \in {0, u.token}
             ELSE tokens'[u.token].vref => kept'.vref \in {0, u.token}
  <2>1. PICK t \in tasks : Follows(u, t)
    BY <1>7
  <2>2. /\ t.from = "return" /\ t.at = "auth" /\ ~acts[t.act].again
        /\ u.flow = t.flow /\ u.token = t.token /\ u.vref = t.vref
    BY <1>2, <1>7, <2>1 DEF Follows
  <2>3. IF t.flow = "deposit" THEN t.vref \in {0, t.token}
        ELSE tokens[t.token].vref => kept.vref \in {0, t.token}
    BY <2>2 DEF StoreInv
  <2>4. tokens'[t.token] = tokens[t.token]
    BY <1>1, <1>2, <2>2 DEF Deed, OfReturn
  <2>. QED
    BY <2>2, <2>3, <2>4 DEF Shrinks
<1>. QED
  BY <1>3, <1>4, <1>5, <1>6, <1>7 DEF StoreInv

LEMMA SameFollows ==
    ASSUME NEW t
    PROVE  Follows(t, t)
BY DEF Follows

LEMMA SameShrinks ==
    ASSUME kept' = kept
    PROVE  Shrinks
BY DEF Shrinks

LEMMA StorePressed ==
    ASSUME TypeInv, LoadInv, ScreenInv, NEW k \in Kinds, Press(k), ~crossed'
    PROVE  StoreInv'
<1>1. crossed' = (crossed \/ loading > 0) /\ loading \in Nat /\ tasks' = tasks \cup {Pressed(k)}
  BY PressEffect, LoadNow
<1>2. tasks' = {Pressed(k)}
  BY <1>1, LoadNow
<1>3. /\ Pressed(k).from = "form" /\ Pressed(k).flow = flow /\ Pressed(k).goods = goods
      /\ Pressed(k).at # "check" /\ (Pressed(k).at = "token" => k = "3ds")
  BY DEF Pressed, PressStage
<1>4. /\ page = "form" /\ page' = page /\ flow' = flow /\ goods' = goods
      /\ IF k = "3ds" /\ flow # "deposit"
           THEN kept' = [kept EXCEPT !.mapped = goods]
           ELSE kept' = kept
  BY PressEffect
<1>5. kept \in Kept
  BY InvTypes DEF SimpleTypes
<1>6. k = "3ds" => IF flow = "deposit" THEN kept'.deposit \in {goods, None} ELSE kept'.mapped \in {goods, None}
  BY <1>4, <1>5 DEF ScreenInv, Kept
<1>7. \A u \in tasks' : /\ u.from = "form" /\ u.at # "check"
                        /\ u.at = "token" => Holds(u.flow, u.goods)'
  <2>1. SUFFICES ASSUME NEW u \in tasks', u.at = "token" PROVE Holds(u.flow, u.goods)'
    BY <1>2, <1>3
  <2>2. u.flow = flow /\ u.goods = goods /\ k = "3ds"
    BY <1>2, <1>3, <2>1
  <2>. QED
    BY <1>6, <2>2 DEF Holds
<1>8. \A t, u \in tasks' : t = u
  BY <1>2
<1>. QED
  BY <1>4, <1>7, <1>8 DEF StoreInv

LEMMA StoreIssued ==
    ASSUME TypeInv, ChainInv, OverInv, DeedInv, Steady, StoreInv,
           NEW t \in tasks, NEW v \in BOOLEAN, TokenIssued(t, v)
    PROVE  StoreInv'
<1>1. /\ t \in Tasks /\ t.at = "token" /\ Len(tokens) \in Nat /\ NewToken(t, v) /\ Deed(t)
      /\ \A u \in tasks : u.act \in DOMAIN acts
  BY InvTypes, IssueEffect DEF NewToken, DeedInv
<1>2. t.from = "form"
  BY <1>1 DEF Deed, OfReturn, Tasks
<1>3. /\ tasks' = (tasks \ {t}) \cup {Issued(t, v)}
      /\ kept'.mapped = kept.mapped /\ kept'.deposit = kept.deposit
      /\ IF t.flow = "deposit"
           THEN kept'.redirect = [goods |-> t.goods, vref |-> Issued(t, v).vref]
           ELSE kept'.vref = IF v THEN Len(tokens) + 1 ELSE kept.vref
      /\ page' = page /\ acts' = acts
  BY IssueEffect
<1>4. /\ Issued(t, v).at = "check" /\ Issued(t, v).token = Len(tokens) + 1
      /\ Issued(t, v).vref = (IF v THEN Len(tokens) + 1 ELSE 0)
      /\ Issued(t, v).act = t.act /\ Issued(t, v).flow = t.flow
      /\ Issued(t, v).from = t.from /\ Issued(t, v).goods = t.goods
  BY <1>1, IssuedFields
<1>5. tokens'[Len(tokens) + 1].vref = v
  <2>1. tokens'[Len(tokens) + 1] = TokenOf(t, v)
    BY <1>1, NewestToken
  <2>2. TokenOf(t, v).vref = v
    BY DEF TokenOf
  <2>. QED
    BY <2>1, <2>2
<1>6. \A u \in tasks : u = t \/ acts[u.act].again
  BY <1>2 DEF StoreInv
<1>7. page' # "issuer"
  BY <1>3 DEF OverInv
<1>8. ASSUME NEW u \in tasks' PROVE u = Issued(t, v) \/ (u \in tasks /\ acts[u.act].again)
  BY <1>3, <1>6
<1>9. ASSUME NEW u \in tasks', u.from = "form" PROVE u = Issued(t, v)
  <2>1. SUFFICES ASSUME u \in tasks, acts[u.act].again, u # Issued(t, v) PROVE FALSE
    BY <1>8
  <2>2. t = u \/ acts[t.act].again
    BY <1>9, <2>1 DEF StoreInv
  <2>. QED
    BY <1>1, <1>2, <1>3, <1>9, <2>1, <2>2 DEF DeedInv, Deed, OfForm, PressIn, ChainInv
<1>10. \A x, u \in tasks' : x.from = "form" => u = x \/ acts'[u.act].again
  BY <1>3, <1>8, <1>9
<1>11. ASSUME NEW u \in tasks', u.at \in {"token", "check"}
       PROVE  Holds(u.flow, u.goods)' /\ (u.at = "check" => HoldsToken(u.flow, u.goods, u.token)')
  <2>1. u = Issued(t, v)
    <3>1. SUFFICES ASSUME u \in tasks PROVE u.from = "form"
      BY <1>3, <1>9
    <3>. QED
      BY <1>11, <3>1, InvTypes DEF DeedInv, Deed, OfReturn, Tasks
  <2>2. u.flow = t.flow /\ u.goods = t.goods /\ u.token = Len(tokens) + 1
    BY <1>4, <2>1
  <2>3. Holds(t.flow, t.goods)
    BY <1>1 DEF StoreInv
  <2>4. Holds(u.flow, u.goods)'
    BY <1>3, <2>2, <2>3 DEF Holds
  <2>5. CASE t.flow = "deposit"
    <3>1. kept'.redirect.goods = t.goods /\ kept'.redirect.vref \in {0, Len(tokens) + 1}
      BY <1>3, <1>4, <2>5
    <3>. QED
      BY <2>2, <2>4, <2>5, <3>1 DEF HoldsToken
  <2>6. CASE t.flow # "deposit"
    <3>1. tokens'[Len(tokens) + 1].vref => kept'.vref = Len(tokens) + 1
      BY <1>3, <1>5, <2>6
    <3>. QED
      BY <2>2, <2>4, <2>6, <3>1 DEF HoldsToken
  <2>. QED
    BY <2>5, <2>6
<1>12. \A u \in tasks' : ~(u.from = "return" /\ u.at = "auth" /\ ~acts'[u.act].again)
  BY <1>3, <1>4, <1>8
<1>. QED
  BY <1>7, <1>10, <1>11, <1>12 DEF StoreInv

LEMMA StoreChallenged ==
    ASSUME TypeInv, DeedInv, StoreInv, NEW t \in tasks, CheckChallenges(t)
    PROVE  StoreInv'
<1>1. /\ t.at = "check" /\ tasks' = {} /\ challenge' = t.token
      /\ UNCHANGED <<acts, tokens, kept>>
  BY DEF CheckChallenges, store
<1>2. t \in Tasks /\ Deed(t)
  BY InvTypes DEF DeedInv
<1>3. OfForm(t) /\ t.goods = acts[t.act].goods
  BY <1>1, <1>2 DEF Deed, OfReturn, Tasks
<1>4. tokens[t.token].act = t.act /\ tokens[t.token].flow = t.flow
  BY <1>1, <1>3 DEF OfForm
<1>5. Holds(t.flow, t.goods) /\ HoldsToken(t.flow, t.goods, t.token)
  BY <1>1 DEF StoreInv
<1>6. IssuerHolds'
  BY <1>1, <1>3, <1>4, <1>5 DEF IssuerHolds, Holds, HoldsToken
<1>. QED
  BY <1>1, <1>6 DEF StoreInv

LEMMA StoreReturned ==
    ASSUME TypeInv, StoreInv, NEW n \in DOMAIN tokens, NEW st \in {redux, Loaded},
           NEW running \in {{}, tasks}, Mounts(n, st, running, FALSE)
    PROVE  StoreInv'
<1>1. /\ page' = "return" /\ page = "issuer" /\ n = challenge /\ running = {}
      /\ UNCHANGED <<kept, tokens>>
      /\ tasks' = {} \/ tasks' = {Returned(n, st)}
  BY MountEffect
<1>2. HoldsToken(tokens[n].flow, acts[tokens[n].act].goods, n)
  BY <1>1 DEF StoreInv, IssuerHolds
<1>3. /\ Returned(n, st).from = "return" /\ Returned(n, st).at = "auth" /\ Returned(n, st).token = n
      /\ Returned(n, st).flow = tokens[n].flow
      /\ Returned(n, st).vref = IF tokens[n].flow = "deposit" THEN kept.redirect.vref ELSE 0
  BY DEF Returned
<1>4. \A u \in tasks' : u = Returned(n, st)
  BY <1>1
<1>5. \A u \in tasks' : IF u.flow = "deposit" THEN u.vref \in {0, u.token}
                         ELSE tokens'[u.token].vref => kept'.vref \in {0, u.token}
  BY <1>1, <1>2, <1>3, <1>4 DEF HoldsToken
<1>. QED
  BY <1>1, <1>3, <1>4, <1>5 DEF StoreInv

LEMMA StoreReopened ==
    ASSUME TypeInv, ChainInv, LoadInv', DeedInv, StoreInv, Steady,
           NEW n \in DOMAIN tokens, NEW st \in {redux, Loaded},
           NEW running \in {{}, tasks}, Mounts(n, st, running, TRUE)
    PROVE  StoreInv'
<1>1. /\ page' = "return" /\ UNCHANGED kept
      /\ \/ tasks' = running
         \/ /\ acts' = Append(acts, [flow |-> tokens[n].flow, goods |-> Details(n, st),
                                     of |-> tokens[n].act, again |-> TRUE])
            /\ [flow |-> tokens[n].flow, goods |-> Details(n, st),
                of |-> tokens[n].act, again |-> TRUE] \in Acts
            /\ tasks' = running \cup {Returned(n, st)}
  BY MountEffect
<1>2. /\ Returned(n, st).from = "return" /\ Returned(n, st).at = "auth"
      /\ Returned(n, st).act = NextAct
  BY DEF Returned
<1>3. \A u \in tasks' : \/ u.from = "return" /\ u.at = "auth" /\ acts'[u.act].again
                        \/ \E t \in tasks : Follows(u, t)
  <2>1. \A u \in running : \E t \in tasks : Follows(u, t)
    BY SameFollows
  <2>2. CASE tasks' = running
    BY <2>1, <2>2
  <2>3. CASE /\ acts' = Append(acts, [flow |-> tokens[n].flow, goods |-> Details(n, st),
                                      of |-> tokens[n].act, again |-> TRUE])
             /\ [flow |-> tokens[n].flow, goods |-> Details(n, st),
                 of |-> tokens[n].act, again |-> TRUE] \in Acts
             /\ tasks' = running \cup {Returned(n, st)}
    <3>1. acts'[NextAct].again
      BY <2>3, NewestAct
    <3>. QED
      BY <1>2, <2>1, <2>3, <3>1
  <2>. QED
    BY <1>1, <2>2, <2>3
<1>. QED
  BY <1>1, <1>3, SameShrinks, StoreStays

LEMMA StoreKept ==
    ASSUME TypeInv, LoadInv, ChainInv, DeedInv, RequestInv, ScreenInv, OverInv, StoreInv, Step, ~crossed'
    PROVE  StoreInv'
<1>1. Growth /\ Steady /\ LoadInv'
  BY StepsGrow, Steadily, LoadKept
<1>2. \A t \in tasks : t \in Tasks /\ Follows(t, t)
  BY InvTypes, SameFollows
<1>3. CASE Idle
  <2>1. tasks' = tasks /\ page' # "issuer"
    BY <1>3 DEF Idle
  <2>2. CASE kept' = kept
    BY <1>1, <1>2, <2>1, <2>2, SameShrinks, StoreStays
  <2>3. CASE loading = 0
    <3>1. tasks' = {}
      BY <2>1, <2>3, LoadNow
    <3>. QED
      BY <2>1, <3>1 DEF StoreInv
  <2>. QED
    BY <1>3, <2>2, <2>3 DEF Idle
<1>4. ASSUME NEW k \in Kinds, Press(k) PROVE StoreInv'
  BY <1>4, StorePressed
<1>5. ASSUME NEW t \in tasks, NEW v \in BOOLEAN, TokenIssued(t, v) PROVE StoreInv'
  BY <1>1, <1>5, StoreIssued
<1>6. ASSUME NEW t \in tasks, NEW v \in BOOLEAN, AuthAnswered(t, v) PROVE StoreInv'
  <2>1. PICK vref \in Nat :
             /\ tasks' = (tasks \ {t}) \cup {Posting(t, vref)}
             /\ kept'.mapped = kept.mapped /\ kept'.deposit = kept.deposit
             /\ kept'.redirect = kept.redirect
             /\ kept'.vref = IF t.from = "return" /\ t.flow # "deposit" THEN 0 ELSE kept.vref
             /\ UNCHANGED <<page, challenge>>
    BY <1>6, AuthEffect
  <2>2. Follows(Posting(t, vref), t)
    BY <1>2, InvTypes, PostingFields DEF Follows
  <2>3. \A u \in tasks' : \E x \in tasks : Follows(u, x)
    BY <1>2, <2>1, <2>2
  <2>4. Shrinks
    BY <2>1 DEF Shrinks
  <2>. QED
    BY <1>1, <2>1, <2>3, <2>4, StoreStays
<1>7. ASSUME NEW t \in tasks, Goes(t) PROVE StoreInv'
  <2>1. UNCHANGED <<page, challenge, kept>> /\ t.from = "form"
    <3>1. t.at \in {"check", "charge", "fallback"}
      BY <1>7 DEF Goes
    <3>. QED
      BY <1>2, <1>7, <3>1 DEF Goes, store, DeedInv, Deed, OfReturn, Tasks
  <2>2. \E at \in {"auth", "confirm"} : tasks' = (tasks \ {t}) \cup {Gone(t, at)}
    BY <1>7 DEF Goes, Move, Gone
  <2>3. \A at \in {"auth", "confirm"} : Follows(Gone(t, at), t)
    <3>1. SUFFICES ASSUME NEW at \in {"auth", "confirm"} PROVE Follows(Gone(t, at), t)
      OBVIOUS
    <3>2. at \in Stages
      BY DEF Stages
    <3>. QED
      BY <1>2, <2>1, <3>2, GoesFields DEF Follows
  <2>4. \A u \in tasks' : \E x \in tasks : Follows(u, x)
    BY <1>2, <2>2, <2>3
  <2>. QED
    BY <1>1, <2>1, <2>4, SameShrinks, StoreStays
<1>8. ASSUME NEW t \in tasks, CheckChallenges(t) PROVE StoreInv'
  BY <1>8, StoreChallenged
<1>9. ASSUME NEW t \in tasks, NEW w, NEW ok, Quits(t, w, ok) PROVE StoreInv'
  <2>1. tasks' \subseteq tasks /\ challenge' = challenge /\ Shrinks
    BY <1>9 DEF Quits, Forgets, Shrinks
  <2>2. page' \in {page, "receipt", "form"}
    BY <1>9 DEF Quits, Shows
  <2>. QED
    BY <1>1, <1>2, <2>1, <2>2, StoreStays
<1>10. ASSUME NEW t \in tasks, NEW ok \in BOOLEAN, Ended(t, ok) PROVE StoreInv'
  BY <1>9, <1>10 DEF Ended
<1>11. ASSUME NEW t \in tasks, NEW s \in {"booked", "pending", "refused"}, Concluded(t, s) PROVE StoreInv'
  BY <1>9, <1>11 DEF Concluded
<1>12. ASSUME NEW i \in DOMAIN wire, NEW s \in {"action", "pending", "booked", "refused", "missing"}, Decides(i, s)
       PROVE  StoreInv'
  <2>1. UNCHANGED <<page, challenge, kept, tasks>>
    BY <1>12 DEF Decides, Settle, store
  <2>. QED
    BY <1>1, <1>2, <2>1, SameShrinks, StoreStays
<1>13. ASSUME NEW n \in DOMAIN tokens, NEW st \in {redux, Loaded}, NEW running \in {{}, tasks},
              NEW again \in BOOLEAN, Mounts(n, st, running, again)
       PROVE  StoreInv'
  <2>1. CASE again = TRUE
    BY <1>1, <1>13, <2>1, StoreReopened
  <2>2. CASE again = FALSE
    BY <1>13, <2>2, StoreReturned
  <2>. QED
    BY <2>1, <2>2
<1>14. ASSUME NEW t \in tasks, StripeMissing(t) PROVE StoreInv'
  <2>1. /\ UNCHANGED <<page, challenge, kept>> /\ Follows(FallingBack(t), t)
        /\ tasks' = (tasks \ {t}) \cup {FallingBack(t)}
    BY <1>14, MissingEffect DEF Follows
  <2>2. \A u \in tasks' : \E x \in tasks : Follows(u, x)
    BY <1>2, <2>1
  <2>. QED
    BY <1>1, <2>1, <2>2, SameShrinks, StoreStays
<1>. QED
  BY <1>3, <1>4, <1>5, <1>6, <1>7, <1>8, <1>10, <1>11, <1>12, <1>13, <1>14 DEF Step
------------------------------------------------------------------------------
(* The vRef of a request is that of its token.                             *)

LEMMA VrefStays ==
    ASSUME TypeInv, Steady, VrefOfToken, crossed' \/ ~crossed,
           \A i \in DOMAIN wire' :
              \/ /\ i \in DOMAIN wire /\ wire'[i].act = wire[i].act
                 /\ wire'[i].token = wire[i].token /\ wire'[i].vref = wire[i].vref
              \/ crossed' \/ wire'[i].token = 0 \/ wire'[i].vref \in {0, wire'[i].token}
              \/ acts'[wire'[i].act].again \/ ~tokens'[wire'[i].token].vref
    PROVE  VrefOfToken'
<1>1. \A i \in DOMAIN wire : wire[i].act \in DOMAIN acts /\ (wire[i].token # 0 => wire[i].token \in DOMAIN tokens)
  <2>1. /\ \A i \in DOMAIN wire : wire[i].act \in DOMAIN acts /\ wire[i].token \in 0 .. Len(tokens)
        /\ DOMAIN tokens = 1 .. Len(tokens) /\ Len(tokens) \in Nat
    BY InvTypes
  <2>. QED
    BY <2>1
<1>2. ASSUME NEW i \in DOMAIN wire', ~crossed', wire'[i].token # 0, ~acts'[wire'[i].act].again,
             tokens'[wire'[i].token].vref
      PROVE  wire'[i].vref \in {0, wire'[i].token}
  <2>1. CASE /\ i \in DOMAIN wire /\ wire'[i].act = wire[i].act
             /\ wire'[i].token = wire[i].token /\ wire'[i].vref = wire[i].vref
    <3>1. acts'[wire[i].act] = acts[wire[i].act] /\ tokens'[wire[i].token] = tokens[wire[i].token]
      BY <1>1, <1>2, <2>1 DEF Steady
    <3>. QED
      BY <1>2, <2>1, <3>1 DEF VrefOfToken
  <2>. QED
    BY <1>2, <2>1
<1>. QED
  BY <1>2 DEF VrefOfToken

LEMMA VrefKept ==
    ASSUME TypeInv, LoadInv, DeedInv, RequestInv, ScreenInv, ~crossed => StoreInv, VrefOfToken, Step
    PROVE  VrefOfToken'
<1>1. Growth /\ Steady /\ (crossed' \/ ~crossed)
  BY StepsGrow, Steadily, CrossedStays
<1>2. wire \in Seq(Requests) /\ \A t \in tasks : t \in Tasks /\ Deed(t) /\ t.act \in DOMAIN acts
  BY InvTypes DEF DeedInv
<1>3. ASSUME UNCHANGED wire PROVE VrefOfToken'
  BY <1>1, <1>3, VrefStays
<1>4. ASSUME NEW i \in DOMAIN wire, NEW s \in {"action", "pending", "booked", "refused", "missing"}, StateIs(i, s)
      PROVE  VrefOfToken'
  <2>1. \A j \in DOMAIN wire' : /\ j \in DOMAIN wire /\ wire'[j].act = wire[j].act
                                /\ wire'[j].token = wire[j].token /\ wire'[j].vref = wire[j].vref
    BY <1>4, Stated
  <2>. QED
    BY <1>1, <2>1, VrefStays
<1>5. CASE Idle
  BY <1>3, <1>5 DEF Idle
<1>6. ASSUME NEW k \in Kinds, Press(k) PROVE VrefOfToken'
  <2>1. CASE k = "3ds"
    BY <1>3, <1>6, <2>1, PressEffect
  <2>2. CASE k # "3ds"
    <3>1. wire' = Append(wire, Request(Pressed(k), 0, k = "stripe")) /\ Request(Pressed(k), 0, k = "stripe") \in Requests
      BY <1>6, <2>2, PressEffect
    <3>2. Request(Pressed(k), 0, k = "stripe").token = 0
      BY DEF Request, Pressed
    <3>3. \A i \in DOMAIN wire' : (i \in DOMAIN wire /\ wire'[i] = wire[i]) \/ wire'[i].token = 0
      BY <1>2, <3>1, <3>2, Appended
    <3>. QED
      BY <1>1, <3>3, VrefStays
  <2>. QED
    BY <2>1, <2>2
<1>7. ASSUME NEW t \in tasks, NEW v \in BOOLEAN, TokenIssued(t, v) PROVE VrefOfToken'
  BY <1>3, <1>7, IssueEffect
<1>8. ASSUME NEW t \in tasks, NEW v \in BOOLEAN, AuthAnswered(t, v) PROVE VrefOfToken'
  <2>1. PICK vref \in Nat :
             /\ wire' = Append(wire, Request(t, vref, FALSE)) /\ Request(t, vref, FALSE) \in Requests
             /\ vref \in {t.token, IF t.from = "form" \/ t.flow = "deposit" THEN t.vref ELSE kept.vref}
             /\ t.at = "auth" /\ UNCHANGED <<acts, tokens, crossed>>
    BY <1>8, AuthEffect
  <2>2. /\ Request(t, vref, FALSE).act = t.act /\ Request(t, vref, FALSE).token = t.token
        /\ Request(t, vref, FALSE).vref = vref
    BY DEF Request
  <2>3. t.from = "form" => vref \in {0, t.token}
    BY <1>2, <2>1 DEF Deed, OfForm
  <2>4. t.from = "return" /\ ~crossed /\ ~acts[t.act].again =>
            IF t.flow = "deposit" THEN t.vref \in {0, t.token}
            ELSE tokens[t.token].vref => kept.vref \in {0, t.token}
    BY <2>1 DEF StoreInv
  <2>5. crossed' \/ acts'[t.act].again \/ vref \in {0, t.token} \/ ~tokens'[t.token].vref
    <3>1. t.from = "form" \/ t.from = "return"
      BY <1>2 DEF Tasks
    <3>. QED
      BY <2>1, <2>3, <2>4, <3>1
  <2>6. \A i \in DOMAIN wire' : (i \in DOMAIN wire /\ wire'[i] = wire[i]) \/ wire'[i] = Request(t, vref, FALSE)
    <3>1. wire \in Seq(Requests) /\ Request(t, vref, FALSE) \in Requests
      BY <1>2, <2>1
    <3>2. wire' = Append(wire, Request(t, vref, FALSE))
      BY <2>1
    <3>3. \A r \in Requests : \A i \in DOMAIN Append(wire, r) :
            (i \in DOMAIN wire /\ Append(wire, r)[i] = wire[i]) \/ Append(wire, r)[i] = r
      BY <3>1, AppendedOnly
    <3>. QED
      BY <3>1, <3>2, <3>3
  <2>. QED
    BY <1>1, <2>2, <2>5, <2>6, VrefStays
<1>9. ASSUME NEW t \in tasks, Goes(t) PROVE VrefOfToken'
  BY <1>3, <1>9 DEF Goes, host
<1>10. ASSUME NEW t \in tasks, CheckChallenges(t) PROVE VrefOfToken'
  BY <1>3, <1>10 DEF CheckChallenges, host
<1>11. ASSUME NEW t \in tasks, NEW ok \in BOOLEAN, Ended(t, ok) PROVE VrefOfToken'
  BY <1>3, <1>11 DEF Ended, host
<1>12. ASSUME NEW t \in tasks, NEW s \in {"booked", "pending", "refused"}, Concluded(t, s) PROVE VrefOfToken'
  <2>1. t.req \in DOMAIN wire /\ wire[t.req].act = t.act
    BY <1>12, SoundTasks DEF Concluded, Sound, HasSent, Before
  <2>2. StateIs(t.req, s)
    BY <1>12, <2>1 DEF Concluded, StateIs
  <2>. QED
    BY <1>4, <2>1, <2>2
<1>13. ASSUME NEW i \in DOMAIN wire, NEW s \in {"action", "pending", "booked", "refused", "missing"}, Decides(i, s)
       PROVE  VrefOfToken'
  <2>1. StateIs(i, s)
    BY <1>13 DEF Decides, Settle, StateIs
  <2>. QED
    BY <1>4, <2>1
<1>14. ASSUME NEW n \in DOMAIN tokens, NEW st \in {redux, Loaded}, NEW running \in {{}, tasks},
              NEW again \in BOOLEAN, Mounts(n, st, running, again)
       PROVE  VrefOfToken'
  BY <1>3, <1>14, MountEffect
<1>15. ASSUME NEW t \in tasks, StripeMissing(t) PROVE VrefOfToken'
  <2>1. /\ wire' = Append(wire, Request(t, 0, TRUE)) /\ Request(t, 0, TRUE) \in Requests
        /\ Request(t, 0, TRUE).vref = 0
    BY <1>15, MissingEffect
  <2>2. \A i \in DOMAIN wire' : (i \in DOMAIN wire /\ wire'[i] = wire[i]) \/ wire'[i] = Request(t, 0, TRUE)
    <3>1. \A r \in Requests : \A i \in DOMAIN Append(wire, r) :
            (i \in DOMAIN wire /\ Append(wire, r)[i] = wire[i]) \/ Append(wire, r)[i] = r
      BY <1>2, AppendedOnly
    <3>. QED
      BY <2>1, <3>1
  <2>. QED
    BY <1>1, <2>1, <2>2, VrefStays
<1>. QED
  BY <1>5, <1>6, <1>7, <1>8, <1>9, <1>10, <1>11, <1>12, <1>13, <1>14, <1>15 DEF Step
------------------------------------------------------------------------------
(* The invariant.                                                          *)

LEMMA InitInv ==
    ASSUME Init
    PROVE  Inv
<1>1. /\ page = "home" /\ flow = None /\ goods = None /\ None \in Choice /\ 0 \in Nat
      /\ redux = [mapped |-> None, deposit |-> None]
      /\ kept = [mapped |-> None, deposit |-> None, redirect |-> NoRedirect, vref |-> 0]
      /\ challenge = 0 /\ url = 0 /\ acts = <<>> /\ tokens = <<>> /\ tasks = {} /\ loading = 0
      /\ wire = <<>> /\ books = <<>> /\ receipt = None /\ crossed = FALSE
  BY DEF Init, Choice
<1>2. /\ redux \in Stored /\ NoRedirect \in Redirects
  BY <1>1 DEF Stored, Redirects, NoRedirect
<1>3. kept \in Kept
  BY <1>1, <1>2 DEF Kept
<1>4. \A S : <<>> \in Seq(S) /\ Len(<<>>) = 0 /\ DOMAIN <<>> = {}
  OBVIOUS
<1>5. TypeInv
  <2>1. /\ page \in {"home", "form", "issuer", "return", "receipt"} /\ flow \in FlowKinds \cup {None}
        /\ goods \in Choice /\ redux \in Stored /\ kept \in Kept /\ page # "issuer"
        /\ crossed \in BOOLEAN /\ receipt = None
    BY <1>1, <1>2, <1>3
  <2>2. Len(tokens) = 0 /\ challenge \in 0 .. Len(tokens) /\ url \in 0 .. Len(tokens) /\ loading \in Nat
    BY <1>1, <1>4
  <2>3. /\ acts \in Seq(Acts) /\ wire \in Seq(Requests) /\ books \in Seq(DOMAIN acts)
        /\ tokens \in Seq([act : DOMAIN acts, flow : FlowKinds, goods : Choice, vref : BOOLEAN])
    BY <1>1, <1>4
  <2>4. tasks = {}
    BY <1>1
  <2>5. TypeOK
    BY <2>1, <2>2, <2>3, <2>4 DEF TypeOK
  <2>. QED
    BY <1>1, <1>4, <2>5 DEF TypeInv
<1>6. LoadInv
  <2>1. IsFiniteSet({}) /\ Cardinality({}) = 0
    BY FS_EmptySet
  <2>2. {t \in tasks : t.at = "check"} = {}
    BY <1>1
  <2>. QED
    BY <1>1, <2>1, <2>2 DEF LoadInv, LoaderBalanced
<1>7. ChainInv /\ DeedInv /\ RequestInv /\ BookInv /\ VrefOfToken
  BY <1>1, <1>4 DEF ChainInv, DeedInv, RequestInv, OneChargePerAct, BookInv, VrefOfToken
<1>8. OverInv /\ ScreenInv /\ StoreInv
  BY <1>1, <1>4 DEF OverInv, ScreenInv, StoreInv
<1>. QED
  BY <1>5, <1>6, <1>7, <1>8 DEF Inv

LEMMA InvIdle ==
    ASSUME Inv, UNCHANGED vars
    PROVE  Inv'
<1>1. UNCHANGED <<page, flow, goods, redux, kept, challenge, url, acts, crossed, tokens, tasks,
                  loading, wire, books, receipt>>
  BY DEF vars
<1>2. TypeInv' /\ LoadInv' /\ ChainInv'
  BY <1>1 DEF Inv, TypeInv, TypeOK, LoadInv, LoaderBalanced, ChainInv
<1>3. DeedInv'
  BY <1>1 DEF Inv, DeedInv, Deed, OfForm, OfReturn
<1>4. RequestInv' /\ BookInv'
  BY <1>1 DEF Inv, RequestInv, HasSent, OneChargePerAct, BookInv
<1>5. OverInv' /\ ScreenInv'
  BY <1>1 DEF Inv, OverInv, ScreenInv, Over
<1>6. (~crossed => StoreInv)' /\ VrefOfToken'
  BY <1>1 DEF Inv, StoreInv, Holds, HoldsToken, IssuerHolds, VrefOfToken
<1>. QED
  BY <1>2, <1>3, <1>4, <1>5, <1>6 DEF Inv

LEMMA InvKept ==
    ASSUME Inv, [Next]_vars
    PROVE  Inv'
<1>1. CASE Next
  <2>1. /\ TypeInv /\ LoadInv /\ ChainInv /\ DeedInv /\ RequestInv /\ BookInv /\ OverInv
        /\ ScreenInv /\ (~crossed => StoreInv) /\ VrefOfToken
    BY DEF Inv
  <2>2. Step
    BY <1>1, <2>1, Steps
  <2>3. TypeInv' /\ LoadInv' /\ ChainInv' /\ DeedInv'
    BY <2>1, <2>2, TypeKept, LoadKept, ChainKept, DeedKept
  <2>4. RequestInv' /\ BookInv'
    BY <2>1, <2>2, RequestKept, BookKept
  <2>5. OverInv' /\ ScreenInv'
    BY <2>1, <2>2, OverKept, ScreenKept
  <2>6. ~crossed' => StoreInv'
    BY <2>1, <2>2, CrossedStays, StoreKept
  <2>7. VrefOfToken'
    BY <2>1, <2>2, VrefKept
  <2>. QED
    BY <2>3, <2>4, <2>5, <2>6, <2>7 DEF Inv
<1>2. CASE UNCHANGED vars
  BY <1>2, InvIdle
<1>. QED
  BY <1>1, <1>2

LEMMA AlwaysInv == Spec => []Inv
<1>1. Init => Inv
  BY InitInv
<1>2. Inv /\ [Next]_vars => Inv'
  BY InvKept
<1>. QED
  BY <1>1, <1>2, PTL DEF Spec

(* Every variable has its type, and handlers, requests and receipts name   *)
(* acts and tokens there are (TypeOK).                                     *)
THEOREM PaymentTypes == Spec => []TypeOK
<1>1. Inv => TypeOK
  BY DEF Inv, TypeInv
<1>. QED
  BY <1>1, AlwaysInv, PTL

(* EpayLoadingProvider's count falls to zero exactly when the last call    *)
(* ends, whatever errors there were on the way.                            *)
THEOREM LoaderNeverStuck == Spec => []LoaderBalanced
<1>1. Inv => LoaderBalanced
  BY DEF Inv, LoadInv
<1>. QED
  BY <1>1, AlwaysInv, PTL

(* As long as the overlay keeps the keyboard out, a press waits for the    *)
(* one before it, of whatever flow and from whatever page.                 *)
THEOREM OnePress == Spec => []OnePressAtATime
<1>1. Inv => OnePressAtATime
  <2>1. SUFFICES ASSUME Inv, NEW t \in tasks, NEW u \in tasks, t.from = "form", u.from = "form",
                        t.act # u.act, ~crossed
                 PROVE  FALSE
    BY DEF OnePressAtATime
  <2>2. acts[u.act].again
    BY <2>1 DEF Inv, StoreInv
  <2>3. u.act \in DOMAIN acts /\ acts[u.act].of = u.act
    BY <2>1 DEF Inv, DeedInv, Deed, OfForm, PressIn
  <2>. QED
    BY <2>1, <2>2, <2>3 DEF Inv, ChainInv
<1>. QED
  BY <1>1, AlwaysInv, PTL

(* Whatever is lost, refused or answered late, a handler has at most one   *)
(* request that can move money: it posts its charge again only after an    *)
(* answer 404.                                                             *)
THEOREM OneCharge == Spec => []OneChargePerAct
<1>1. Inv => OneChargePerAct
  BY DEF Inv, RequestInv
<1>. QED
  BY <1>1, AlwaysInv, PTL

(* When its token came with a vRef, a return page posts with that vRef, or *)
(* with none, unless it was opened again or the overlay was got through.   *)
(* Nothing is said of a token without one, whose return page posts the     *)
(* vRef it finds stored.                                                   *)
THEOREM VrefNeverStale == Spec => []VrefOfToken
<1>1. Inv => VrefOfToken
  BY DEF Inv
<1>. QED
  BY <1>1, AlwaysInv, PTL
------------------------------------------------------------------------------
(* The pages keep the ledger.                                              *)

AskedOf(e) == [goods |-> e.goods, of |-> e.of, again |-> e.again]
Asked(s) == [a \in DOMAIN s |-> AskedOf(s[a])]

LEMMA AskedFields ==
    ASSUME NEW e
    PROVE  AskedOf(e).goods = e.goods /\ AskedOf(e).of = e.of /\ AskedOf(e).again = e.again
<1>1. AskedOf(e).again = e.again
  BY DEF AskedOf
<1>2. AskedOf(e).goods = e.goods /\ AskedOf(e).of = e.of
  BY DEF AskedOf
<1>. QED
  BY <1>1, <1>2

LEMMA AskedSeq ==
    ASSUME NEW s \in Seq(Acts)
    PROVE  /\ Asked(s) \in Seq([goods : Choice, of : Nat, again : BOOLEAN])
           /\ Len(Asked(s)) = Len(s) /\ DOMAIN Asked(s) = DOMAIN s
           /\ \A a \in DOMAIN s : Asked(s)[a] = AskedOf(s[a])
<1>1. Len(s) \in Nat /\ DOMAIN s = 1 .. Len(s) /\ \A a \in DOMAIN s : s[a] \in Acts
  BY Elements
<1>2. \A a \in DOMAIN s : AskedOf(s[a]) \in [goods : Choice, of : Nat, again : BOOLEAN]
  BY <1>1 DEF Acts, AskedOf
<1>3. Asked(s) \in [1 .. Len(s) -> [goods : Choice, of : Nat, again : BOOLEAN]]
  BY <1>1, <1>2 DEF Asked
<1>. QED
  BY <1>1, <1>3 DEF Asked

LEMMA AskedAppend ==
    ASSUME NEW s \in Seq(Acts), NEW e \in Acts
    PROVE  Asked(Append(s, e)) = Append(Asked(s), AskedOf(e))
<1>1. Append(s, e) \in Seq(Acts)
  BY Appended
<1>2. /\ Len(s) \in Nat /\ DOMAIN s = 1 .. Len(s) /\ DOMAIN Append(s, e) = 1 .. Len(s) + 1
      /\ Append(s, e)[Len(s) + 1] = e /\ \A a \in DOMAIN s : Append(s, e)[a] = s[a]
  BY Appended
<1>3. AskedOf(e) \in [goods : Choice, of : Nat, again : BOOLEAN]
  BY DEF Acts, AskedOf
<1>4. /\ Asked(s) \in Seq([goods : Choice, of : Nat, again : BOOLEAN])
      /\ Len(Asked(s)) = Len(s) /\ \A a \in DOMAIN s : Asked(s)[a] = AskedOf(s[a])
  BY AskedSeq
<1>5. /\ Append(Asked(s), AskedOf(e)) \in Seq([goods : Choice, of : Nat, again : BOOLEAN])
      /\ DOMAIN Append(Asked(s), AskedOf(e)) = 1 .. Len(s) + 1
      /\ Append(Asked(s), AskedOf(e))[Len(s) + 1] = AskedOf(e)
      /\ \A a \in DOMAIN s : Append(Asked(s), AskedOf(e))[a] = AskedOf(s[a])
  BY <1>2, <1>3, <1>4, Appended
<1>6. \A a \in 1 .. Len(s) + 1 : Asked(Append(s, e))[a] = Append(Asked(s), AskedOf(e))[a]
  BY <1>2, <1>5 DEF Asked
<1>7. DOMAIN Asked(Append(s, e)) = 1 .. Len(s) + 1
  BY <1>2 DEF Asked
<1>. QED
  BY <1>5, <1>6, <1>7 DEF Asked

LEMMA LedgerStutters ==
    ASSUME UNCHANGED <<acts, crossed, books>>
    PROVE  UNCHANGED Ledger!lvars
BY DEF Ledger!lvars

LEMMA LedgerCrosses ==
    ASSUME UNCHANGED <<acts, books>>, crossed' \in {crossed, TRUE}
    PROVE  Ledger!Next \/ UNCHANGED Ledger!lvars
<1>1. CASE crossed' = crossed
  BY <1>1, LedgerStutters
<1>2. CASE crossed' = TRUE
  BY <1>2 DEF Ledger!Cross, Ledger!Next
<1>. QED
  BY <1>1, <1>2

LEMMA LedgerPresses ==
    ASSUME TypeInv, NEW g \in Goods, NewPress(g), UNCHANGED books
    PROVE  Ledger!Next
<1>1. acts \in Seq(Acts) /\ crossed \in BOOLEAN /\ loading \in Nat
  BY InvTypes DEF SimpleTypes, TypeInv, TypeOK
<1>2. Asked(acts)' = Append(Asked(acts), [goods |-> g, of |-> NextAct, again |-> FALSE])
  <2> DEFINE e == [flow |-> flow, goods |-> g, of |-> NextAct, again |-> FALSE]
  <2>1. e \in Acts /\ acts' = Append(acts, e)
    BY DEF NewPress
  <2>2. AskedOf(e) = [goods |-> g, of |-> NextAct, again |-> FALSE]
    BY DEF AskedOf
  <2>3. Asked(Append(acts, e)) = Append(Asked(acts), AskedOf(e))
    BY <1>1, <2>1, AskedAppend
  <2>. QED
    BY <2>1, <2>2, <2>3 DEF Asked
<1>3. NextAct = Len(Asked(acts)) + 1
  BY <1>1, AskedSeq DEF NextAct
<1>4. crossed' \in {crossed, TRUE}
  BY <1>1 DEF NewPress
<1>5. Ledger!Press
  BY <1>2, <1>3, <1>4 DEF Ledger!Press, Ledger!Ask, Asked, AskedOf
<1>. QED
  BY <1>5 DEF Ledger!Next

LEMMA LedgerReturns ==
    ASSUME TypeInv, ~crossed => StoreInv, NEW n \in DOMAIN tokens, NEW st \in {redux, Loaded},
           NEW again \in BOOLEAN, NewReturn(n, st, again), UNCHANGED <<crossed, books>>
    PROVE  Ledger!Next
<1> DEFINE p == tokens[n].act
           g == Details(n, st)
<1>1. /\ acts \in Seq(Acts) /\ p \in DOMAIN acts
  BY InvTypes
<1>2. g \in Choice /\ Asked(acts)' = Append(Asked(acts), [goods |-> g, of |-> p, again |-> again])
  <2> DEFINE e == [flow |-> tokens[n].flow, goods |-> g, of |-> p, again |-> again]
  <2>1. e \in Acts /\ acts' = Append(acts, e)
    BY DEF NewReturn
  <2>2. AskedOf(e) = [goods |-> g, of |-> p, again |-> again] /\ g \in Choice
    BY <2>1 DEF AskedOf, Acts
  <2>3. Asked(Append(acts, e)) = Append(Asked(acts), AskedOf(e))
    BY <1>1, <2>1, AskedAppend
  <2>. QED
    BY <2>1, <2>2, <2>3 DEF Asked
<1>3. p \in DOMAIN Asked(acts) /\ Asked(acts)[p].goods = acts[p].goods
  <2>1. p \in DOMAIN Asked(acts) /\ Asked(acts)[p] = AskedOf(acts[p])
    BY <1>1, AskedSeq
  <2>. QED
    BY <2>1, AskedFields
<1>4. CASE again
  <2>1. Asked(acts)' = Append(Asked(acts), [goods |-> g, of |-> p, again |-> TRUE])
    BY <1>2, <1>4
  <2>2. Ledger!Reopen
    BY <1>2, <1>3, <2>1 DEF Ledger!Reopen, Ledger!Ask, Asked, AskedOf, Choice
  <2>. QED
    BY <2>2 DEF Ledger!Next
<1>5. CASE ~again
  <2>1. Asked(acts)' = Append(Asked(acts), [goods |-> g, of |-> p, again |-> FALSE])
    BY <1>2, <1>5
  <2>2. page = "issuer" /\ n = challenge /\ st = Loaded
    BY <1>5 DEF NewReturn
  <2>3. crossed \/ g \in {acts[p].goods, None}
    BY <2>2 DEF StoreInv, IssuerHolds, Holds, HoldsToken, Details, Loaded
  <2>4. crossed \/ g \in {Asked(acts)[p].goods, None}
    BY <1>3, <2>3
  <2>5. Ledger!Return
    BY <1>2, <1>3, <2>1, <2>4 DEF Ledger!Return, Ledger!Ask, Asked, AskedOf, Choice
  <2>. QED
    BY <2>5 DEF Ledger!Next
<1>. QED
  BY <1>4, <1>5

LEMMA LedgerBooks ==
    ASSUME TypeInv, ChainInv, RequestInv, BookInv, OverInv,
           NEW i \in DOMAIN wire, wire[i].state \notin {"booked", "missing"}, wire[i].goods # None,
           books' = Append(books, wire[i].act), UNCHANGED <<acts, crossed>>
    PROVE  Ledger!Next
<1> DEFINE a == wire[i].act
<1>1. acts \in Seq(Acts) /\ a \in DOMAIN acts /\ books \in Seq(DOMAIN acts)
  BY InvTypes
<1>2. /\ DOMAIN Asked(acts) = DOMAIN acts
      /\ \A b \in DOMAIN acts : /\ Asked(acts)[b].goods = acts[b].goods /\ Asked(acts)[b].of = acts[b].of
                                /\ Asked(acts)[b].again = acts[b].again
  <2>1. DOMAIN Asked(acts) = DOMAIN acts /\ \A b \in DOMAIN acts : Asked(acts)[b] = AskedOf(acts[b])
    BY <1>1, AskedSeq
  <2>. QED
    BY <2>1, AskedFields
<1>3. acts[a].goods # None
  BY DEF RequestInv
<1>4. ASSUME NEW k \in DOMAIN books
      PROVE  /\ books[k] # a /\ books[k] \in DOMAIN acts
             /\ acts[a].again \/ acts[books[k]].again \/ acts[books[k]].of # acts[a].of
  <2> DEFINE b == books[k]
  <2>1. b \in DOMAIN acts
    BY <1>1, Elements
  <2>2. PICK j \in DOMAIN wire : wire[j].act = b /\ wire[j].state = "booked"
    BY DEF BookInv
  <2>3. b # a
    <3>1. i \in Nat /\ j \in Nat /\ i # j
      BY <2>2, InvTypes
    <3>2. i < j \/ j < i
      BY <3>1
    <3>. QED
      BY <2>2, <3>2 DEF RequestInv, OneChargePerAct
  <2>4. SUFFICES ASSUME ~acts[a].again, ~acts[b].again, acts[b].of = acts[a].of PROVE FALSE
    BY <2>1, <2>3
  <2>5. \A c \in {a, b} : acts[c].of # c => Over(tasks, wire, acts[c].of)
    BY <1>1, <2>1 DEF OverInv
  <2>6. CASE acts[a].of = a
    <3>1. Over(tasks, wire, a)
      BY <2>3, <2>4, <2>5, <2>6
    <3>. QED
      BY <3>1 DEF Over
  <2>7. CASE acts[b].of = b
    <3>1. Over(tasks, wire, b)
      BY <2>3, <2>4, <2>5, <2>7
    <3>. QED
      BY <2>2, <3>1 DEF Over
  <2>8. CASE acts[a].of # a /\ acts[b].of # b
    BY <1>1, <2>1, <2>3, <2>4, <2>8 DEF OverInv, First
  <2>. QED
    BY <2>6, <2>7, <2>8
<1>5. Ledger!Book(a)
  <2>1. \A k \in DOMAIN books :
          /\ books[k] # a
          /\ Asked(acts)[a].again \/ Asked(acts)[books[k]].again \/ Asked(acts)[books[k]].of # Asked(acts)[a].of
    BY <1>1, <1>2, <1>4
  <2>2. Asked(acts)[a].goods # None
    BY <1>1, <1>2, <1>3
  <2>. QED
    BY <2>1, <2>2 DEF Ledger!Book, Asked, AskedOf
<1>6. a \in DOMAIN Asked(acts)
  BY <1>1, <1>2
<1>. QED
  BY <1>5, <1>6 DEF Ledger!Next, Asked, AskedOf

LEMMA LedgerStates ==
    ASSUME TypeInv, ChainInv, RequestInv, BookInv, OverInv, NEW i \in DOMAIN wire, NEW state,
           wire[i].state \notin {"booked", "missing"}, state = "booked" => wire[i].goods # None,
           StateIs(i, state), UNCHANGED <<acts, crossed>>
    PROVE  Ledger!Next \/ UNCHANGED Ledger!lvars
<1>1. CASE state = "booked"
  BY <1>1, LedgerBooks DEF StateIs
<1>2. CASE state # "booked"
  BY <1>2, LedgerStutters DEF StateIs
<1>. QED
  BY <1>1, <1>2

LEMMA LedgerSteps ==
    ASSUME Inv, Next
    PROVE  Ledger!Next \/ UNCHANGED Ledger!lvars
<1>1. /\ TypeInv /\ LoadInv /\ ChainInv /\ DeedInv /\ RequestInv /\ BookInv /\ OverInv
      /\ ScreenInv /\ (~crossed => StoreInv)
  BY DEF Inv
<1>2. Step
  BY <1>1, Steps
<1>3. CASE Idle
  BY <1>3, LedgerCrosses DEF Idle
<1>4. ASSUME NEW k \in Kinds, Press(k) PROVE Ledger!Next
  <2>1. NewPress(goods) /\ goods \in Goods /\ UNCHANGED books
    BY <1>1, <1>4, PressEffect DEF NewPress
  <2>. QED
    BY <1>1, <2>1, LedgerPresses
<1>5. ASSUME NEW t \in tasks, NEW v \in BOOLEAN, TokenIssued(t, v) \/ AuthAnswered(t, v)
      PROVE  UNCHANGED Ledger!lvars
  <2>1. UNCHANGED <<acts, crossed, books>>
    BY <1>5 DEF TokenIssued, AuthAnswered, host
  <2>. QED
    BY <2>1, LedgerStutters
<1>6. ASSUME NEW t \in tasks, Goes(t) \/ CheckChallenges(t) PROVE UNCHANGED Ledger!lvars
  <2>1. UNCHANGED <<acts, crossed, books>>
    BY <1>6 DEF Goes, CheckChallenges, host
  <2>. QED
    BY <2>1, LedgerStutters
<1>7. ASSUME NEW t \in tasks, NEW ok \in BOOLEAN, Ended(t, ok) PROVE UNCHANGED Ledger!lvars
  <2>1. UNCHANGED <<acts, crossed, books>>
    BY <1>7 DEF Ended, Quits, host
  <2>. QED
    BY <2>1, LedgerStutters
<1>8. ASSUME NEW t \in tasks, NEW s \in {"booked", "pending", "refused"}, Concluded(t, s)
      PROVE  Ledger!Next \/ UNCHANGED Ledger!lvars
  <2>1. HasSent(t) /\ t.at = "confirm"
    BY <1>1, <1>8, SoundTasks DEF Concluded, Sound, Before
  <2>2. /\ t.req \in DOMAIN wire /\ wire[t.req].act = t.act /\ wire[t.req].stripe
        /\ wire[t.req].state = "action"
    BY <2>1 DEF HasSent
  <2>3. wire[t.req].goods # None
    BY <1>1, <2>2 DEF RequestInv
  <2>4. StateIs(t.req, s) /\ UNCHANGED <<acts, crossed>>
    BY <1>8, <2>2 DEF Concluded, StateIs, Quits
  <2>. QED
    BY <1>1, <2>2, <2>3, <2>4, LedgerStates
<1>9. ASSUME NEW i \in DOMAIN wire, NEW s \in {"action", "pending", "booked", "refused", "missing"}, Decides(i, s)
      PROVE  Ledger!Next \/ UNCHANGED Ledger!lvars
  <2>1. StateIs(i, s) /\ UNCHANGED <<acts, crossed>>
    BY <1>9 DEF Decides, Settle, StateIs
  <2>2. wire[i].state \notin {"booked", "missing"} /\ (s = "booked" => wire[i].goods # None)
    BY <1>9 DEF Decides
  <2>. QED
    BY <1>1, <2>1, <2>2, LedgerStates
<1>10. ASSUME NEW n \in DOMAIN tokens, NEW st \in {redux, Loaded}, NEW running \in {{}, tasks},
              NEW again \in BOOLEAN, Mounts(n, st, running, again)
       PROVE  Ledger!Next \/ UNCHANGED Ledger!lvars
  <2>1. UNCHANGED <<crossed, books, tokens>>
    BY <1>1, <1>10, MountEffect
  <2>2. UNCHANGED acts \/ NewReturn(n, st, again)
    BY <1>1, <1>10, <2>1, MountEffect DEF NewReturn
  <2>3. CASE UNCHANGED acts
    BY <2>1, <2>3, LedgerStutters
  <2>4. CASE NewReturn(n, st, again)
    BY <1>1, <2>1, <2>4, LedgerReturns
  <2>. QED
    BY <2>2, <2>3, <2>4
<1>11. ASSUME NEW t \in tasks, StripeMissing(t) PROVE UNCHANGED Ledger!lvars
  <2>1. UNCHANGED <<acts, crossed, books>>
    BY <1>11 DEF StripeMissing
  <2>. QED
    BY <2>1, LedgerStutters
<1>. QED
  BY <1>2, <1>3, <1>4, <1>5, <1>6, <1>7, <1>8, <1>9, <1>10, <1>11 DEF Step

(* The pages keep the ledger's promise: what is asked is booked at most    *)
(* once, a press and the return page it leads to once between them, and    *)
(* that page posts what was pressed.  Only a return page opened again may  *)
(* book once more (LedgerKept).                                            *)
THEOREM LedgerRefined == Spec => LedgerKept
<1>1. Init => Ledger!Init
  <2>1. SUFFICES ASSUME Init PROVE Ledger!Init
    OBVIOUS
  <2>2. acts = <<>> /\ books = <<>> /\ crossed = FALSE
    BY <2>1 DEF Init
  <2>3. Asked(acts) \in Seq([goods : Choice, of : Nat, again : BOOLEAN]) /\ Len(Asked(acts)) = 0
    <3>1. acts \in Seq(Acts) /\ Len(acts) = 0
      BY <2>2
    <3>. QED
      BY <3>1, AskedSeq
  <2>4. Asked(acts) = <<>>
    BY <2>3
  <2>. QED
    BY <2>2, <2>4 DEF Ledger!Init, Asked, AskedOf
<1>2. Inv /\ [Next]_vars => [Ledger!Next]_(Ledger!lvars)
  <2>1. SUFFICES ASSUME Inv, [Next]_vars PROVE Ledger!Next \/ UNCHANGED Ledger!lvars
    OBVIOUS
  <2>2. CASE Next
    BY <2>1, <2>2, LedgerSteps
  <2>3. CASE UNCHANGED vars
    <3>1. UNCHANGED <<acts, crossed, books>>
      BY <2>3 DEF vars
    <3>. QED
      BY <3>1, LedgerStutters
  <2>. QED
    BY <2>1, <2>2, <2>3
<1>. QED
  BY <1>1, <1>2, AlwaysInv, PTL DEF Spec, LedgerKept, Ledger!LedgerSpec
=============================================================================
