------------------------ MODULE HandlerExecutionProofs ------------------------
(***************************************************************************)
(* Proofs about HandlerExecution: chains of any length, with any mixture of *)
(* foreground and background handlers and any failures.                     *)
(***************************************************************************)
EXTENDS HandlerExecution, TLAPS

Types ==
    /\ background \subseteq Handlers /\ hooked \subseteq Handlers
    /\ accepted \subseteq Handlers /\ pos \in 1..(N + 1)
    /\ dispatch \in {"created", "running", "unwinding", "done", "cancelled", "abandoned"}
    /\ at \in [Handlers -> Phase]
    /\ errors \in Seq(Handlers)
    /\ called \in [Handlers -> [Functions -> Nat]]
    /\ told \in [Handlers -> Nat]

Entered(h) == called[h]["has_error"] + called[h]["accepted"] + called[h]["core"]

(* What has been called by the phase a handler is in: on_error follows a    *)
(* function that failed, and not on_error itself.                           *)
Calls(h) ==
    /\ \A f \in {"has_error", "accepted", "core"} : called[h][f] <= 1
    /\ at[h] \in {"idle", "scheduled"} => \A f \in Functions : called[h][f] = 0
    /\ at[h] = "has_error" => called[h]["accepted"] = 0 /\ called[h]["core"] = 0
    /\ at[h] = "accepted" => called[h]["accepted"] = 1
    /\ at[h] = "core" => called[h]["core"] = 1
    /\ called[h]["on_error"] + (IF InFunction(h) /\ h \notin recovering THEN 1 ELSE 0)
          <= Entered(h)

(* A handler has begun only if those before it have: foreground handlers    *)
(* are done by then.                                                        *)
InTurn(g, h) ==
    g < h /\ at[h] # "idle" => at[g] # "idle" /\ (Foreground(g) => at[g] = "done")

(* The dispatch task is at pos, and a foreground handler runs only there.   *)
Position(h) ==
    /\ dispatch \in {"created", "abandoned"} => at[h] = "idle" /\ pos = 1
    /\ dispatch \in {"running", "done"} =>
           /\ h < pos => at[h] # "idle" /\ (Foreground(h) => at[h] = "done")
           /\ h > pos => at[h] = "idle"
           /\ h = pos => at[h] # "done" /\ (h \in background => at[h] = "idle")
    /\ Foreground(h) /\ InFunction(h) => dispatch = "running" /\ h = pos
    /\ Foreground(h) => at[h] # "scheduled"

(* A handler that has begun knows the failures and acceptances before it.   *)
Begun(h) == at[h] \in {"has_error", "accepted", "core", "done"}

Informed(g, h) ==
    g < h /\ Foreground(g) =>
        /\ Contains(errors, g) /\ Begun(h) =>
               /\ h \in hooked => called[h]["has_error"] = 1
               /\ h \in stopping => called[h]["core"] = 0
        /\ g \in accepted =>
               /\ called[h]["core"] = 0
               /\ at[h] \in {"accepted", "done"} /\ h \in hooked
                      => called[h]["accepted"] = 1

(* Cancellation is told along the chain, up to pos. *)
Told(h) ==
    h \in hooked \ background =>
        told[h] = IF dispatch \in {"unwinding", "cancelled"} /\ h < pos THEN 1 ELSE 0

IInv ==
    /\ Types
    /\ \A h \in Handlers : Calls(h) /\ Position(h) /\ Told(h)
    /\ \A g, h \in Handlers : InTurn(g, h) /\ Informed(g, h)
    /\ dispatch \in {"done", "cancelled"} => pos > N


-----------------------------------------------------------------------------
(* The error stack.                                                         *)

LEMMA RecordedErrors ==
    ASSUME Types, NEW h \in Handlers
    PROVE  /\ Recorded(h) \in Seq(Handlers)
           /\ \A g \in Handlers : Contains(Recorded(h), g) =>
                  Contains(errors, g) \/ g = h
<1>1. CASE Foreground(h)
  <2>1. Recorded(h) = Append(errors, h)
    BY <1>1 DEF Recorded
  <2>2. /\ Append(errors, h) \in Seq(Handlers)
        /\ Len(Append(errors, h)) = Len(errors) + 1
        /\ \A i \in 1..(Len(errors) + 1) :
               Append(errors, h)[i] = IF i <= Len(errors) THEN errors[i] ELSE h
    BY DEF Types
  <2>3. Len(errors) \in Nat
    BY DEF Types
  <2>. QED  BY <2>1, <2>2, <2>3 DEF Contains
<1>2. CASE ~Foreground(h)
  BY <1>2 DEF Recorded, Types
<1>. QED  BY <1>1, <1>2

LEMMA ContainsNonempty ==
    ASSUME NEW es, NEW g, Contains(es, g), es \in Seq(Handlers)
    PROVE  es # << >>
BY DEF Contains

-----------------------------------------------------------------------------
(* A handler enters a phase.                                                *)

Entry(h) == at[h] \in {"idle", "scheduled"}

(* What Start, Returns and Raises have in common. *)
Enters(h, phase) ==
    /\ Entry(h) \/ InFunction(h)
    /\ at[h] = "idle" => dispatch = "running" /\ pos = h /\ Foreground(h)
    /\ phase = IF Entry(h) THEN FirstPhase(h) ELSE PhaseAfter(h, errors')
    /\ EnterPhase(h, phase)
    /\ errors' = errors \/ (InFunction(h) /\ errors' = Recorded(h))
    /\ recovering' = recovering \/ (InFunction(h) /\ recovering' = recovering \ {h})
    /\ Entry(h) => recovering' = recovering
    /\ UNCHANGED <<config, dispatch, accepted, told>>

LEMMA PhaseEntered ==
    ASSUME Types, NEW h \in Handlers, NEW phase, Enters(h, phase)
    PROVE  /\ phase \in {"has_error", "accepted", "core", "done"}
           /\ at' = [at EXCEPT ![h] = phase] /\ at' \in [Handlers -> Phase]
           /\ at'[h] = phase /\ \A g \in Handlers : g # h => at'[g] = at[g]
           /\ called' \in [Handlers -> [Functions -> Nat]]
           /\ \A g \in Handlers : g # h => called'[g] = called[g]
           /\ \A f \in Functions :
                  called'[h][f] = called[h][f] + (IF f = phase THEN 1 ELSE 0)
           /\ pos' = IF phase = "done" /\ Foreground(h) THEN h + 1 ELSE pos
<1>1. phase \in {"has_error", "accepted", "core", "done"}
  BY DEF Enters, FirstPhase, PhaseAfter, AfterErrors
<1>2. /\ at' = [at EXCEPT ![h] = phase]
      /\ pos' = IF phase = "done" /\ Foreground(h) THEN h + 1 ELSE pos
  BY DEF Enters, EnterPhase
<1>3. CASE phase \in Functions
  <2>1. called' = [called EXCEPT ![h][phase] = @ + 1]
    BY <1>3 DEF Enters, EnterPhase, Called
  <2>. QED  BY <1>1, <1>2, <1>3, <2>1 DEF Types, Phase
<1>4. CASE phase = "done"
  <2>1. called' = called /\ phase \notin Functions
    BY <1>4 DEF Enters, EnterPhase, Functions
  <2>. QED  BY <1>1, <1>2, <2>1 DEF Types, Phase
<1>. QED  BY <1>1, <1>3, <1>4 DEF Functions

LEMMA EnteringKeeps ==
    ASSUME IInv, NEW h \in Handlers, NEW phase, Enters(h, phase)
    PROVE  IInv'
<1>1. Types
  BY DEF IInv
<1>2. /\ phase \in {"has_error", "accepted", "core", "done"}
      /\ at' \in [Handlers -> Phase]
      /\ at'[h] = phase /\ \A g \in Handlers : g # h => at'[g] = at[g]
      /\ called' \in [Handlers -> [Functions -> Nat]]
      /\ \A g \in Handlers : g # h => called'[g] = called[g]
      /\ \A f \in Functions :
             called'[h][f] = called[h][f] + (IF f = phase THEN 1 ELSE 0)
      /\ pos' = IF phase = "done" /\ Foreground(h) THEN h + 1 ELSE pos
  BY <1>1, PhaseEntered
<1>3. /\ errors' \in Seq(Handlers)
      /\ \A g \in Handlers : Contains(errors', g) => Contains(errors, g) \/ g = h
  BY <1>1, RecordedErrors DEF Enters, Types
<1>4. /\ background' = background /\ stopping' = stopping /\ hooked' = hooked
      /\ dispatch' = dispatch /\ accepted' = accepted /\ told' = told
  BY DEF Enters, config
<1>5. Calls(h) /\ Position(h)
  BY DEF IInv
<1>6. InFunction(h) => phase # "has_error" /\ (at[h] # "has_error" => phase = "done")
  BY DEF Enters, PhaseAfter, AfterErrors, InFunction, Entry
<1>7. pos \in 1..(N + 1) /\ h \in 1..N /\ N \in Nat
  BY <1>1, ChainLengthAssumption DEF Types, Handlers
<1>8. Foreground(h) => dispatch = "running" /\ pos = h
  BY <1>5 DEF Enters, Position, Entry
<1>9. Types'
  <2>1. pos' \in 1..(N + 1)
    BY <1>2, <1>7, <1>8
  <2>. QED  BY <1>1, <1>2, <1>3, <1>4, <2>1 DEF Types
<1>10. ASSUME NEW k \in Handlers PROVE Calls(k)'
  <2>1. CASE k = h
    <3>1. \A f \in Functions : called[h][f] \in Nat
      BY <1>1 DEF Types
    <3>2. called'[h]["on_error"] = called[h]["on_error"]
      BY <1>2, <3>1 DEF Functions
    <3>3. /\ called'[h]["has_error"] = called[h]["has_error"] + (IF phase = "has_error" THEN 1 ELSE 0)
          /\ called'[h]["accepted"] = called[h]["accepted"] + (IF phase = "accepted" THEN 1 ELSE 0)
          /\ called'[h]["core"] = called[h]["core"] + (IF phase = "core" THEN 1 ELSE 0)
      BY <1>2 DEF Functions
    <3>4. called[h]["on_error"] <= called[h]["has_error"] + called[h]["accepted"] + called[h]["core"]
      BY <1>5, <3>1 DEF Calls, Entered, Functions
    <3>5. CASE Entry(h)
      BY <1>2, <1>5, <3>1, <3>2, <3>3, <3>4, <3>5, <2>1
         DEF Calls, Entered, Entry, InFunction, Functions
    <3>6. CASE InFunction(h)
      <4>1. /\ ~Entry(h) /\ h \in {k2 \in Handlers : InFunction(k2)}
            /\ phase = "done" \/ (at[h] = "has_error" /\ phase \in {"accepted", "core"})
        BY <1>2, <1>6, <3>6 DEF InFunction, Entry
      <4>2. Entered(h)' = Entered(h) + (IF phase = "done" THEN 0 ELSE 1)
        BY <3>1, <3>3, <4>1 DEF Entered, Functions
      <4>3. /\ \A f \in {"has_error", "accepted", "core"} : called'[h][f] <= 1
            /\ phase = "accepted" => called'[h]["accepted"] = 1
            /\ phase = "core" => called'[h]["core"] = 1
        <5>1. /\ called[h]["has_error"] \in Nat /\ called[h]["accepted"] \in Nat
              /\ called[h]["core"] \in Nat
          BY <3>1 DEF Functions
        <5>2. /\ called[h]["has_error"] <= 1 /\ called[h]["accepted"] <= 1
              /\ called[h]["core"] <= 1
              /\ at[h] = "has_error" => called[h]["accepted"] = 0 /\ called[h]["core"] = 0
          BY <1>5 DEF Calls
        <5>3. /\ called'[h]["has_error"] <= 1 /\ called'[h]["accepted"] <= 1
              /\ called'[h]["core"] <= 1
          BY <3>3, <4>1, <5>1, <5>2
        <5>4. /\ phase = "accepted" => called'[h]["accepted"] = 1
              /\ phase = "core" => called'[h]["core"] = 1
          BY <3>3, <4>1, <5>1, <5>2
        <5>. QED  BY <5>3, <5>4
      <4>4. called[h]["on_error"] <= Entered(h) /\ Entered(h) \in Nat
        BY <3>1, <3>4 DEF Entered, Functions
      <4>5. called'[h]["on_error"] + (IF phase = "done" THEN 0 ELSE 1) <= Entered(h)'
        <5>1. called[h]["on_error"] \in Nat
          BY <3>1 DEF Functions
        <5>. HIDE DEF Entered
        <5>. QED  BY <3>2, <4>2, <4>4, <5>1
      <4>6. called'[h]["on_error"] + (IF InFunction(h)' /\ h \notin recovering' THEN 1 ELSE 0)
              <= Entered(h)'
        <5>1. Entered(h)' \in Nat /\ (InFunction(h)' => phase # "done")
          BY <1>2, <4>2, <4>4 DEF InFunction
        <5>. QED  BY <3>1, <3>2, <4>5, <5>1 DEF Functions
      <4>. QED  BY <1>2, <2>1, <4>1, <4>3, <4>6 DEF Calls
    <3>. QED  BY <3>5, <3>6 DEF Enters
  <2>2. CASE k # h
    <3>1. Calls(k)
      BY DEF IInv
    <3>2. k \in recovering' <=> k \in recovering
      BY <2>2 DEF Enters
    <3>. QED  BY <1>2, <2>2, <3>1, <3>2 DEF Calls, Entered, InFunction
  <2>. QED  BY <2>1, <2>2
<1>11. ASSUME NEW k \in Handlers PROVE Position(k)' /\ Told(k)'
  <2>1. Position(k) /\ Told(k) /\ k \in 1..N
    BY DEF IInv, Handlers
  <2>2. Told(k)'
    BY <1>2, <1>4, <1>7, <1>8, <2>1 DEF Told
  <2>3. CASE Foreground(h)
    <3>1. dispatch = "running" /\ pos = h /\ pos' = (IF phase = "done" THEN h + 1 ELSE h)
      BY <1>2, <1>8, <2>3
    <3>2. CASE k = h
      BY <1>2, <2>2, <1>4, <1>7, <2>1, <2>3, <3>1, <3>2 DEF Position, Foreground, InFunction
    <3>3. CASE k # h
      <4>1. at'[k] = at[k] /\ (k < pos' => k < pos) /\ k # pos
        <5>1. at'[k] = at[k]
          BY <1>2, <3>3
        <5>2. pos' = h \/ pos' = h + 1
          BY <3>1
        <5>3. (k < pos' => k < pos) /\ k # pos
          BY <1>7, <2>1, <3>1, <3>3, <5>2
        <5>. QED  BY <5>1, <5>3
      <4>2. k > pos' => k > pos
        BY <1>7, <2>1, <3>1
      <4>3. k = pos' => at[k] = "idle"
        BY <1>7, <2>1, <3>1, <3>3 DEF Position
      <4>. QED  BY <1>4, <2>2, <2>1, <3>1, <4>1, <4>2, <4>3 DEF Position, Foreground, InFunction
    <3>. QED  BY <3>2, <3>3
  <2>4. CASE ~Foreground(h)
    <3>1. pos' = pos /\ at[h] # "idle"
      BY <1>2, <2>4 DEF Enters
    <3>2. CASE k = h
      BY <1>2, <2>2, <1>4, <1>5, <2>4, <3>1, <3>2 DEF Position, Foreground, InFunction
    <3>3. CASE k # h
      BY <1>2, <2>2, <1>4, <2>1, <3>1, <3>3 DEF Position, Foreground, InFunction
    <3>. QED  BY <3>2, <3>3
  <2>. QED  BY <2>2, <2>3, <2>4
<1>12. ASSUME NEW g \in Handlers, g < h PROVE at[g] # "idle" /\ (Foreground(g) => at[g] = "done")
  <2>1. InTurn(g, h) /\ Position(g)
    BY DEF IInv
  <2>. QED  BY <1>12, <2>1 DEF Enters, InTurn, Position, Entry, InFunction
<1>13. ASSUME NEW g \in Handlers, NEW k \in Handlers PROVE InTurn(g, k)'
  <2>1. InTurn(g, k) /\ Position(k) /\ Position(h)
    BY DEF IInv
  <2>2. CASE k = h
    <3>. SUFFICES ASSUME g < h PROVE InTurn(g, h)'
      BY <2>2 DEF InTurn
    <3>1. g # h /\ at'[g] = at[g]
      BY <1>2, <1>7 DEF Handlers
    <3>. QED  BY <1>4, <1>12, <3>1 DEF InTurn, Foreground
  <2>3. CASE k # h /\ g = h
    BY <1>2, <1>4, <1>7, <1>8, <2>1, <2>3 DEF InTurn, Foreground, Handlers, Enters, Entry, InFunction, Position
  <2>4. CASE k # h /\ g # h
    BY <1>2, <1>4, <2>1, <2>4 DEF InTurn, Foreground
  <2>. QED  BY <2>2, <2>3, <2>4
<1>14. ASSUME NEW g \in Handlers, NEW k \in Handlers PROVE Informed(g, k)'
  <2>1. Informed(g, k) /\ InTurn(g, k)
    BY DEF IInv
  <2>2. CASE k = h
    <3>. SUFFICES ASSUME g < h, Foreground(g) PROVE Informed(g, h)'
      BY <2>2, <1>4 DEF Informed, Foreground
    <3>1. g # h /\ (Contains(errors', g) => Contains(errors, g))
      BY <1>3, <1>7 DEF Handlers
    <3>2. Contains(errors, g) => errors # << >>
      BY <1>1, ContainsNonempty DEF Types
    <3>3. Contains(errors, g) => errors' # << >>
      BY <1>1, <3>2 DEF Enters, Recorded, Types
    <3>4. /\ called[h]["has_error"] \in Nat /\ called[h]["accepted"] \in Nat
          /\ called[h]["core"] \in Nat
          /\ called'[h]["has_error"] = called[h]["has_error"] + (IF phase = "has_error" THEN 1 ELSE 0)
          /\ called'[h]["accepted"] = called[h]["accepted"] + (IF phase = "accepted" THEN 1 ELSE 0)
          /\ called'[h]["core"] = called[h]["core"] + (IF phase = "core" THEN 1 ELSE 0)
      BY <1>1, <1>2 DEF Functions, Types
    <3>5. CASE Entry(h)
      <4>1. /\ called[h]["has_error"] = 0 /\ called[h]["accepted"] = 0
            /\ called[h]["core"] = 0
        BY <1>5, <3>5 DEF Calls, Entry, Functions
      <4>2. /\ Contains(errors, g) => (h \in hooked => phase = "has_error") /\ (h \in stopping => phase # "core")
            /\ g \in accepted => phase # "core" /\ (phase = "done" => h \notin hooked)
        BY <3>2, <3>5 DEF Enters, FirstPhase, AfterErrors
      <4>. QED  BY <1>2, <1>4, <3>1, <3>4, <4>1, <4>2 DEF Informed
    <3>6. CASE InFunction(h)
      <4>1. ~Entry(h) /\ Begun(h)
        BY <3>6 DEF InFunction, Entry, Begun
      <4>2. CASE at[h] = "has_error"
        <5>1. /\ Contains(errors, g) => (h \in stopping => phase # "core")
              /\ g \in accepted => phase # "core" /\ (phase = "done" => h \notin hooked)
              /\ phase # "has_error"
          BY <3>3, <4>1, <4>2 DEF Enters, PhaseAfter, AfterErrors
        <5>2. called[h]["accepted"] = 0 /\ called[h]["core"] = 0
          BY <1>5, <4>2 DEF Calls
        <5>. QED  BY <1>2, <1>4, <2>1, <2>2, <3>1, <3>4, <4>1, <5>1, <5>2 DEF Informed
      <4>3. CASE at[h] # "has_error"
        <5>1. phase = "done"
          BY <1>6, <3>6, <4>3
        <5>2. at[h] = "core" => g \notin accepted
          <6>1. ASSUME at[h] = "core" PROVE called[h]["core"] = 1
            BY <1>5, <6>1 DEF Calls
          <6>. QED  BY <6>1, <2>1, <2>2, <3>4 DEF Informed
        <5>. QED  BY <1>2, <1>4, <2>1, <2>2, <3>1, <3>4, <3>6, <4>1, <4>3, <5>1, <5>2 DEF Informed, InFunction
      <4>. QED  BY <4>2, <4>3
    <3>. QED  BY <3>5, <3>6 DEF Enters
  <2>3. CASE k # h
    <3>1. g = h /\ InFunction(h) /\ h < k /\ Foreground(h) => at[k] = "idle"
      BY <1>8, <2>1 DEF InTurn, InFunction
    <3>. QED  BY <1>2, <1>3, <1>4, <2>1, <2>3, <3>1 DEF Informed, Begun, Foreground, Enters
  <2>. QED  BY <2>2, <2>3
<1>15. dispatch' \in {"done", "cancelled"} => pos' > N
  BY <1>2, <1>4, <1>8 DEF IInv
<1>. QED  BY <1>9, <1>10, <1>11, <1>13, <1>14, <1>15 DEF IInv

-----------------------------------------------------------------------------
(* The steps of a handler.                                                  *)

LEMMA StartKeeps ==
    ASSUME IInv, NEW h \in Handlers, Start(h)
    PROVE  IInv'
<1>1. Entry(h) /\ ~InFunction(h)
  BY DEF Start, Entry, InFunction
<1>2. at[h] = "idle" => dispatch = "running" /\ pos = h /\ Foreground(h)
  BY DEF Start
<1>3. Enters(h, FirstPhase(h))
  BY <1>1, <1>2 DEF Start, Enters
<1>. QED  BY <1>3, EnteringKeeps

LEMMA ReturnsKeeps ==
    ASSUME IInv, NEW h \in Handlers, Returns(h)
    PROVE  IInv'
<1>1. InFunction(h) /\ ~Entry(h) /\ at[h] # "idle"
  BY DEF Returns, Entry, InFunction
<1>2. Enters(h, PhaseAfter(h, errors'))
  BY <1>1 DEF Returns, Enters
<1>. QED  BY <1>2, EnteringKeeps

(* A step that leaves the phases alone may add failures of a handler that   *)
(* runs: nobody behind a foreground handler has begun.                      *)
LEMMA RaisesKeeps ==
    ASSUME IInv, NEW h \in Handlers, Raises(h)
    PROVE  IInv'
<1>1. InFunction(h) /\ ~Entry(h) /\ at[h] # "idle" /\ errors' = Recorded(h)
  BY DEF Raises, Entry, InFunction
<1>2. Types /\ Calls(h)
  BY DEF IInv
<1>3. CASE h \in hooked /\ h \notin recovering
  <2>1. /\ recovering' = recovering \cup {h}
        /\ called' = [called EXCEPT ![h]["on_error"] = @ + 1]
        /\ UNCHANGED <<background, stopping, hooked, pos, at, seen, dispatch, accepted, told>>
    BY <1>3 DEF Raises, Called, config
  <2>2. /\ called' \in [Handlers -> [Functions -> Nat]]
        /\ \A g \in Handlers, f \in Functions :
               called'[g][f] = called[g][f] + (IF g = h /\ f = "on_error" THEN 1 ELSE 0)
    <3>1. /\ called \in [Handlers -> [Functions -> Nat]] /\ "on_error" \in Functions
          /\ called[h] \in [Functions -> Nat] /\ called[h]["on_error"] \in Nat
      BY <1>2 DEF Types, Functions
    <3>2. called' = [called EXCEPT ![h] = [called[h] EXCEPT !["on_error"] = @ + 1]]
      BY <2>1
    <3>3. /\ called'[h] = [called[h] EXCEPT !["on_error"] = @ + 1]
          /\ \A g \in Handlers : g # h => called'[g] = called[g]
      BY <3>1, <3>2
    <3>4. called'[h] \in [Functions -> Nat]
      BY <3>1, <3>3
    <3>5. called' \in [Handlers -> [Functions -> Nat]]
      BY <3>1, <3>2, <3>3, <3>4
    <3>6. ASSUME NEW g \in Handlers, NEW f \in Functions
          PROVE  called'[g][f] = called[g][f] + (IF g = h /\ f = "on_error" THEN 1 ELSE 0)
      <4>1. called[g][f] \in Nat
        BY <3>1
      <4>2. CASE g = h
        <5>1. called'[h][f] = IF f = "on_error" THEN called[h][f] + 1 ELSE called[h][f]
          BY <3>1, <3>3
        <5>. QED  BY <4>1, <4>2, <5>1
      <4>3. CASE g # h
        BY <3>3, <4>1, <4>3
      <4>. QED  BY <4>2, <4>3
    <3>. QED  BY <3>5, <3>6
  <2>3. /\ errors' \in Seq(Handlers)
        /\ \A g \in Handlers : Contains(errors', g) => Contains(errors, g) \/ g = h
    BY <1>1, <1>2, RecordedErrors
  <2>4. Types'
    BY <1>2, <2>1, <2>2, <2>3 DEF Types
  <2>5. ASSUME NEW k \in Handlers PROVE Calls(k)'
    <3>1. Calls(k) /\ \A f \in Functions : called[k][f] \in Nat
      BY <1>2 DEF IInv, Types
    <3>2. /\ called'[k]["on_error"] = called[k]["on_error"] + (IF k = h THEN 1 ELSE 0)
          /\ \A f \in {"has_error", "accepted", "core"} : called'[k][f] = called[k][f]
      BY <2>2, <3>1 DEF Functions
    <3>3. k # h => (k \in recovering' <=> k \in recovering)
      BY <2>1
    <3>4. CASE k # h
      <4>1. called'[k]["on_error"] = called[k]["on_error"]
        BY <3>1, <3>2, <3>4 DEF Functions
      <4>2. \A f \in Functions : called'[k][f] = called[k][f]
        BY <3>2, <4>1 DEF Functions
      <4>. QED  BY <2>1, <3>1, <3>2, <3>3, <3>4, <4>2 DEF Calls, Entered, InFunction, Functions
    <3>5. CASE k = h
      <4>1. called[h]["on_error"] + 1 <= Entered(h)
        BY <1>1, <1>2, <1>3 DEF Calls
      <4>2. Entered(h)' = Entered(h) /\ Entered(h) \in Nat
        BY <3>1, <3>2, <3>5 DEF Entered, Functions
      <4>3. called'[h]["on_error"] <= Entered(h)' /\ called'[h]["on_error"] \in Nat
        BY <3>1, <3>2, <3>5, <4>1, <4>2 DEF Functions
      <4>4. h \in recovering'
        BY <2>1
      <4>5. at[h] \notin {"idle", "scheduled"}
        BY <1>1 DEF Entry
      <4>. QED  BY <1>2, <2>1, <3>2, <3>5, <4>2, <4>3, <4>4, <4>5 DEF Calls
    <3>. QED  BY <3>4, <3>5
  <2>6. ASSUME NEW k \in Handlers PROVE Position(k)' /\ Told(k)'
    BY <2>1 DEF IInv, Position, Told, Foreground, InFunction
  <2>7. ASSUME NEW g \in Handlers, NEW k \in Handlers PROVE InTurn(g, k)' /\ Informed(g, k)'
    <3>1. InTurn(g, k) /\ Informed(g, k)
      BY DEF IInv
    <3>2. InTurn(g, k)'
      BY <2>1, <3>1 DEF InTurn, Foreground
    <3>3. g = h /\ g < k /\ Foreground(g) => at[k] = "idle"
      BY <1>1, <3>1 DEF InTurn, InFunction
    <3>4. \A f \in {"has_error", "accepted", "core"} : called'[k][f] = called[k][f]
      <4>1. \A f \in Functions : called[k][f] \in Nat
        BY <1>2 DEF Types
      <4>. QED  BY <2>2, <4>1 DEF Functions
    <3>5. Informed(g, k)'
      BY <2>1, <2>3, <3>1, <3>3, <3>4 DEF Informed, Begun, Foreground
    <3>. QED  BY <3>2, <3>5
  <2>. QED  BY <2>1, <2>4, <2>5, <2>6, <2>7 DEF IInv
<1>4. CASE ~(h \in hooked /\ h \notin recovering)
  <2>1. Enters(h, PhaseAfter(h, errors'))
    BY <1>1, <1>4 DEF Raises, Enters
  <2>. QED  BY <2>1, EnteringKeeps
<1>. QED  BY <1>3, <1>4

LEMMA AcceptKeeps ==
    ASSUME IInv, NEW h \in Handlers, Accept(h)
    PROVE  IInv'
<1>1. /\ InFunction(h) /\ accepted' = accepted \cup {h}
      /\ UNCHANGED <<background, stopping, hooked, pos, dispatch, at, recovering,
                     errors, seen, called, told>>
  BY DEF Accept, config
<1>2. Types'
  BY <1>1 DEF IInv, Types
<1>3. ASSUME NEW k \in Handlers PROVE Calls(k)' /\ Position(k)' /\ Told(k)'
  BY <1>1 DEF IInv, Calls, Entered, Position, Told, Foreground, InFunction
<1>4. ASSUME NEW g \in Handlers, NEW k \in Handlers PROVE InTurn(g, k)' /\ Informed(g, k)'
  <2>1. InTurn(g, k) /\ Informed(g, k) /\ Calls(k)
    BY DEF IInv
  <2>2. InTurn(g, k)'
    BY <1>1, <2>1 DEF InTurn, Foreground
  <2>3. g = h /\ g < k /\ Foreground(g) => at[k] = "idle" /\ called[k]["core"] = 0
    BY <1>1, <2>1 DEF InTurn, InFunction, Calls, Functions
  <2>4. Informed(g, k)'
    BY <1>1, <2>1, <2>3 DEF Informed, Begun, Foreground
  <2>. QED  BY <2>2, <2>4
<1>. QED  BY <1>1, <1>2, <1>3, <1>4 DEF IInv

-----------------------------------------------------------------------------
(* The steps of the dispatch task.  None of them calls a phase's function.  *)

Quiet ==
    UNCHANGED <<background, stopping, hooked, accepted, called>>

LEMMA QuietCalls ==
    ASSUME IInv, Quiet, NEW k \in Handlers,
           \/ at'[k] = at[k] /\ (k \in recovering' <=> k \in recovering)
           \/ at'[k] = "cancelled"
           \/ at[k] = "idle" /\ at'[k] = "scheduled"
    PROVE  Calls(k)'
<1>1. Calls(k) /\ \A f \in Functions : called[k][f] \in Nat
  BY DEF IInv, Types
<1>2. called' = called
  BY DEF Quiet
<1>3. CASE at'[k] = at[k] /\ (k \in recovering' <=> k \in recovering)
  BY <1>1, <1>2, <1>3 DEF Calls, Entered, InFunction
<1>4. CASE at'[k] \in {"cancelled", "scheduled"}
  <2>1. called[k]["on_error"] <= Entered(k)
    BY <1>1 DEF Calls, Entered, Functions
  <2>2. Entered(k)' = Entered(k) /\ ~InFunction(k)' /\ called[k]["on_error"] + 0 = called[k]["on_error"]
    BY <1>1, <1>2, <1>4 DEF Entered, InFunction, Functions
  <2>. QED  BY <1>1, <1>2, <1>4, <2>1, <2>2 DEF Calls
<1>. QED  BY <1>3, <1>4

LEMMA CancelledKeeps ==
    ASSUME IInv, NEW h \in Handlers, Cancelled(h)
    PROVE  IInv'
<1>1. /\ InFunction(h) /\ at[h] \notin {"idle", "scheduled"}
      /\ at' = [at EXCEPT ![h] = "cancelled"] /\ recovering' = recovering \ {h}
      /\ errors' = Recorded(h) /\ Quiet
  BY DEF Cancelled, Quiet, config, InFunction
<1>2. Types /\ N \in Nat /\ h \in 1..N /\ h \in Handlers
  BY ChainLengthAssumption DEF IInv, Handlers
<1>3. /\ at' \in [Handlers -> Phase] /\ at'[h] = "cancelled"
      /\ \A k \in Handlers : k # h => at'[k] = at[k]
  BY <1>1, <1>2 DEF Types, Phase
<1>4. /\ errors' \in Seq(Handlers)
      /\ \A g \in Handlers : Contains(errors', g) => Contains(errors, g) \/ g = h
  BY <1>1, <1>2, RecordedErrors
<1>5. ASSUME NEW k \in Handlers PROVE Calls(k)'
  BY <1>1, <1>3, QuietCalls
<1>6. ASSUME NEW g \in Handlers, NEW k \in Handlers PROVE InTurn(g, k)' /\ Informed(g, k)'
  <2>1. InTurn(g, k) /\ Informed(g, k)
    BY DEF IInv
  <2>2. g = h /\ g < k /\ Foreground(g) => at[k] = "idle" /\ k # h
    BY <1>1, <1>2, <2>1 DEF InTurn, InFunction
  <2>3. InTurn(g, k)'
    BY <1>1, <1>3, <2>1, <2>2 DEF InTurn, Foreground, Quiet, InFunction
  <2>4. Informed(g, k)'
    BY <1>1, <1>3, <1>4, <2>1, <2>2 DEF Informed, Begun, Foreground, Quiet
  <2>. QED  BY <2>3, <2>4
<1>7. Position(h)
  BY DEF IInv
<1>8. CASE Foreground(h)
  <2>1. dispatch' = "unwinding" /\ pos' = 1 /\ told' = told /\ dispatch = "running" /\ pos = h
    BY <1>1, <1>7, <1>8 DEF Cancelled, Position
  <2>2. Types'
    BY <1>1, <1>2, <1>3, <1>4, <2>1 DEF Types, Quiet
  <2>3. ASSUME NEW k \in Handlers PROVE Position(k)' /\ Told(k)'
    <3>1. Position(k) /\ Told(k) /\ k \in 1..N
      BY DEF IInv, Handlers
    <3>2. k = h \/ ~Foreground(k) \/ ~InFunction(k)
      BY <2>1, <3>1 DEF Position
    <3>3. Position(k)'
      BY <1>1, <1>3, <2>1, <3>1, <3>2 DEF Position, Foreground, InFunction, Quiet
    <3>. QED  BY <1>1, <2>1, <3>1, <3>3 DEF Told, Quiet
  <2>. QED  BY <1>5, <1>6, <2>1, <2>2, <2>3 DEF IInv
<1>9. CASE ~Foreground(h)
  <2>1. dispatch' = dispatch /\ pos' = pos
        /\ told' = [told EXCEPT ![h] = IF h \in hooked THEN @ + 1 ELSE @]
    BY <1>9 DEF Cancelled, Tell
  <2>2. Types'
    BY <1>1, <1>2, <1>3, <1>4, <2>1 DEF Types, Quiet
  <2>3. ASSUME NEW k \in Handlers PROVE Position(k)' /\ Told(k)'
    <3>1. Position(k) /\ Told(k) /\ k \in 1..N
      BY DEF IInv, Handlers
    <3>2. Position(k)'
      BY <1>1, <1>3, <1>9, <2>1, <3>1 DEF Position, Foreground, InFunction, Quiet
    <3>3. Told(k)'
      BY <1>1, <1>2, <1>9, <2>1, <3>1 DEF Told, Foreground, Quiet, Types
    <3>. QED  BY <3>2, <3>3
  <2>. QED  BY <1>5, <1>6, <2>1, <2>2, <2>3 DEF IInv
<1>. QED  BY <1>8, <1>9

LEMMA CancelledEarlyKeeps ==
    ASSUME IInv, NEW h \in Handlers, CancelledEarly(h)
    PROVE  IInv'
<1>1. /\ at[h] = "scheduled" /\ at' = [at EXCEPT ![h] = "cancelled"]
      /\ UNCHANGED <<pos, dispatch, recovering, errors, told>> /\ Quiet
  BY DEF CancelledEarly, Quiet, config, event
<1>2. Types
  BY DEF IInv
<1>3. /\ at' \in [Handlers -> Phase] /\ at'[h] = "cancelled"
      /\ \A k \in Handlers : k # h => at'[k] = at[k]
  BY <1>1, <1>2 DEF Types, Phase
<1>4. ASSUME NEW k \in Handlers PROVE Calls(k)'
  BY <1>1, <1>3, QuietCalls
<1>5. ASSUME NEW g \in Handlers, NEW k \in Handlers PROVE InTurn(g, k)' /\ Informed(g, k)'
  <2>1. InTurn(g, k) /\ Informed(g, k) /\ Position(h)
    BY DEF IInv
  <2>2. ~Foreground(h)
    BY <1>1, <2>1 DEF Position
  <2>3. InTurn(g, k)'
    BY <1>1, <1>3, <2>1, <2>2 DEF InTurn, Foreground, Quiet
  <2>4. Informed(g, k)'
    BY <1>1, <1>3, <2>1 DEF Informed, Begun, Foreground, Quiet
  <2>. QED  BY <2>3, <2>4
<1>6. ASSUME NEW k \in Handlers PROVE Position(k)' /\ Told(k)'
  <2>1. Position(k) /\ Told(k) /\ Position(h)
    BY DEF IInv
  <2>2. Position(k)'
    BY <1>1, <1>3, <2>1 DEF Position, Foreground, InFunction, Quiet
  <2>. QED  BY <1>1, <2>1, <2>2 DEF Told, Quiet
<1>7. Types'
  BY <1>1, <1>2, <1>3 DEF Types, Quiet
<1>. QED  BY <1>1, <1>4, <1>5, <1>6, <1>7 DEF IInv

LEMMA ScheduleKeeps ==
    ASSUME IInv, NEW h \in Handlers, Schedule(h)
    PROVE  IInv'
<1>1. /\ dispatch = "running" /\ pos = h /\ h \in background /\ pos' = h + 1
      /\ at' = [at EXCEPT ![h] = "scheduled"]
      /\ UNCHANGED <<dispatch, recovering, errors, told>> /\ Quiet
  BY DEF Schedule, Quiet, config, event
<1>2. Types /\ Position(h) /\ N \in Nat /\ h \in 1..N
  BY ChainLengthAssumption DEF IInv, Handlers
<1>3. at[h] = "idle"
  BY <1>1, <1>2 DEF Position
<1>4. /\ at' \in [Handlers -> Phase] /\ at'[h] = "scheduled"
      /\ \A k \in Handlers : k # h => at'[k] = at[k]
  BY <1>1, <1>2 DEF Types, Phase
<1>5. ASSUME NEW k \in Handlers PROVE Calls(k)'
  BY <1>1, <1>3, <1>4, QuietCalls
<1>6. ASSUME NEW g \in Handlers, NEW k \in Handlers PROVE InTurn(g, k)' /\ Informed(g, k)'
  <2>1. InTurn(g, k) /\ Informed(g, k) /\ Position(g) /\ Position(k) /\ g \in 1..N /\ k \in 1..N
    BY DEF IInv, Handlers
  <2>2. InTurn(g, k)'
    BY <1>1, <1>2, <1>3, <1>4, <2>1 DEF InTurn, Foreground, Quiet, Position
  <2>3. Informed(g, k)'
    BY <1>1, <1>3, <1>4, <2>1 DEF Informed, Begun, Foreground, Quiet
  <2>. QED  BY <2>2, <2>3
<1>7. ASSUME NEW k \in Handlers PROVE Position(k)' /\ Told(k)'
  <2>1. Position(k) /\ Told(k) /\ k \in 1..N
    BY DEF IInv, Handlers
  <2>2. CASE k = h
    BY <1>1, <1>2, <1>4, <2>1, <2>2 DEF Position, Told, Foreground, InFunction, Quiet
  <2>3. CASE k # h
    <3>1. at'[k] = at[k] /\ (k < pos' <=> k < pos) /\ (k > pos' => k > pos) /\ (k = pos' => k > pos)
      BY <1>1, <1>2, <1>4, <2>1, <2>3
    <3>2. Position(k)'
      BY <1>1, <2>1, <3>1 DEF Position, Foreground, InFunction, Quiet
    <3>. QED  BY <1>1, <2>1, <3>1, <3>2 DEF Told, Quiet
  <2>. QED  BY <2>2, <2>3
<1>8. Types'
  BY <1>1, <1>2, <1>4 DEF Types, Quiet
<1>. QED  BY <1>1, <1>5, <1>6, <1>7, <1>8 DEF IInv

(* The dispatch task moves on, and no handler does. *)
DispatchMove == DispatchStarts \/ DispatchAbandoned \/ DispatchEnds

LEMMA UntouchedHandlers ==
    ASSUME IInv, Quiet, UNCHANGED <<at, recovering, errors>>,
           NEW g \in Handlers, NEW k \in Handlers
    PROVE  Calls(k)' /\ InTurn(g, k)' /\ Informed(g, k)'
<1>1. InTurn(g, k) /\ Informed(g, k)
  BY DEF IInv
<1>2. Calls(k)'
  BY QuietCalls
<1>3. InTurn(g, k)' /\ Informed(g, k)'
  BY <1>1 DEF InTurn, Informed, Begun, Foreground, Quiet
<1>. QED  BY <1>2, <1>3

LEMMA DispatchMoveKeeps ==
    ASSUME IInv, DispatchMove
    PROVE  IInv'
<1>1. /\ UNCHANGED <<pos, at, recovering, errors, told>> /\ Quiet
      /\ \/ dispatch = "created" /\ dispatch' \in {"running", "abandoned"}
         \/ dispatch = "running" /\ dispatch' = "done" /\ pos > N
         \/ dispatch = "unwinding" /\ dispatch' = "cancelled" /\ pos > N
  BY DEF DispatchMove, DispatchStarts, DispatchAbandoned, DispatchEnds, Quiet, config, event
<1>2. Types /\ N \in Nat
  BY ChainLengthAssumption DEF IInv
<1>3. Types'
  BY <1>1, <1>2 DEF Types, Quiet
<1>4. ASSUME NEW k \in Handlers PROVE Position(k)' /\ Told(k)'
  <2>1. Position(k) /\ Told(k) /\ k \in 1..N /\ pos \in 1..(N + 1)
    BY <1>2 DEF IInv, Handlers, Types
  <2>2. Position(k)'
    BY <1>1, <1>2, <2>1 DEF Position, Foreground, InFunction, Quiet
  <2>3. Told(k)'
    BY <1>1, <1>2, <2>1 DEF Told, Quiet
  <2>. QED  BY <2>2, <2>3
<1>5. \A g, k \in Handlers : Calls(k)' /\ InTurn(g, k)' /\ Informed(g, k)'
  BY <1>1, UntouchedHandlers
<1>6. dispatch' \in {"done", "cancelled"} => pos' > N
  BY <1>1
<1>. QED  BY <1>3, <1>4, <1>5, <1>6 DEF IInv

LEMMA NotifyCancelledKeeps ==
    ASSUME IInv, NEW h \in Handlers, NotifyCancelled(h)
    PROVE  IInv'
<1>1. /\ dispatch = "unwinding" /\ pos = h /\ pos' = h + 1
      /\ told' = IF Foreground(h)
                 THEN [told EXCEPT ![h] = IF h \in hooked THEN @ + 1 ELSE @] ELSE told
      /\ UNCHANGED <<dispatch, at, recovering, errors>> /\ Quiet
  BY DEF NotifyCancelled, Tell, Quiet, config, event
<1>2. Types /\ N \in Nat /\ h \in 1..N
  BY ChainLengthAssumption DEF IInv, Handlers
<1>3. Types'
  <2>1. told \in [Handlers -> Nat] /\ told[h] \in Nat
    BY <1>2 DEF Types
  <2>2. told' \in [Handlers -> Nat]
    BY <1>1, <2>1
  <2>3. pos' \in 1..(N + 1)
    BY <1>1, <1>2
  <2>. QED  BY <1>1, <1>2, <2>2, <2>3 DEF Types, Quiet
<1>4. ASSUME NEW k \in Handlers PROVE Position(k)' /\ Told(k)'
  <2>1. Position(k) /\ Told(k) /\ k \in 1..N
    BY DEF IInv, Handlers
  <2>2. Position(k)'
    BY <1>1, <2>1 DEF Position, Foreground, InFunction, Quiet
  <2>3. Told(k)'
    BY <1>1, <1>2, <2>1 DEF Told, Foreground, Quiet, Types
  <2>. QED  BY <2>2, <2>3
<1>5. \A g, k \in Handlers : Calls(k)' /\ InTurn(g, k)' /\ Informed(g, k)'
  BY <1>1, UntouchedHandlers
<1>. QED  BY <1>1, <1>3, <1>4, <1>5 DEF IInv

-----------------------------------------------------------------------------
(* The invariant, and what follows from it.                                 *)

LEMMA Initially == Init => IInv
<1>. SUFFICES ASSUME Init PROVE IInv
  OBVIOUS
<1>1. N \in Nat /\ N >= 1
  BY ChainLengthAssumption
<1>2. Types
  BY <1>1 DEF Init, Types, Phase, Handlers
<1>3. ASSUME NEW k \in Handlers PROVE Calls(k) /\ Position(k) /\ Told(k)
  <2>1. /\ dispatch = "created" /\ pos = 1 /\ at[k] = "idle" /\ told[k] = 0
        /\ \A f \in Functions : called[k][f] = 0
    BY DEF Init
  <2>2. Calls(k)
    BY <2>1 DEF Calls, Entered, InFunction, Functions
  <2>. QED  BY <2>1, <2>2 DEF Position, Told, InFunction
<1>4. ASSUME NEW g \in Handlers, NEW k \in Handlers PROVE InTurn(g, k) /\ Informed(g, k)
  <2>1. at[k] = "idle" /\ g \notin accepted
    BY DEF Init
  <2>. QED  BY <2>1 DEF InTurn, Informed, Begun
<1>5. dispatch = "created"
  BY DEF Init
<1>. QED  BY <1>2, <1>3, <1>4, <1>5 DEF IInv

LEMMA StepKeeps == IInv /\ [Next]_vars => IInv'
<1>. SUFFICES ASSUME IInv, [Next]_vars PROVE IInv'
  OBVIOUS
<1>1. ASSUME DispatchMove PROVE IInv'
  BY <1>1, DispatchMoveKeeps
<1>2. ASSUME NEW h \in Handlers, Start(h) \/ Returns(h) \/ Raises(h) \/ Accept(h)
      PROVE  IInv'
  BY <1>2, StartKeeps, ReturnsKeeps, RaisesKeeps, AcceptKeeps
<1>3. ASSUME NEW h \in Handlers,
             Schedule(h) \/ Cancelled(h) \/ CancelledEarly(h) \/ NotifyCancelled(h)
      PROVE  IInv'
  BY <1>3, ScheduleKeeps, CancelledKeeps, CancelledEarlyKeeps, NotifyCancelledKeeps
<1>4. CASE UNCHANGED vars
  BY <1>4 DEF vars, config, event, IInv, Types, Calls, Entered, Position, Told, InTurn,
              Informed, Begun, Foreground, InFunction
<1>. QED  BY <1>1, <1>2, <1>3, <1>4 DEF Next, DispatchMove

LEMMA Invariance == Spec => []IInv
BY Initially, StepKeeps, PTL DEF Spec

(* execute() calls each notification and the core once at most, and on_error *)
(* once per function that failed, for every chain.                          *)
THEOREM FunctionsRunOnce == Spec => []CalledOnce
<1>1. IInv => CalledOnce
  <2>. SUFFICES ASSUME IInv, NEW h \in Handlers
                PROVE  /\ \A f \in {"has_error", "accepted", "core"} : called[h][f] <= 1
                       /\ called[h]["on_error"] <= Entered(h)
    BY DEF CalledOnce, Entered
  <2>1. Calls(h) /\ called[h]["on_error"] \in Nat
    BY DEF IInv, Types, Functions
  <2>2. Entered(h) \in Nat
    BY DEF IInv, Types, Functions, Entered
  <2>. QED  BY <2>1, <2>2 DEF Calls
<1>. QED  BY <1>1, Invariance, PTL

(* Failures of foreground handlers reach every handler behind them, in the  *)
(* background too, and stop the cores that ask for it.                      *)
THEOREM UpstreamErrorsReach == Spec => []UpstreamErrorsAreReported
<1>1. IInv => UpstreamErrorsAreReported
  BY DEF IInv, Informed, Begun, UpstreamErrorsAreReported
<1>. QED  BY <1>1, Invariance, PTL

(* Nothing runs its core behind a foreground handler that accepted.         *)
THEOREM AcceptanceStops == Spec => []AcceptanceStopsLaterCores
<1>1. IInv => AcceptanceStopsLaterCores
  <2>. SUFFICES ASSUME IInv, NEW g \in accepted \ background, NEW h \in Handlers, g < h
                PROVE  /\ called[h]["core"] = 0
                       /\ at[h] = "done" /\ h \in hooked => called[h]["accepted"] = 1
    BY DEF AcceptanceStopsLaterCores
  <2>1. g \in Handlers
    BY DEF IInv, Types
  <2>. QED  BY <2>1 DEF IInv, Informed, Foreground
<1>. QED  BY <1>1, Invariance, PTL

(* A cancelled dispatch tells each foreground handler once, whatever had    *)
(* run, and no other dispatch tells any.                                    *)
THEOREM CancellationReaches == Spec => []CancellationReachesTheChain
<1>1. IInv => CancellationReachesTheChain
  <2>. SUFFICES ASSUME IInv, NEW h \in hooked \ background
                PROVE  /\ dispatch = "cancelled" => told[h] = 1
                       /\ dispatch \notin {"unwinding", "cancelled"} => told[h] = 0
    BY DEF CancellationReachesTheChain
  <2>1. h \in Handlers /\ h \in 1..N /\ pos \in 1..(N + 1) /\ N \in Nat
    BY ChainLengthAssumption DEF IInv, Types, Handlers
  <2>2. Told(h) /\ (dispatch = "cancelled" => h < pos)
    BY <2>1 DEF IInv
  <2>. QED  BY <2>2 DEF Told
<1>. QED  BY <1>1, Invariance, PTL

=============================================================================
