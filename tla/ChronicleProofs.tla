--------------------------- MODULE ChronicleProofs --------------------------
(* Theorems about module Chronicle, for any players, limits and bounds. *)
EXTENDS Chronicle, FiniteSetTheorems, SequenceTheorems, TLAPS

-----------------------------------------------------------------------------
(* The inductive invariant, in parts.                                      *)

\* An event whose link leads to the report of its battle in table r, if that is still there.
Good(e, r, last, now) ==
  e.type # "error" /\ e.value # NoLink =>
    /\ e.value \in 1 .. last
    /\ e.value \in DOMAIN r => r[e.value].battle = e.battle /\ e.time <= r[e.value].time
    /\ e.value \notin DOMAIN r => now - e.time > Keep

\* An event that refers to a report of the round by its place.
Pending(e, reports, now) ==
  /\ e.type # "error" /\ e.time <= now
  /\ e.value # NoLink => e.value + 1 \in DOMAIN reports /\ reports[e.value + 1] = e.battle

Unnumbered == phase \in {"off", "idle", "play", "clearing"}

Links ==
  /\ \A i \in DOMAIN event : Good(event[i], report, lastReport, clock)
  /\ \A i \in DOMAIN events : Good(events[i], report, lastReport, clock)
  /\ Unnumbered => \A i \in DOMAIN tempEvents : Pending(tempEvents[i], tempReports, clock)
  /\ phase = "clearing" => DOMAIN event = {} /\ events = <<>> /\ rows = 0

\* The errors of the round are of scripts that failed, and are noted before it is published.
Blames ==
  /\ Blamed \subseteq failed
  /\ phase = "blamed" => Blamed \cap 1 .. rows \subseteq lastError

\* The battles of a round are rewarded before it is published.
Rewards ==
  phase \in {"credited", "pruned", "told", "blamed"} => published + Len(tempReports) <= experience

\* TypeOK in parts: the reports, the events, and all else.
ReportTypes ==
  /\ clock \in Nat /\ battles \in Nat /\ lastReport \in Nat
  /\ DOMAIN report \subseteq 1 .. lastReport
  /\ report \in [DOMAIN report -> [battle : 1 .. battles, time : 0 .. clock]]
  /\ tempReports \in Seq(1 .. battles)
EventTypes ==
  /\ lastEvent \in Nat /\ DOMAIN event \subseteq 1 .. lastEvent
  /\ event \in [DOMAIN event -> Event]
  /\ \A i \in DOMAIN event : event[i].type # "error" => event[i].value <= lastReport
  /\ events \in Seq(Event) /\ tempEvents \in Seq(Event)
OtherTypes ==
  /\ phase \in Phases
  /\ rows \in Nat /\ script \in [Player -> 0 .. rows] /\ lastError \subseteq 1 .. rows
  /\ loaded \in [Player -> 0 .. rows] /\ stopped \subseteq Player /\ reload \subseteq Player
  /\ failed \subseteq 0 .. rows
  /\ experience \in Nat /\ published \in Nat
  /\ aborts \in 0 .. MaxAbort /\ crashes \in 0 .. MaxCrash

IInv == TypeOK /\ Links /\ Blames /\ FaultTold /\ Rewards /\ ExperienceKept

-----------------------------------------------------------------------------
(* Types and sequences.                                                    *)

\* The types, by table.
LEMMA TypeParts == TypeOK <=> ReportTypes /\ EventTypes /\ OtherTypes
BY DEF TypeOK, ReportTypes, EventTypes, OtherTypes

\* The same after a step.
LEMMA TypePartsNext == ReportTypes' /\ EventTypes' /\ OtherTypes' => TypeOK'
BY DEF TypeOK, ReportTypes, EventTypes, OtherTypes

\* What is appended to a sequence stands behind it.
LEMMA Joined ==
  ASSUME NEW S, NEW s \in Seq(S), NEW n \in Nat, NEW t \in [1 .. n -> S]
  PROVE  /\ s \o t \in Seq(S) /\ Len(s \o t) = Len(s) + n
         /\ DOMAIN (s \o t) = 1 .. Len(s) + n
         /\ \A i \in DOMAIN (s \o t) :
              \/ i \in DOMAIN s /\ (s \o t)[i] = s[i]
              \/ i - Len(s) \in 1 .. n /\ (s \o t)[i] = t[i - Len(s)]
         /\ \A i \in DOMAIN s : i \in DOMAIN (s \o t) /\ (s \o t)[i] = s[i]
         /\ \A i \in 1 .. n : Len(s) + i \in DOMAIN (s \o t) /\ (s \o t)[Len(s) + i] = t[i]
  <1>1. t \in Seq(S)
    BY SeqDef
  <1>2. Len(t) = n
    BY <1>1, LenProperties
  <1>3. DOMAIN s = 1 .. Len(s) /\ Len(s) \in Nat
    BY LenProperties
  <1>4. s \o t \in Seq(S) /\ Len(s \o t) = Len(s) + n
    BY <1>1, <1>2, ConcatProperties
  <1>5. \A i \in 1 .. Len(s) + n : (s \o t)[i] = IF i <= Len(s) THEN s[i] ELSE t[i - Len(s)]
    BY <1>1, <1>2, ConcatProperties
  <1>6. DOMAIN (s \o t) = 1 .. Len(s) + n
    BY <1>4, LenProperties
  <1> QED
    BY <1>3, <1>4, <1>5, <1>6

\* SetToSeq lists each player of a set, and nobody else.
LEMMA Listing ==
  ASSUME NEW S \in SUBSET Player
  PROVE  /\ Cardinality(S) \in Nat
         /\ SetToSeq(S) \in [1 .. Cardinality(S) -> S]
         /\ \A p \in S : \E i \in 1 .. Cardinality(S) : SetToSeq(S)[i] = p
  <1> DEFINE n == Cardinality(S)
             f == SetToSeq(S)
  <1>1. IsFiniteSet(S)
    BY ChronicleAssumption, FS_Subset
  <1>2. n \in Nat /\ ExistsBijection(1 .. n, S)
    BY <1>1, FS_CardinalityType
  <1>3. \E g \in [1 .. n -> S] : IsInjective(g)
    BY <1>2 DEF ExistsBijection, Bijection, Injection
  <1>4. f \in [1 .. n -> S] /\ IsInjective(f)
    BY <1>3 DEF SetToSeq
  <1>5. f \in Injection(1 .. n, S)
    BY <1>4 DEF Injection
  <1>6. Cardinality(1 .. n) = Cardinality(S)
    BY <1>2, FS_Interval
  <1>7. f \in Surjection(1 .. n, S)
    <2> HIDE DEF f, n
    <2> QED
      BY <1>1, <1>5, <1>6, FS_Injection
  <1> QED
    BY <1>2, <1>4, <1>7 DEF Surjection

\* The rows that a list of events blames.
LEMMA BlamedIs ==
  \A row : row \in Blamed <=>
    \E i \in DOMAIN events : events[i].type = "error" /\ events[i].value = row
BY DEF Blamed

\* Who is blamed after a step, by the events after it.
LEMMA BlamedNext ==
  \A row : row \in Blamed' <=>
    \E i \in DOMAIN events' : events'[i].type = "error" /\ events'[i].value = row
BY DEF Blamed

-----------------------------------------------------------------------------
(* Links.                                                                  *)

\* Links are not beyond the last report.
LEMMA Bounded ==
  ASSUME NEW e \in Event, NEW r, NEW last \in Nat, NEW now, Good(e, r, last, now)
  PROVE  e.type # "error" => e.value <= last
BY DEF Good, Event, NoLink

\* Time does not spoil a link.
LEMMA Later ==
  ASSUME NEW e \in Event, NEW r, NEW last \in Nat, NEW now \in Nat, Good(e, r, last, now)
  PROVE  Good(e, r, last, now + 1)
BY ChronicleAssumption DEF Good, Event

\* Neither do reports that are added behind the others.
LEMMA Added ==
  ASSUME NEW e \in Event, NEW r, NEW s, NEW last \in Nat, NEW more \in Nat, NEW now,
         Good(e, r, last, now), DOMAIN r \subseteq 1 .. last,
         DOMAIN s = DOMAIN r \cup (last + 1 .. last + more),
         \A i \in DOMAIN r : s[i] = r[i]
  PROVE  Good(e, s, last + more, now)
BY DEF Good, Event

\* Neither do those that are deleted for their age.
LEMMA Aged ==
  ASSUME NEW e \in Event, NEW r, NEW last \in Nat, NEW now \in Nat, Good(e, r, last, now),
         NEW K \in SUBSET DOMAIN r,
         \A i \in DOMAIN r : r[i].time \in Nat,
         \A i \in DOMAIN r \ K : r[i].time < now - Keep
  PROVE  Good(e, Restrict(r, K), last, now)
BY ChronicleAssumption DEF Good, Event, Restrict

\* Errors carry no link.
LEMMA Error ==
  ASSUME TypeOK, NEW p \in Player, NEW row \in 0 .. rows, NEW r, NEW last, NEW now
  PROVE  CodeError(p, row) \in Event /\ Good(CodeError(p, row), r, last, now)
BY DEF CodeError, Event, Types, Good, TypeOK

\* An event gets the number that its report has been given.
LEMMA Stored ==
  ASSUME NEW e \in Event, NEW reports, NEW n \in Nat, DOMAIN reports = 1 .. n,
         NEW last \in Nat, NEW now \in Nat, NEW s, Pending(e, reports, now),
         \A i \in 1 .. n : last + i \in DOMAIN s /\ s[last + i] = [battle |-> reports[i], time |-> now],
         e.value # NoLink
  PROVE  /\ [e EXCEPT !.value = @ + (1 + (last + n) - n)] \in Event
         /\ Good([e EXCEPT !.value = @ + (1 + (last + n) - n)], s, last + n, now)
  <1> DEFINE k == e.value + 1
             d == [e EXCEPT !.value = @ + (1 + (last + n) - n)]
  <1>1. k \in 1 .. n /\ reports[k] = e.battle /\ e.time <= now
    BY DEF Pending
  <1>2. e.value \in Int /\ e.value + (1 + (last + n) - n) = last + k
    BY DEF Event
  <1>3. d = [e EXCEPT !.value = last + k] /\ last + k \in Int
    BY <1>2
  <1>4. d \in Event /\ d.value = last + k /\ d.battle = e.battle /\ d.time = e.time
    BY <1>3 DEF Event
  <1>5. last + k \in DOMAIN s /\ s[last + k] = [battle |-> reports[k], time |-> now]
    BY <1>1
  <1>6. s[last + k].battle = e.battle /\ e.time <= s[last + k].time
    BY <1>1, <1>5
  <1>7. last + k \in 1 .. last + n
    BY <1>1
  <1>8. Good(d, s, last + n, now)
    <2> HIDE DEF k, d
    <2> QED
      BY <1>4, <1>5, <1>6, <1>7 DEF Good
  <1> QED
    BY <1>4, <1>8

-----------------------------------------------------------------------------
(* Types and links, one lemma for each action that disturbs them.          *)

\* The empty tables satisfy the invariant.
LEMMA InitInv == Init => IInv
  <1> SUFFICES ASSUME Init
               PROVE  IInv
    OBVIOUS
  <1> USE ChronicleAssumption
  <1>1. TypeOK
    BY DEF Init, TypeOK, Empty, Phases, NoRow, Event
  <1>2. Links /\ Blames
    BY DEF Init, Links, Blames, Blamed, Empty
  <1>3. FaultTold /\ Rewards /\ ExperienceKept
    BY DEF Init, FaultTold, Rewards, ExperienceKept
  <1> QED
    BY <1>1, <1>2, <1>3 DEF IInv

\* registerCode appends the errors of the scripts that are not understood.
LEMMA Registered ==
  ASSUME TypeOK, NEW S \in SUBSET Player, NEW faulty \in SUBSET S, Register(S, faulty)
  PROVE  /\ loaded' \in [Player -> 0 .. rows] /\ stopped' \subseteq Player
         /\ failed' \subseteq 0 .. rows
         /\ events' \in Seq(Event)
         /\ \A i \in DOMAIN events' :
              \/ i \in DOMAIN events /\ events'[i] = events[i]
              \/ \E p \in faulty : events'[i] = CodeError(p, script[p])
         /\ \A i \in DOMAIN events : i \in DOMAIN events' /\ events'[i] = events[i]
         /\ \A p \in faulty : \E i \in DOMAIN events' : events'[i] = CodeError(p, script[p])
  <1> DEFINE n == Cardinality(faulty)
             order == SetToSeq(faulty)
             t == [i \in DOMAIN order |-> CodeError(order[i], script[order[i]])]
  <1>1. /\ n \in Nat /\ order \in [1 .. n -> faulty]
        /\ \A p \in faulty : \E i \in 1 .. n : order[i] = p
    BY Listing
  <1>2. \A p \in faulty : script[p] \in 0 .. rows /\ CodeError(p, script[p]) \in Event
    BY Error DEF TypeOK
  <1>3. t \in [1 .. n -> Event] /\ \A i \in 1 .. n : t[i] = CodeError(order[i], script[order[i]])
    BY <1>1, <1>2
  <1>4. events \in Seq(Event) /\ events' = events \o t
    BY DEF TypeOK, Register
  <1> HIDE DEF t, order, n
  <1>5. /\ events' \in Seq(Event)
        /\ \A i \in DOMAIN events' :
             \/ i \in DOMAIN events /\ events'[i] = events[i]
             \/ i - Len(events) \in 1 .. n /\ events'[i] = t[i - Len(events)]
        /\ \A i \in DOMAIN events : i \in DOMAIN events' /\ events'[i] = events[i]
        /\ \A i \in 1 .. n : Len(events) + i \in DOMAIN events' /\ events'[Len(events) + i] = t[i]
    BY <1>1, <1>3, <1>4, Joined
  <1>6. \A i \in DOMAIN events' :
          \/ i \in DOMAIN events /\ events'[i] = events[i]
          \/ \E p \in faulty : events'[i] = CodeError(p, script[p])
    <2> SUFFICES ASSUME NEW i \in DOMAIN events', i \notin DOMAIN events \/ events'[i] # events[i]
                 PROVE  \E p \in faulty : events'[i] = CodeError(p, script[p])
      OBVIOUS
    <2>1. i - Len(events) \in 1 .. n /\ events'[i] = t[i - Len(events)]
      BY <1>5
    <2>2. order[i - Len(events)] \in faulty
      BY <1>1, <2>1
    <2> QED
      BY <1>3, <2>1, <2>2
  <1>7. \A p \in faulty : \E i \in DOMAIN events' : events'[i] = CodeError(p, script[p])
    <2> SUFFICES ASSUME NEW p \in faulty
                 PROVE  \E i \in DOMAIN events' : events'[i] = CodeError(p, script[p])
      OBVIOUS
    <2>1. PICK k \in 1 .. n : order[k] = p
      BY <1>1
    <2>2. Len(events) + k \in DOMAIN events' /\ events'[Len(events) + k] = t[k]
      BY <1>5
    <2>3. t[k] = CodeError(p, script[p])
      BY <1>3, <2>1
    <2> QED
      BY <2>2, <2>3
  <1>8. /\ loaded' \in [Player -> 0 .. rows] /\ stopped' \subseteq Player
        /\ failed' \subseteq 0 .. rows
    BY <1>2 DEF TypeOK, Register
  <1> QED
    BY <1>5, <1>6, <1>7, <1>8

\* registerCode adds errors only, which carry no link.
LEMMA RegisterLinks ==
  ASSUME TypeOK, Links, NEW S \in SUBSET Player, NEW faulty \in SUBSET S, Register(S, faulty),
         phase' # "clearing", phase \in {"off", "idle"},
         UNCHANGED <<clock, tables, fightVars, script, rows, published, boundVars>>,
         phase' \in Phases, reload' \subseteq Player
  PROVE  TypeOK' /\ Links'
  <1>1. /\ loaded' \in [Player -> 0 .. rows] /\ stopped' \subseteq Player
        /\ failed' \subseteq 0 .. rows /\ events' \in Seq(Event)
        /\ \A i \in DOMAIN events' :
             \/ i \in DOMAIN events /\ events'[i] = events[i]
             \/ \E p \in faulty : events'[i] = CodeError(p, script[p])
    BY Registered
  <1>2. \A p \in faulty : Good(CodeError(p, script[p]), report, lastReport, clock)
    BY Error DEF TypeOK
  <1>3. \A i \in DOMAIN events' : Good(events'[i], report, lastReport, clock)
    BY <1>1, <1>2 DEF Links
  <1>4. Links'
    BY <1>3 DEF Links, tables, fightVars, Unnumbered
  <1>5. TypeOK'
    BY <1>1 DEF TypeOK, tables, fightVars, boundVars
  <1> QED
    BY <1>4, <1>5

\* The error of a script is an event without a link.
LEMMA FailLinks ==
  ASSUME TypeOK, Links, NEW p \in Player, Fail(p) \/ FailInFight(p)
  PROVE  TypeOK' /\ Links'
  <1>0. ReportError(p) /\ stopped' \subseteq Player
    BY DEF Fail, FailInFight, TypeOK
  <1>1. loaded[p] \in 0 .. rows
    BY DEF TypeOK
  <1>2. CodeError(p, loaded[p]) \in Event /\ Good(CodeError(p, loaded[p]), report, lastReport, clock)
    BY <1>1, Error
  <1>3. events \in Seq(Event) /\ events' = Append(events, CodeError(p, loaded[p]))
    BY <1>0 DEF TypeOK, ReportError
  <1>4. events' \in Seq(Event) /\ Len(events') = Len(events) + 1
        /\ DOMAIN events' = 1 .. Len(events) + 1
        /\ \A i \in DOMAIN events' : events'[i] = IF i <= Len(events) THEN events[i]
                                                  ELSE CodeError(p, loaded[p])
    BY <1>2, <1>3
  <1>5. Links'
    BY <1>0, <1>2, <1>3, <1>4 DEF Links, ReportError, tables, fightVars, Unnumbered
  <1>6. TypeOK'
    BY <1>0, <1>1, <1>4 DEF TypeOK, ReportError, tables, scriptVars, fightVars, boundVars
  <1> QED
    BY <1>5, <1>6

\* A battle appends events that refer to the place of its report.
LEMMA BattleLinks ==
  ASSUME TypeOK, Links, NEW fate \in Fates, Battle(fate)
  PROVE  TypeOK' /\ Links'
  <1> DEFINE S == DOMAIN fate
             n == Cardinality(S)
             order == SetToSeq(S)
             t == [i \in DOMAIN order |-> Linked(order[i], fate[order[i]])]
  <1>1. S \in SUBSET Player /\ fate \in [S -> {"lose", "win"}]
    BY DEF Fates
  <1>2. n \in Nat /\ order \in [1 .. n -> S]
    BY <1>1, Listing
  <1>3. tempReports \in Seq(1 .. battles) /\ battles \in Nat /\ clock \in Nat
    BY DEF TypeOK
  <1>4. /\ tempReports' = Append(tempReports, battles + 1) /\ battles' = battles + 1
        /\ phase = "play"
        /\ UNCHANGED <<clock, tables, scriptVars, phase, codeVars, events, published, boundVars>>
    BY DEF Battle
  <1>5. /\ tempReports' \in Seq(1 .. battles') /\ Len(tempReports') = Len(tempReports) + 1
        /\ tempReports'[Len(tempReports) + 1] = battles + 1
        /\ \A i \in DOMAIN tempReports : i \in DOMAIN tempReports' /\ tempReports'[i] = tempReports[i]
    <2>1. tempReports \in Seq(1 .. battles') /\ battles + 1 \in 1 .. battles'
      BY <1>3, <1>4, SeqMonotonic
    <2> QED
      BY <2>1, <1>4
  <1>6. \A p \in S : Linked(p, fate[p]) \in Event
                     /\ Pending(Linked(p, fate[p]), tempReports', clock)
    <2> SUFFICES ASSUME NEW p \in S
                 PROVE  Linked(p, fate[p]) \in Event /\ Pending(Linked(p, fate[p]), tempReports', clock)
      OBVIOUS
    <2>1. p \in Player /\ fate[p] \in {"lose", "win"} /\ Len(tempReports) \in Nat
      BY <1>1, <1>3
    <2>2. Linked(p, fate[p]) \in Event
      BY <2>1, <1>3 DEF Linked, Event, Types, NoLink
    <2>3. Len(tempReports) + 1 \in DOMAIN tempReports'
      BY <1>5, <2>1
    <2>4. Pending(Linked(p, fate[p]), tempReports', clock)
      BY <1>3, <1>5, <2>1, <2>3 DEF Linked, Pending, NoLink
    <2> QED
      BY <2>2, <2>4
  <1>7. t \in [1 .. n -> Event] /\ \A i \in 1 .. n : Pending(t[i], tempReports', clock)
    BY <1>2, <1>6
  <1>8. tempEvents \in Seq(Event) /\ tempEvents' = tempEvents \o t
    BY DEF TypeOK, Battle
  <1> HIDE DEF t, order, n
  <1>9. /\ tempEvents' \in Seq(Event)
        /\ \A i \in DOMAIN tempEvents' :
             \/ i \in DOMAIN tempEvents /\ tempEvents'[i] = tempEvents[i]
             \/ i - Len(tempEvents) \in 1 .. n /\ tempEvents'[i] = t[i - Len(tempEvents)]
    BY <1>2, <1>7, <1>8, Joined
  <1>10. \A i \in DOMAIN tempEvents : Pending(tempEvents[i], tempReports', clock)
    BY <1>4, <1>5 DEF Links, Pending, Unnumbered
  <1>11. \A i \in DOMAIN tempEvents' : Pending(tempEvents'[i], tempReports', clock)
    BY <1>7, <1>9, <1>10
  <1>12. Links'
    BY <1>4, <1>11 DEF Links, tables, Unnumbered
  <1>13. ReportTypes'
    <2>1. report \in [DOMAIN report -> [battle : 1 .. battles, time : 0 .. clock]]
      BY DEF TypeOK
    <2>2. 1 .. battles \subseteq 1 .. battles'
      BY <1>3, <1>4
    <2>3. report \in [DOMAIN report -> [battle : 1 .. battles', time : 0 .. clock]]
      BY <2>1, <2>2
    <2> QED
      BY <1>3, <1>4, <1>5, <2>3 DEF ReportTypes, TypeOK, tables
  <1>14. EventTypes' /\ OtherTypes'
    BY <1>4, <1>9, TypeParts
       DEF EventTypes, OtherTypes, tables, scriptVars, codeVars, boundVars
  <1>15. TypeOK'
    BY <1>13, <1>14, TypePartsNext
  <1> QED
    BY <1>12, <1>15

\* The reports are stored and the events are numbered.
LEMMA AddFightReportsLinks ==
  ASSUME TypeOK, Links, AddFightReports
  PROVE  TypeOK' /\ Links' /\ Blamed' = Blamed
  <1> DEFINE n == Len(tempReports)
             first == FirstReportID(lastReport')
             t == [i \in DOMAIN tempEvents |->
                     IF tempEvents[i].value = NoLink THEN tempEvents[i]
                     ELSE [tempEvents[i] EXCEPT !.value = @ + first]]
  <1>1. /\ n \in Nat /\ DOMAIN tempReports = 1 .. n /\ tempReports \in [1 .. n -> 1 .. battles]
        /\ lastReport \in Nat /\ lastReport' = lastReport + n
        /\ DOMAIN report \subseteq 1 .. lastReport /\ clock \in Nat /\ clock' = clock
        /\ battles \in Nat /\ battles' = battles
    BY LenProperties DEF TypeOK, AddFightReports, fightVars
  <1>2. /\ DOMAIN report' = DOMAIN report \cup (lastReport + 1 .. lastReport + n)
        /\ \A i \in DOMAIN report : report'[i] = report[i]
        /\ \A i \in 1 .. n : lastReport + i \in DOMAIN report'
             /\ report'[lastReport + i] = [battle |-> tempReports[i], time |-> clock]
    BY <1>1 DEF AddFightReports
  <1>3. first = 1 + (lastReport + n) - n
    BY <1>1 DEF FirstReportID
  <1>4. \A i \in DOMAIN tempEvents : tempEvents[i] \in Event
                                     /\ Pending(tempEvents[i], tempReports, clock)
    BY DEF TypeOK, Links, Unnumbered, AddFightReports
  <1>5. \A i \in DOMAIN tempEvents : t[i] \in Event /\ Good(t[i], report', lastReport', clock)
    <2> SUFFICES ASSUME NEW i \in DOMAIN tempEvents
                 PROVE  t[i] \in Event /\ Good(t[i], report', lastReport', clock)
      OBVIOUS
    <2> DEFINE e == tempEvents[i]
    <2>1. e \in Event /\ Pending(e, tempReports, clock)
      BY <1>4
    <2>2. CASE e.value = NoLink
      BY <2>1, <2>2 DEF Good
    <2>3. CASE e.value # NoLink
      <3>1. t[i] = [e EXCEPT !.value = @ + (1 + (lastReport + n) - n)]
        BY <1>3, <2>3
      <3>2. /\ [e EXCEPT !.value = @ + (1 + (lastReport + n) - n)] \in Event
            /\ Good([e EXCEPT !.value = @ + (1 + (lastReport + n) - n)], report',
                    lastReport + n, clock)
        <4> HIDE DEF t, e, n
        <4> QED
          BY <1>1, <1>2, <2>1, <2>3, Stored
      <3> HIDE DEF t, e, n
      <3> QED
        BY <1>1, <3>1, <3>2
    <2> QED
      BY <2>2, <2>3
  <1>5a. \A i \in DOMAIN tempEvents : t[i].type # "error"
    BY <1>4 DEF Event, Pending
  <1>6. events \in Seq(Event) /\ events' = events \o t
    BY DEF TypeOK, AddFightReports, Numbered
  <1>7. Len(tempEvents) \in Nat /\ DOMAIN tempEvents = 1 .. Len(tempEvents)
    BY LenProperties DEF TypeOK
  <1>8. t \in [1 .. Len(tempEvents) -> Event]
    BY <1>5, <1>7
  <1>9. \A i \in DOMAIN events : events[i] \in Event /\ Good(events[i], report, lastReport, clock)
    BY DEF TypeOK, Links
  <1>10. \A i \in DOMAIN events : Good(events[i], report', lastReport', clock)
    BY <1>1, <1>2, <1>9, Added
  <1>11. \A i \in DOMAIN event : event[i] \in Event /\ Good(event[i], report, lastReport, clock)
    BY DEF TypeOK, Links
  <1>12. \A i \in DOMAIN event : Good(event[i], report', lastReport', clock)
    BY <1>1, <1>2, <1>11, Added
  <1> HIDE DEF t
  <1>13. /\ events' \in Seq(Event)
         /\ \A i \in DOMAIN events' :
              \/ i \in DOMAIN events /\ events'[i] = events[i]
              \/ i - Len(events) \in 1 .. Len(tempEvents) /\ events'[i] = t[i - Len(events)]
    <2> DEFINE m == Len(tempEvents)
    <2>1. events \in Seq(Event) /\ m \in Nat /\ t \in [1 .. m -> Event]
      BY <1>6, <1>7, <1>8
    <2> HIDE DEF n, first, m
    <2>2. /\ events \o t \in Seq(Event)
          /\ \A i \in DOMAIN (events \o t) :
               \/ i \in DOMAIN events /\ (events \o t)[i] = events[i]
               \/ i - Len(events) \in 1 .. m /\ (events \o t)[i] = t[i - Len(events)]
      BY <2>1, Joined
    <2> QED
      BY <1>6, <2>2 DEF m
  <1>13a. Blamed' = Blamed
    <2>1. \A i \in DOMAIN events : i \in DOMAIN events' /\ events'[i] = events[i]
      <3> DEFINE m == Len(tempEvents)
      <3>1. events \in Seq(Event) /\ m \in Nat /\ t \in [1 .. m -> Event]
        BY <1>6, <1>7, <1>8
      <3> HIDE DEF n, first, m
      <3>2. \A i \in DOMAIN events : i \in DOMAIN (events \o t) /\ (events \o t)[i] = events[i]
        BY <3>1, Joined
      <3> QED
        BY <1>6, <3>2
    <2>2. \A i \in DOMAIN events' : events'[i].type = "error" =>
            i \in DOMAIN events /\ events'[i] = events[i]
      BY <1>7, <1>13, <1>5a
    <2> QED
      BY <2>1, <2>2, BlamedIs, BlamedNext
  <1>14. \A i \in DOMAIN events' : Good(events'[i], report', lastReport', clock)
    BY <1>5, <1>7, <1>10, <1>13
  <1>15. Links'
    BY <1>1, <1>12, <1>14 DEF Links, AddFightReports, Unnumbered
  <1>16. report' \in [DOMAIN report' -> [battle : 1 .. battles, time : 0 .. clock]]
         /\ DOMAIN report' \subseteq 1 .. lastReport'
    <2>1. report \in [DOMAIN report -> [battle : 1 .. battles, time : 0 .. clock]]
      BY DEF TypeOK
    <2>2. \A i \in DOMAIN report' \ DOMAIN report : i - lastReport \in 1 .. n
                                                  /\ i = lastReport + (i - lastReport)
      BY <1>1, <1>2
    <2>3. \A i \in DOMAIN report' \ DOMAIN report :
            report'[i] = [battle |-> tempReports[i - lastReport], time |-> clock]
      BY <1>2, <2>2
    <2>4. \A i \in DOMAIN report' : report'[i] \in [battle : 1 .. battles, time : 0 .. clock]
      <3> SUFFICES ASSUME NEW i \in DOMAIN report'
                   PROVE  report'[i] \in [battle : 1 .. battles, time : 0 .. clock]
        OBVIOUS
      <3>1. CASE i \in DOMAIN report
        BY <1>2, <2>1, <3>1
      <3>2. CASE i \notin DOMAIN report
        BY <1>1, <2>2, <2>3, <3>2
      <3> QED
        BY <3>1, <3>2
    <2>5. report' = [i \in DOMAIN report' |-> report'[i]]
      BY DEF AddFightReports
    <2> QED
      BY <1>1, <1>2, <2>4, <2>5
  <1>17. \A i \in DOMAIN event : event[i].type # "error" => event[i].value <= lastReport'
    BY <1>1, <1>11, <1>12, Bounded
  <1>18. TypeOK'
    <2>1. ReportTypes'
      BY <1>1, <1>16 DEF ReportTypes, AddFightReports, fightVars, TypeOK
    <2>2. EventTypes'
      BY <1>1, <1>13, <1>17, TypeParts DEF EventTypes, AddFightReports, fightVars
    <2>3. OtherTypes'
      BY TypeParts
         DEF OtherTypes, AddFightReports, scriptVars, codeVars, boundVars, Phases
    <2> QED
      BY <2>1, <2>2, <2>3, TypePartsNext
  <1> QED
    BY <1>15, <1>18, <1>13a

\* Reports go when their time has come, and events whenever they are too many.
LEMMA RemoveOldEventsLinks ==
  ASSUME TypeOK, Links, RemoveOldEvents
  PROVE  TypeOK' /\ Links'
  <1>1. /\ DOMAIN event' \subseteq DOMAIN event
        /\ event' = [i \in DOMAIN event' |-> event[i]]
    BY DEF RemoveOldEvents, KeepByType, KeepByPlayer, Restrict
  <1>2. /\ report' = Restrict(report, KeptReports) /\ KeptReports \subseteq DOMAIN report
        /\ \A i \in DOMAIN report \ KeptReports : report[i].time < clock - Keep
        /\ \A i \in DOMAIN report : report[i].time \in Nat
        /\ lastReport \in Nat /\ clock \in Nat
    <2>1. \A i \in DOMAIN report : report[i].time \in Nat
      BY TypeParts DEF ReportTypes
    <2>2. clock \in Nat /\ Keep \in Nat /\ lastReport \in Nat
      BY ChronicleAssumption DEF TypeOK
    <2> QED
      BY <2>1, <2>2 DEF RemoveOldEvents, KeptReports
  <1>3. \A e \in Event : Good(e, report, lastReport, clock) => Good(e, report', lastReport, clock)
    BY <1>2, Aged
  <1>4. /\ \A i \in DOMAIN event : event[i] \in Event
        /\ \A i \in DOMAIN events : events[i] \in Event
    BY DEF TypeOK
  <1>5. Links'
    BY <1>1, <1>3, <1>4 DEF Links, RemoveOldEvents, Unnumbered
  <1>6. report' \in [DOMAIN report' -> [battle : 1 .. battles, time : 0 .. clock]]
        /\ DOMAIN report' \subseteq DOMAIN report
    BY <1>2 DEF TypeOK, Restrict
  <1>7. event' \in [DOMAIN event' -> Event]
        /\ \A i \in DOMAIN event' : event'[i].type # "error" => event'[i].value <= lastReport
    BY <1>1, <1>4 DEF TypeOK
  <1>8. TypeOK'
    <2>1. ReportTypes'
      BY <1>2, <1>6, TypeParts DEF ReportTypes, RemoveOldEvents, fightVars
    <2>2. EventTypes'
      BY <1>1, <1>7, TypeParts DEF EventTypes, RemoveOldEvents, fightVars
    <2>3. OtherTypes'
      BY TypeParts
         DEF OtherTypes, RemoveOldEvents, scriptVars, codeVars, boundVars, Phases
    <2> QED
      BY <2>1, <2>2, <2>3, TypePartsNext
  <1> QED
    BY <1>5, <1>8

\* The events stored at the end of a round keep the links they were given.
LEMMA AddEventsLinks ==
  ASSUME TypeOK, Links, AddEvents
  PROVE  TypeOK' /\ Links'
  <1> DEFINE n == Len(events)
  <1>1. /\ n \in Nat /\ DOMAIN events = 1 .. n /\ lastEvent \in Nat
        /\ lastEvent' = lastEvent + n /\ DOMAIN event \subseteq 1 .. lastEvent
        /\ lastReport \in Nat
    BY LenProperties DEF TypeOK, AddEvents
  <1>2. /\ DOMAIN event' = DOMAIN event \cup (lastEvent + 1 .. lastEvent + n)
        /\ event' = [i \in DOMAIN event' |-> event'[i]]
        /\ \A i \in DOMAIN event : event'[i] = event[i]
        /\ \A i \in DOMAIN event' \ DOMAIN event :
             i - lastEvent \in DOMAIN events /\ event'[i] = events[i - lastEvent]
    BY <1>1 DEF AddEvents
  <1>3. /\ \A i \in DOMAIN event : event[i] \in Event /\ Good(event[i], report, lastReport, clock)
        /\ \A i \in DOMAIN events : events[i] \in Event /\ Good(events[i], report, lastReport, clock)
    BY DEF TypeOK, Links
  <1>4. \A i \in DOMAIN event' : event'[i] \in Event /\ Good(event'[i], report, lastReport, clock)
    BY <1>2, <1>3
  <1>5. Links'
    BY <1>3, <1>4 DEF Links, AddEvents, Unnumbered
  <1>6. \A i \in DOMAIN event' : event'[i].type # "error" => event'[i].value <= lastReport
    BY <1>1, <1>4, Bounded
  <1>7. event' \in [DOMAIN event' -> Event] /\ DOMAIN event' \subseteq 1 .. lastEvent'
    BY <1>1, <1>2, <1>4
  <1>8. TypeOK'
    <2>1. ReportTypes'
      BY TypeParts DEF ReportTypes, AddEvents, fightVars
    <2>2. EventTypes'
      <3>1. UNCHANGED <<lastReport, events, tempEvents>>
        BY DEF AddEvents, fightVars
      <3> QED
        BY <1>1, <1>6, <1>7, <3>1, TypeParts DEF EventTypes
    <2>3. OtherTypes'
      BY TypeParts
         DEF OtherTypes, AddEvents, scriptVars, codeVars, boundVars, Phases
    <2> QED
      BY <2>1, <2>2, <2>3, TypePartsNext
  <1> QED
    BY <1>5, <1>8

\* A round ends with nothing left in memory.
LEMMA EndRoundLinks ==
  ASSUME TypeOK, Links, EndRound, InRound, published' \in Nat,
         aborts' \in 0 .. MaxAbort, UNCHANGED crashes
  PROVE  TypeOK' /\ Links'
  <1>1. /\ phase' = "idle" /\ events' = <<>> /\ tempEvents' = <<>> /\ tempReports' = <<>>
        /\ UNCHANGED <<clock, tables, scriptVars, codeVars, battles>>
    BY DEF EndRound
  <1>2. Links'
    BY <1>1 DEF Links, tables
  <1>3. ReportTypes' /\ EventTypes'
    BY <1>1, TypeParts, EmptySeq DEF ReportTypes, EventTypes, tables
  <1>4. OtherTypes'
    BY <1>1, TypeParts DEF OtherTypes, tables, scriptVars, codeVars, Phases
  <1> QED
    BY <1>2, <1>3, <1>4, TypePartsNext

\* What a crash leaves in the tables is linked as before.
LEMMA CrashLinks ==
  ASSUME TypeOK, Links, Crash
  PROVE  TypeOK' /\ Links'
  <1>1. /\ phase' = "off" /\ events' = <<>> /\ tempEvents' = <<>> /\ tempReports' = <<>>
        /\ UNCHANGED <<clock, tables, script, rows, failed, battles, aborts>>
        /\ loaded' = [p \in Player |-> NoRow] /\ stopped' = {} /\ reload' = {}
        /\ published' \in 0 .. published /\ crashes' = crashes + 1 /\ crashes < MaxCrash
    BY DEF Crash, Forget
  <1>2. Links'
    BY <1>1 DEF Links, tables
  <1>3. ReportTypes' /\ EventTypes'
    BY <1>1, TypeParts, EmptySeq DEF ReportTypes, EventTypes, tables
  <1>4. OtherTypes'
    BY <1>1, TypeParts, ChronicleAssumption DEF OtherTypes, tables, Phases, NoRow
  <1> QED
    BY <1>2, <1>3, <1>4, TypePartsNext

\* The passing of time changes no link.
LEMMA TickLinks ==
  ASSUME TypeOK, Links, Tick
  PROVE  TypeOK' /\ Links'
  <1>1. /\ clock \in Nat /\ clock' = clock + 1 /\ lastReport \in Nat
        /\ UNCHANGED <<tables, scriptVars, phase, codeVars, events, fightVars, published, boundVars>>
    BY DEF Tick, TypeOK
  <1>2. /\ \A i \in DOMAIN event : event[i] \in Event
        /\ \A i \in DOMAIN events : events[i] \in Event
        /\ \A i \in DOMAIN tempEvents : tempEvents[i] \in Event
    BY DEF TypeOK
  <1>3. /\ \A i \in DOMAIN event : Good(event[i], report, lastReport, clock + 1)
        /\ \A i \in DOMAIN events : Good(events[i], report, lastReport, clock + 1)
    BY <1>1, <1>2, Later DEF Links
  <1>4. Unnumbered => \A i \in DOMAIN tempEvents : Pending(tempEvents[i], tempReports, clock + 1)
    BY <1>1, <1>2 DEF Links, Pending, Event
  <1>5. Links'
    BY <1>1, <1>3, <1>4 DEF Links, tables, scriptVars, fightVars, Unnumbered
  <1>6. ReportTypes'
    <2>1. report \in [DOMAIN report -> [battle : 1 .. battles, time : 0 .. clock]]
      BY DEF TypeOK
    <2>2. 0 .. clock \subseteq 0 .. clock + 1
      BY <1>1
    <2>3. report \in [DOMAIN report -> [battle : 1 .. battles, time : 0 .. clock + 1]]
      BY <2>1, <2>2
    <2> QED
      BY <1>1, <2>3, TypeParts DEF ReportTypes, tables, fightVars
  <1>7. EventTypes' /\ OtherTypes'
    BY <1>1, TypeParts
       DEF EventTypes, OtherTypes, tables, scriptVars, codeVars, fightVars, boundVars
  <1> QED
    BY <1>5, <1>6, <1>7, TypePartsNext

\* The two halves of clear(): while they are apart there is no event that a report could miss.
LEMMA ClearEventsLinks ==
  ASSUME TypeOK, Links, ClearEvents
  PROVE  TypeOK' /\ Links'
  <1>1. /\ phase = "idle" /\ phase' = "clearing" /\ DOMAIN event' = {} /\ lastEvent' = 0
        /\ event' = [i \in {} |-> 0]
        /\ script' = [p \in Player |-> NoRow] /\ rows' = 0 /\ lastError' = {}
        /\ loaded' = [p \in Player |-> NoRow] /\ stopped' = {} /\ failed' = {}
        /\ events' = <<>>
        /\ UNCHANGED <<clock, report, lastReport, experience, reload, fightVars, published,
                       boundVars>>
    BY DEF ClearEvents, Empty
  <1>2. Links'
    BY <1>1 DEF Links, Unnumbered, fightVars
  <1>3. ReportTypes'
    BY <1>1, TypeParts DEF ReportTypes, fightVars
  <1>4. EventTypes'
    BY <1>1, TypeParts, EmptySeq DEF EventTypes, fightVars
  <1>5. OtherTypes'
    BY <1>1, TypeParts DEF OtherTypes, Phases, NoRow, boundVars
  <1> QED
    BY <1>2, <1>3, <1>4, <1>5, TypePartsNext

\* The reports are cleared when no event is left, so that numbers may start again.
LEMMA ClearReportsLinks ==
  ASSUME TypeOK, Links, ClearReports
  PROVE  TypeOK' /\ Links'
  <1> DEFINE n == Cardinality(Player)
             order == SetToSeq(Player)
  <1>1. /\ phase = "clearing" /\ phase' = "off" /\ DOMAIN report' = {} /\ lastReport' = 0
        /\ report' = [i \in {} |-> 0]
        /\ experience' = 0 /\ published' = 0 /\ rows' = n
        /\ script' = [p \in Player |-> CHOOSE i \in DOMAIN order : order[i] = p]
        /\ UNCHANGED <<clock, event, lastEvent, lastError, codeVars, reload, events, fightVars,
                       boundVars>>
    BY DEF ClearReports, Empty
  <1>2. /\ n \in Nat /\ DOMAIN order = 1 .. n
        /\ \A p \in Player : \E i \in DOMAIN order : order[i] = p
    BY Listing
  <1>3. DOMAIN event = {} /\ events = <<>> /\ rows = 0
    BY <1>1 DEF Links
  <1>4. Links'
    BY <1>1, <1>3 DEF Links, Unnumbered, fightVars
  <1>5. ReportTypes'
    BY <1>1, TypeParts DEF ReportTypes, fightVars
  <1>6. EventTypes'
    BY <1>1, <1>3, TypeParts DEF EventTypes, fightVars
  <1> HIDE DEF n, order
  <1>7. script' \in [Player -> 0 .. n]
    BY <1>1, <1>2
  <1>8. OtherTypes'
    BY <1>1, <1>2, <1>3, <1>7, TypeParts DEF OtherTypes, Phases, codeVars, boundVars
  <1> QED
    BY <1>4, <1>5, <1>6, <1>8, TypePartsNext

\* The other steps: they do not touch events and reports.
LEMMA OtherLinks ==
  ASSUME TypeOK, Links, \/ UpdateXP \/ AddCodeErrors \/ (\E p \in Player : SetCode(p))
                        \/ UNCHANGED vars
  PROVE  TypeOK' /\ Links'
  <1>1. CASE UpdateXP
    <2>1. /\ phase' = "credited" /\ experience' = experience + Len(tempReports)
          /\ UNCHANGED <<clock, report, lastReport, event, lastEvent, lastError, scriptVars,
                         codeVars, events, fightVars, published, boundVars>>
      BY <1>1 DEF UpdateXP
    <2>2. Len(tempReports) \in Nat
      BY LenProperties DEF TypeOK
    <2>3. ReportTypes' /\ EventTypes'
      BY <2>1, TypeParts DEF ReportTypes, EventTypes, fightVars
    <2>4. OtherTypes'
      BY <2>1, <2>2, TypeParts DEF OtherTypes, scriptVars, codeVars, boundVars, Phases
    <2>5. Links'
      BY <2>1 DEF Links, Unnumbered
    <2> QED
      BY <2>3, <2>4, <2>5, TypePartsNext
  <1>2. CASE AddCodeErrors
    <2>1. /\ phase' = "blamed" /\ lastError' = lastError \cup (Blamed \cap 1 .. rows)
          /\ UNCHANGED <<clock, report, lastReport, event, lastEvent, experience, scriptVars,
                         codeVars, events, fightVars, published, boundVars>>
      BY <1>2 DEF AddCodeErrors
    <2>2. ReportTypes' /\ EventTypes'
      BY <2>1, TypeParts DEF ReportTypes, EventTypes, fightVars
    <2>3. OtherTypes'
      BY <2>1, TypeParts DEF OtherTypes, scriptVars, codeVars, boundVars, Phases
    <2>4. Links'
      BY <2>1 DEF Links, Unnumbered
    <2> QED
      BY <2>2, <2>3, <2>4, TypePartsNext
  <1>3. CASE \E p \in Player : SetCode(p)
    <2>1. PICK p \in Player : SetCode(p)
      BY <1>3
    <2>2. /\ phase \notin {"off", "clearing"} /\ rows' = rows + 1
          /\ script' = [script EXCEPT ![p] = rows'] /\ reload' = reload \cup {p}
          /\ UNCHANGED <<clock, tables, phase, codeVars, events, fightVars, published, boundVars>>
      BY <2>1 DEF SetCode
    <2>3. ReportTypes' /\ EventTypes'
      BY <2>2, TypeParts DEF ReportTypes, EventTypes, tables, fightVars
    <2>4. /\ rows \in Nat /\ script \in [Player -> 0 .. rows] /\ loaded \in [Player -> 0 .. rows]
          /\ lastError \subseteq 1 .. rows /\ failed \subseteq 0 .. rows
      BY DEF TypeOK
    <2>5. 0 .. rows \subseteq 0 .. rows' /\ 1 .. rows \subseteq 1 .. rows' /\ rows' \in 0 .. rows'
      BY <2>2, <2>4
    <2>6. script' \in [Player -> 0 .. rows'] /\ loaded \in [Player -> 0 .. rows']
      BY <2>2, <2>4, <2>5
    <2>7. lastError \subseteq 1 .. rows' /\ failed \subseteq 0 .. rows' /\ rows' \in Nat
      BY <2>2, <2>4, <2>5
    <2>8. OtherTypes'
      BY <2>2, <2>6, <2>7, TypeParts DEF OtherTypes, tables, codeVars, boundVars
    <2>9. Links'
      BY <2>2 DEF Links, Unnumbered, tables, fightVars
    <2> QED
      BY <2>3, <2>8, <2>9, TypePartsNext
  <1>4. CASE UNCHANGED vars
    <2>1. UNCHANGED <<clock, report, lastReport, event, lastEvent, script, rows, lastError,
                      experience, phase, loaded, stopped, reload, events, tempEvents,
                      tempReports, battles, published, failed, aborts, crashes>>
      BY <1>4 DEF vars, tables, scriptVars, codeVars, fightVars, boundVars
    <2>2. ReportTypes' /\ EventTypes' /\ OtherTypes'
      BY <2>1, TypeParts DEF ReportTypes, EventTypes, OtherTypes
    <2>3. Links'
      BY <2>1 DEF Links, Unnumbered
    <2> QED
      BY <2>2, <2>3, TypePartsNext
  <1> QED
    BY <1>1, <1>2, <1>3, <1>4

\* Every step keeps types and links.
LEMMA LinkStep == TypeOK /\ Links /\ [Next]_vars => TypeOK' /\ Links'
  <1> SUFFICES ASSUME TypeOK, Links, [Next]_vars
               PROVE  TypeOK' /\ Links'
    OBVIOUS
  <1>1. ASSUME Start PROVE TypeOK' /\ Links'
    <2>1. PICK faulty \in SUBSET Player : Register(Player, faulty)
      BY <1>1 DEF Start
    <2> QED
      BY <1>1, <2>1, RegisterLinks DEF Start, scriptVars, Phases, TypeOK
  <1>2. ASSUME Begin PROVE TypeOK' /\ Links'
    <2>1. PICK faulty \in SUBSET reload : Register(reload, faulty)
      BY <1>2 DEF Begin
    <2>2. reload \in SUBSET Player
      BY DEF TypeOK
    <2> QED
      BY <1>2, <2>1, <2>2, RegisterLinks DEF Begin, Phases
  <1>3. ASSUME Publish PROVE TypeOK' /\ Links'
    <2>1. Len(tempReports) \in Nat /\ published \in Nat /\ aborts \in 0 .. MaxAbort
      BY LenProperties DEF TypeOK
    <2> QED
      BY <1>3, <2>1, EndRoundLinks DEF Publish, InRound, boundVars
  <1>4. ASSUME Abort PROVE TypeOK' /\ Links'
    <2>1. published \in Nat /\ aborts \in 0 .. MaxAbort /\ MaxAbort \in Nat
      BY ChronicleAssumption DEF TypeOK
    <2>2. /\ aborts < MaxAbort /\ aborts' = aborts + 1 /\ InRound /\ EndRound
          /\ UNCHANGED <<published, crashes>>
      BY <1>4 DEF Abort
    <2>3. published' \in Nat /\ aborts' \in 0 .. MaxAbort
      BY <2>1, <2>2
    <2> QED
      BY <2>2, <2>3, EndRoundLinks
  <1> QED
    BY <1>1, <1>2, <1>3, <1>4, TickLinks, FailLinks, BattleLinks, AddFightReportsLinks,
       RemoveOldEventsLinks, AddEventsLinks, CrashLinks, ClearEventsLinks, ClearReportsLinks,
       OtherLinks
       DEF Next, RoundStep

-----------------------------------------------------------------------------
(* Errors.                                                                 *)

\* A row of a script that runs: what FaultTold promises of it.
Told(row) == row \in lastError \/ row \in Blamed

\* What FaultTold says, script by script.
LEMMA ToldIs ==
  FaultTold <=> /\ lastError \subseteq failed
                /\ aborts = 0 => \A p \in stopped : loaded[p] # NoRow => Told(loaded[p])
BY DEF FaultTold, Told, Blamed

\* The same after a step.
LEMMA ToldNext ==
  FaultTold' <=> /\ lastError' \subseteq failed'
                 /\ aborts' = 0 => \A p \in stopped' : loaded'[p] # NoRow => Told(loaded[p])'
BY DEF FaultTold, Told, Blamed

\* registerCode blames the script it has run.
LEMMA RegisterBlames ==
  ASSUME TypeOK, Blames, FaultTold, NEW S \in SUBSET Player, NEW faulty \in SUBSET S,
         Register(S, faulty), phase' # "blamed", UNCHANGED <<tables, boundVars>>
  PROVE  Blames' /\ FaultTold'
  <1>1. /\ \A i \in DOMAIN events' :
             \/ i \in DOMAIN events /\ events'[i] = events[i]
             \/ \E p \in faulty : events'[i] = CodeError(p, script[p])
        /\ \A i \in DOMAIN events : i \in DOMAIN events' /\ events'[i] = events[i]
        /\ \A p \in faulty : \E i \in DOMAIN events' : events'[i] = CodeError(p, script[p])
    BY Registered
  <1>2. \A p \in Player : CodeError(p, script[p]).type = "error"
                          /\ CodeError(p, script[p]).value = script[p]
    BY DEF CodeError
  <1>3. /\ loaded' = [p \in Player |-> IF p \in S THEN script[p] ELSE loaded[p]]
        /\ stopped' = (stopped \ S) \cup faulty
        /\ failed' = failed \cup {script[p] : p \in faulty}
        /\ lastError' = lastError /\ aborts' = aborts
    BY DEF Register, tables, boundVars
  <1>4. Blamed \subseteq Blamed'
    BY <1>1, BlamedIs, BlamedNext
  <1>5. Blamed' \subseteq Blamed \cup {script[p] : p \in faulty}
    BY <1>1, <1>2, BlamedIs, BlamedNext
  <1>6. \A p \in faulty : script[p] \in Blamed'
    BY <1>1, <1>2, BlamedNext
  <1>7. Blames'
    BY <1>3, <1>5 DEF Blames
  <1>8. FaultTold'
    <2>1. lastError' \subseteq failed'
      BY <1>3, ToldIs
    <2>2. ASSUME aborts' = 0, NEW p \in stopped', loaded'[p] # NoRow
          PROVE  Told(loaded[p])'
      <3>1. CASE p \in faulty
        BY <1>3, <1>6, <3>1 DEF Told
      <3>2. CASE p \notin faulty
        <4>1. p \in stopped /\ p \in Player /\ loaded'[p] = loaded[p]
          BY <1>3, <3>2 DEF TypeOK
        <4> QED
          BY <1>3, <1>4, <2>2, <4>1, ToldIs DEF Told
      <3> QED
        BY <3>1, <3>2
    <2> QED
      BY <2>1, <2>2, ToldNext
  <1> QED
    BY <1>7, <1>8

\* Every step keeps errors and scripts together.
LEMMA BlameStep ==
  TypeOK /\ Links /\ Blames /\ FaultTold /\ [Next]_vars => Blames' /\ FaultTold'
  <1> SUFFICES ASSUME TypeOK, Links, Blames, FaultTold, [Next]_vars
               PROVE  Blames' /\ FaultTold'
    OBVIOUS
  <1>1. CASE Start
    <2>1. PICK faulty \in SUBSET Player : Register(Player, faulty)
      BY <1>1 DEF Start
    <2> QED
      BY <1>1, <2>1, RegisterBlames DEF Start
  <1>2. CASE Begin
    <2>1. PICK faulty \in SUBSET reload : Register(reload, faulty)
      BY <1>2 DEF Begin
    <2>2. reload \in SUBSET Player
      BY DEF TypeOK
    <2> QED
      BY <1>2, <2>1, <2>2, RegisterBlames DEF Begin
  <1>3. CASE \E p \in Player : Fail(p) \/ FailInFight(p)
    <2>1. PICK p \in Player : Fail(p) \/ FailInFight(p)
      BY <1>3
    <2> DEFINE e == CodeError(p, loaded[p])
    <2>2. /\ phase = "play" /\ events' = Append(events, e) /\ stopped' \subseteq stopped \cup {p}
          /\ failed' = failed \cup {loaded[p]}
          /\ UNCHANGED <<clock, tables, scriptVars, phase, loaded, fightVars, published, boundVars>>
      BY <2>1 DEF Fail, FailInFight, ReportError
    <2>3. e.type = "error" /\ e.value = loaded[p]
      BY DEF CodeError
    <2>4. events \in Seq(Event) /\ DOMAIN events = 1 .. Len(events) /\ Len(events) \in Nat
      BY LenProperties DEF TypeOK
    <2> HIDE DEF e
    <2>5. /\ DOMAIN events' = 1 .. Len(events) + 1
          /\ \A i \in 1 .. Len(events) : events'[i] = events[i]
          /\ events'[Len(events) + 1] = e
      BY <2>2, <2>4
    <2>6. Blamed' = Blamed \cup {loaded[p]}
      <3>1. Blamed \subseteq Blamed'
        BY <2>4, <2>5, BlamedIs, BlamedNext
      <3>2. loaded[p] \in Blamed'
        BY <2>3, <2>4, <2>5, BlamedNext
      <3>3. \A i \in DOMAIN events' : \/ i \in DOMAIN events /\ events'[i] = events[i]
                                      \/ events'[i] = e
        BY <2>4, <2>5
      <3>4. Blamed' \subseteq Blamed \cup {loaded[p]}
        BY <2>3, <3>3, BlamedIs, BlamedNext
      <3> QED
        BY <3>1, <3>2, <3>4
    <2>7. Blames'
      BY <2>2, <2>6 DEF Blames
    <2>8. FaultTold'
      BY <2>2, <2>6, ToldIs, ToldNext DEF Told, tables, boundVars
    <2> QED
      BY <2>7, <2>8
  <1>4. CASE AddFightReports
    <2>1. /\ phase' = "reported" /\ Blamed' = Blamed
          /\ UNCHANGED <<lastError, codeVars, boundVars>>
      BY <1>4, AddFightReportsLinks DEF AddFightReports
    <2> QED
      BY <2>1, ToldIs, ToldNext DEF Blames, Told, codeVars, boundVars
  <1>5. CASE Tick \/ UpdateXP \/ RemoveOldEvents \/ AddEvents \/ (\E fate \in Fates : Battle(fate))
             \/ UNCHANGED vars
    <2>1. /\ UNCHANGED <<events, lastError, failed, stopped, loaded, aborts>>
          /\ phase' = "blamed" => phase = "blamed" /\ rows' = rows
      BY <1>5 DEF Tick, UpdateXP, RemoveOldEvents, AddEvents, Battle, vars, tables, scriptVars,
                  codeVars, boundVars
    <2>2. Blamed' = Blamed
      BY <2>1 DEF Blamed
    <2> QED
      BY <2>1, <2>2, ToldIs, ToldNext DEF Blames, Told
  <1>6. CASE \E p \in Player : SetCode(p)
    <2>1. /\ rows' = rows + 1 /\ UNCHANGED <<phase, events, lastError, failed, stopped, loaded, aborts>>
      BY <1>6 DEF SetCode, tables, codeVars, boundVars
    <2>2. Blamed' = Blamed
      BY <2>1 DEF Blamed
    <2>3. Blamed \subseteq 0 .. rows /\ rows \in Nat
      BY DEF Blames, TypeOK
    <2>4. Blamed \cap 1 .. rows' = Blamed \cap 1 .. rows
      BY <2>1, <2>3
    <2> QED
      BY <2>1, <2>2, <2>4, ToldIs, ToldNext DEF Blames, Told
  <1>7. CASE AddCodeErrors
    <2>1. /\ lastError' = lastError \cup (Blamed \cap 1 .. rows)
          /\ UNCHANGED <<events, rows, failed, stopped, loaded, aborts>>
      BY <1>7 DEF AddCodeErrors, scriptVars, codeVars, boundVars
    <2>2. Blamed' = Blamed
      BY <2>1 DEF Blamed
    <2> QED
      BY <2>1, <2>2, ToldIs, ToldNext DEF Blames, Told
  <1>8. CASE Publish
    <2>1. /\ phase = "blamed" /\ phase' = "idle" /\ events' = <<>>
          /\ UNCHANGED <<lastError, failed, stopped, loaded, aborts>>
      BY <1>8 DEF Publish, EndRound, tables, codeVars, boundVars
    <2>2. Blamed' = {}
      BY <2>1 DEF Blamed
    <2>3. \A p \in stopped : loaded[p] # NoRow /\ loaded[p] \in Blamed => loaded[p] \in lastError
      <3>1. stopped \subseteq Player /\ loaded \in [Player -> 0 .. rows] /\ rows \in Nat
        BY DEF TypeOK
      <3> QED
        BY <2>1, <3>1 DEF Blames, NoRow
    <2> QED
      BY <2>1, <2>2, <2>3, ToldIs, ToldNext DEF Blames, Told
  <1>9. CASE Abort
    <2>1. /\ aborts' # 0 /\ phase' = "idle" /\ events' = <<>> /\ UNCHANGED <<lastError, failed>>
      BY <1>9 DEF Abort, EndRound, tables, codeVars, TypeOK
    <2>2. Blamed' = {}
      BY <2>1 DEF Blamed
    <2> QED
      BY <2>1, <2>2, ToldIs, ToldNext DEF Blames
  <1>10. CASE Crash
    <2>1. /\ stopped' = {} /\ phase' = "off" /\ events' = <<>> /\ UNCHANGED <<lastError, failed>>
      BY <1>10 DEF Crash, Forget, tables
    <2>2. Blamed' = {}
      BY <2>1 DEF Blamed
    <2> QED
      BY <2>1, <2>2, ToldIs, ToldNext DEF Blames
  <1>11. CASE ClearEvents
    <2>1. /\ stopped' = {} /\ phase' = "clearing" /\ events' = <<>> /\ lastError' = {}
      BY <1>11 DEF ClearEvents
    <2>2. Blamed' = {}
      BY <2>1 DEF Blamed
    <2> QED
      BY <2>1, <2>2, ToldNext DEF Blames
  <1>12. CASE ClearReports
    <2>1. /\ phase' = "off" /\ UNCHANGED <<events, lastError, failed, stopped, loaded, aborts>>
      BY <1>12 DEF ClearReports, codeVars, boundVars
    <2>2. Blamed' = Blamed
      BY <2>1 DEF Blamed
    <2> QED
      BY <2>1, <2>2, ToldIs, ToldNext DEF Blames, Told
  <1> QED
    BY <1>1, <1>2, <1>3, <1>4, <1>5, <1>6, <1>7, <1>8, <1>9, <1>10, <1>11, <1>12
       DEF Next, RoundStep

-----------------------------------------------------------------------------
(* Experience.                                                             *)

\* Every step keeps battles and experience together.
LEMMA RewardStep ==
  TypeOK /\ Rewards /\ ExperienceKept /\ [Next]_vars => Rewards' /\ ExperienceKept'
  <1> SUFFICES ASSUME TypeOK, Rewards, ExperienceKept, [Next]_vars
               PROVE  Rewards' /\ ExperienceKept'
    OBVIOUS
  <1> DEFINE Late == {"credited", "pruned", "told", "blamed"}
  <1>1. /\ Len(tempReports) \in Nat /\ experience \in Nat /\ published \in Nat
        /\ aborts \in Nat /\ crashes \in Nat
    BY LenProperties DEF TypeOK
  <1>2. CASE /\ UNCHANGED <<experience, published, aborts, crashes>>
             /\ \/ phase \in Late /\ phase' \in Late /\ UNCHANGED tempReports
                \/ phase \notin Late /\ phase' \notin Late
    BY <1>2 DEF Rewards, ExperienceKept
  <1>3. CASE UpdateXP
    BY <1>1, <1>3 DEF UpdateXP, Rewards, ExperienceKept, fightVars, boundVars
  <1>4. CASE Publish
    BY <1>1, <1>4, EmptySeq DEF Publish, EndRound, Rewards, ExperienceKept, tables, boundVars
  <1>5. CASE Abort
    BY <1>1, <1>5 DEF Abort, EndRound, Rewards, ExperienceKept, tables
  <1>6. CASE Crash
    <2>1. /\ published' \in 0 .. published /\ experience' = experience /\ phase' = "off"
          /\ crashes' = crashes + 1
      BY <1>6 DEF Crash, Forget, tables
    <2>2. published' <= experience' /\ crashes' # 0
      BY <1>1, <2>1 DEF ExperienceKept
    <2> QED
      BY <2>1, <2>2 DEF Rewards, ExperienceKept
  <1>7. CASE ClearReports
    BY <1>1, <1>7 DEF ClearReports, Rewards, ExperienceKept, boundVars
  <1>8. CASE \/ Tick \/ Start \/ Begin \/ AddFightReports \/ RemoveOldEvents \/ AddEvents
             \/ AddCodeErrors \/ ClearEvents \/ UNCHANGED vars
             \/ \E p \in Player : SetCode(p) \/ Fail(p) \/ FailInFight(p)
             \/ \E fate \in Fates : Battle(fate)
    <2>1. UNCHANGED <<experience, published, aborts, crashes>>
      BY <1>8 DEF Tick, Start, Begin, AddFightReports, RemoveOldEvents, AddEvents, AddCodeErrors,
                  ClearEvents, SetCode, Fail, FailInFight, ReportError, Battle, vars, tables, boundVars
    <2>2. \/ phase \in Late /\ phase' \in Late /\ UNCHANGED tempReports
          \/ phase \notin Late /\ phase' \notin Late
      BY <1>8 DEF Tick, Start, Begin, AddFightReports, RemoveOldEvents, AddEvents, AddCodeErrors,
                  ClearEvents, SetCode, Fail, FailInFight, ReportError, Battle, vars, fightVars
    <2> QED
      BY <1>2, <2>1, <2>2
  <1> QED
    BY <1>3, <1>4, <1>5, <1>6, <1>7, <1>8 DEF Next, RoundStep

-----------------------------------------------------------------------------
(* The theorems.                                                           *)

\* The invariant holds in every behaviour of Chronicle, whatever its constants.
THEOREM ChronicleInductive == Spec => []IInv
  <1>1. IInv /\ [Next]_vars => IInv'
    BY LinkStep, BlameStep, RewardStep DEF IInv
  <1> QED
    BY InitInv, <1>1, PTL DEF Spec

\* Rows refer to reports, battles and scripts that there are (DataBase.cpp:557-665, 776-823).
THEOREM ChronicleTypes == Spec => []TypeOK
  <1>1. IInv => TypeOK
    BY DEF IInv
  <1> QED
    BY <1>1, ChronicleInductive, PTL

\* A link leads to the report of its battle, and to one that is there as long as reports are
\* kept, whatever rounds were given up in between (Simulation.cpp:986-1054,
\* DataBase.cpp:631-635, 776-802).
THEOREM LinksLead == Spec => []LinksRead
  <1>1. IInv => LinksRead
    <2> SUFFICES ASSUME TypeOK, Links, NEW i \in DOMAIN event,
                        event[i].type # "error", event[i].value # NoLink
                 PROVE  /\ event[i].value \in DOMAIN report =>
                             report[event[i].value].battle = event[i].battle
                        /\ clock - event[i].time <= Keep => event[i].value \in DOMAIN report
      BY DEF IInv, LinksRead
    <2>1. event[i] \in Event /\ clock \in Nat /\ Keep \in Nat
      BY ChronicleAssumption DEF TypeOK
    <2>2. Good(event[i], report, lastReport, clock)
      BY DEF Links
    <2> QED
      BY <2>1, <2>2 DEF Good, Event
  <1> QED
    BY <1>1, ChronicleInductive, PTL

\* Who is stopped is told why, at the script that failed and at no other
\* (fighting.h:32-49, Simulation.cpp:1496-1512, DataBase.cpp:917-931).
THEOREM FaultsTold == Spec => []FaultTold
  <1>1. IInv => FaultTold
    BY DEF IInv
  <1> QED
    BY <1>1, ChronicleInductive, PTL

\* No battle of a published round goes unrewarded, nor is it rewarded twice but for a round
\* given up or forgotten (Simulation.cpp:1057-1060, 1691-1707).
THEOREM ExperienceIsKept == Spec => []ExperienceKept
  <1>1. IInv => ExperienceKept
    BY DEF IInv
  <1> QED
    BY <1>1, ChronicleInductive, PTL

\* The number of those in Q that are not older than k.
Since(Q, k) == Cardinality({l \in Q : l >= k})

\* The older of two rows has as many behind it as the newer, or more.
LEMMA Fewer ==
  ASSUME NEW last \in Nat, NEW Q \in SUBSET (1 .. last),
         NEW i \in 1 .. last, NEW j \in 1 .. last, j <= i
  PROVE  Since(Q, i) \in Nat /\ Since(Q, j) \in Nat /\ Since(Q, i) <= Since(Q, j)
  <1> DEFINE A == {l \in Q : l >= i}
             B == {l \in Q : l >= j}
  <1>1. IsFiniteSet(1 .. last)
    BY FS_Interval
  <1>2. B \subseteq 1 .. last /\ A \subseteq B
    <2>1. \A l \in Q : l \in 1 .. last /\ (l >= i => l >= j)
      OBVIOUS
    <2> QED
      BY <2>1
  <1>3. IsFiniteSet(B)
    BY <1>1, <1>2, FS_Subset
  <1>4. IsFiniteSet(A) /\ Cardinality(A) <= Cardinality(B)
    BY <1>2, <1>3, FS_Subset
  <1> QED
    BY <1>3, <1>4, FS_CardinalityType DEF Since

\* What NewestKept says of a step.
LEMMA NewestStep ==
  ASSUME TypeOK, [Next]_vars
  PROVE  lastEvent' >= lastEvent =>
           \A i \in DOMAIN event \ DOMAIN event' : \A j \in DOMAIN event' :
              SamePlayer(event[i], event'[j]) /\ SameType(event[i], event'[j]) => i < j
  <1>1. lastEvent \in Nat /\ DOMAIN event \subseteq 1 .. lastEvent
    BY DEF TypeOK
  <1>2. CASE RemoveOldEvents
    <2> DEFINE first == KeepByPlayer(event)
               Alike(i) == {j \in DOMAIN event : SamePlayer(event[i], event[j])}
               Kind(i)  == {j \in DOMAIN first : SameType(first[i], first[j])}
    <2>1. /\ DOMAIN first = {i \in DOMAIN event : Since(Alike(i), i) <= EventLimit[event[i].player]}
          /\ \A i \in DOMAIN first : first[i] = event[i]
      <3>1. \A i \in DOMAIN event : {j \in Alike(i) : j >= i}
                                    = {j \in DOMAIN event : j >= i /\ SamePlayer(event[i], event[j])}
        OBVIOUS
      <3> QED
        BY <3>1 DEF KeepByPlayer, Restrict, Since
    <2>2. /\ DOMAIN event' = {i \in DOMAIN first : Since(Kind(i), i) <= TypeLimit}
          /\ \A i \in DOMAIN event' : event'[i] = first[i]
      <3>1. \A i \in DOMAIN first : {j \in Kind(i) : j >= i}
                                    = {j \in DOMAIN first : j >= i /\ SameType(first[i], first[j])}
        OBVIOUS
      <3> QED
        BY <1>2, <3>1 DEF RemoveOldEvents, KeepByType, Restrict, Since
    <2>3. \A i, j \in DOMAIN event : /\ Alike(j) \subseteq 1 .. lastEvent
                                     /\ event[i].player = event[j].player => Alike(i) = Alike(j)
      BY <1>1 DEF SamePlayer
    <2>4. \A i, j \in DOMAIN first : /\ Kind(j) \subseteq 1 .. lastEvent
                                     /\ event[i].type = event[j].type => Kind(i) = Kind(j)
      BY <1>1, <2>1 DEF SameType
    <2> HIDE DEF first, Alike, Kind
    <2>5. SUFFICES ASSUME NEW i \in DOMAIN event \ DOMAIN event', NEW j \in DOMAIN event',
                          SamePlayer(event[i], event'[j]), SameType(event[i], event'[j]),
                          ~ (i < j)
                   PROVE  FALSE
      OBVIOUS
    <2>6. /\ j \in DOMAIN first /\ j \in DOMAIN event /\ i \in DOMAIN event
          /\ event[i].player = event[j].player /\ event[i].type = event[j].type
      BY <2>1, <2>2, <2>5 DEF SamePlayer, SameType
    <2>7. i \in 1 .. lastEvent /\ j \in 1 .. lastEvent /\ j <= i
      BY <1>1, <2>5, <2>6
    <2>8. i \in DOMAIN first
      <3>1. Alike(i) = Alike(j) /\ Alike(j) \subseteq 1 .. lastEvent
        BY <2>3, <2>6
      <3>2. /\ Since(Alike(j), i) \in Nat /\ Since(Alike(j), j) \in Nat
            /\ Since(Alike(j), i) <= Since(Alike(j), j)
        BY <1>1, <2>7, <3>1, Fewer
      <3>3. Since(Alike(j), j) <= EventLimit[event[i].player]
        BY <2>1, <2>6
      <3>4. EventLimit[event[i].player] \in Nat
        BY <2>6, ChronicleAssumption DEF TypeOK, Event
      <3>5. Since(Alike(i), i) <= EventLimit[event[i].player]
        BY <3>1, <3>2, <3>3, <3>4
      <3> QED
        BY <2>1, <2>6, <3>5
    <2>9. i \in DOMAIN event'
      <3>1. Kind(i) = Kind(j) /\ Kind(j) \subseteq 1 .. lastEvent
        BY <2>4, <2>6, <2>8
      <3>2. /\ Since(Kind(j), i) \in Nat /\ Since(Kind(j), j) \in Nat
            /\ Since(Kind(j), i) <= Since(Kind(j), j)
        BY <1>1, <2>7, <3>1, Fewer
      <3>3. Since(Kind(j), j) <= TypeLimit /\ TypeLimit \in Nat
        BY <2>2, <2>5, ChronicleAssumption
      <3>4. Since(Kind(i), i) <= TypeLimit
        BY <3>1, <3>2, <3>3
      <3> QED
        BY <2>2, <2>8, <3>4
    <2> QED
      BY <2>5, <2>9
  <1>3. CASE AddEvents
    BY <1>1, <1>3 DEF AddEvents
  <1>4. CASE ClearEvents
    BY <1>1, <1>4 DEF ClearEvents
  <1>5. CASE UNCHANGED event
    BY <1>5
  <1>6. CASE \/ Tick \/ Start \/ Begin \/ AddFightReports \/ UpdateXP \/ AddCodeErrors \/ Publish
             \/ Abort \/ Crash \/ ClearReports \/ UNCHANGED vars
             \/ \E p \in Player : SetCode(p) \/ Fail(p) \/ FailInFight(p)
             \/ \E fate \in Fates : Battle(fate)
    BY <1>5, <1>6 DEF Tick, Start, Begin, AddFightReports, UpdateXP, AddCodeErrors, Publish, Abort,
                      EndRound, Crash, ClearReports, SetCode, Fail, FailInFight, ReportError, Battle,
                      vars, tables
  <1> QED
    BY <1>2, <1>3, <1>4, <1>6 DEF Next, RoundStep

\* Of two events of a player and a type the older is deleted first, however many are
\* (DataBase.cpp:602-640).
THEOREM NewestAreKept == Spec => NewestKept
  BY ChronicleTypes, NewestStep, PTL DEF Spec, NewestKept
=============================================================================
