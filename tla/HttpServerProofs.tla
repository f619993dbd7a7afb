--------------------------- MODULE HttpServerProofs ---------------------------
(***************************************************************************)
(* What the HTTP server guarantees for any clients and requests: what the  *)
(* loops of handleConnection read, what half a request may do, and which   *)
(* endpoint answers.                                                       *)
(***************************************************************************)
EXTENDS HttpServer, SequenceTheorems, WellFoundedInduction, TLAPS

Uses == {"reads", "asks", "needs", "can", "acts"}

Rows == {ApiRoutes[i] : i \in 1..19} \cup {DriverRoutes[i] : i \in 1..15}
            \cup {FileRoutes[i] : i \in 1..6}

\* The three tables, and how they lie in the one that dispatch searches.
LEMMA TablesTyped ==
    /\ ApiRoutes \in Seq(Rows) /\ Len(ApiRoutes) = 19
    /\ DriverRoutes \in Seq(Rows) /\ Len(DriverRoutes) = 15
    /\ FileRoutes \in Seq(Rows) /\ Len(FileRoutes) = 6
<1>1. /\ \A i \in 1..19 : ApiRoutes[i] \in Rows
      /\ \A i \in 1..15 : DriverRoutes[i] \in Rows
      /\ \A i \in 1..6 : FileRoutes[i] \in Rows
  BY DEF Rows
<1>2. ApiRoutes \in Seq(Rows) /\ Len(ApiRoutes) = 19
  BY <1>1 DEF ApiRoutes
<1>3. DriverRoutes \in Seq(Rows) /\ Len(DriverRoutes) = 15
  BY <1>1 DEF DriverRoutes
<1>4. FileRoutes \in Seq(Rows) /\ Len(FileRoutes) = 6
  BY <1>1 DEF FileRoutes
<1> QED
  BY <1>2, <1>3, <1>4

LEMMA RouteAt ==
    /\ Len(Routes) = 40
    /\ \A i \in 1..19 : Routes[i] = ApiRoutes[i]
    /\ \A i \in 20..34 : Routes[i] = DriverRoutes[i - 19]
    /\ \A i \in 35..40 : Routes[i] = FileRoutes[i - 34]
<1> DEFINE both == ApiRoutes \o DriverRoutes
           all == both \o FileRoutes
<1>1. /\ Len(both) = Len(ApiRoutes) + Len(DriverRoutes)
      /\ \A i \in 1..Len(ApiRoutes) + Len(DriverRoutes) :
             both[i] = IF i <= Len(ApiRoutes) THEN ApiRoutes[i]
                       ELSE DriverRoutes[i - Len(ApiRoutes)]
  BY ONLY TablesTyped, ConcatProperties
<1>2. both \in Seq(Rows) /\ FileRoutes \in Seq(Rows)
  BY ONLY TablesTyped, ConcatProperties
<1> HIDE DEF both
<1>3. /\ Len(all) = Len(both) + Len(FileRoutes)
      /\ \A i \in 1..Len(both) + Len(FileRoutes) :
             all[i] = IF i <= Len(both) THEN both[i] ELSE FileRoutes[i - Len(both)]
  BY ONLY <1>2, ConcatProperties
<1> HIDE DEF all
<1>4. Len(both) = 34 /\ Len(all) = 40 /\ Len(ApiRoutes) = 19
  BY ONLY <1>1, <1>3, TablesTyped
<1>5. Routes = all
  BY DEF Routes, both, all
<1>6. \A i \in 1..34 : both[i] = IF i <= 19 THEN ApiRoutes[i] ELSE DriverRoutes[i - 19]
  BY ONLY <1>1, <1>4
<1>7. \A i \in 1..40 : all[i] = IF i <= 34 THEN both[i] ELSE FileRoutes[i - 34]
  BY ONLY <1>3, <1>4
<1> QED
  BY <1>4, <1>5, <1>6, <1>7

\* Every route says one of five things of the body.
LEMMA RoutesTyped ==
    /\ Len(Routes) \in Nat
    /\ \A h \in 1..Len(Routes) : Routes[h].use \in Uses
<1>1. \A i \in 1..19 : ApiRoutes[i].use \in Uses
  BY DEF ApiRoutes, ReadRoute, Route, Uses
<1>2. \A i \in 1..15 : DriverRoutes[i].use \in Uses
  BY DEF DriverRoutes, ReadRoute, Route, Uses
<1>3. \A i \in 1..6 : FileRoutes[i].use \in Uses
  BY DEF FileRoutes, ReadRoute, Route, Uses
<1>4. ASSUME NEW h \in 1..40
      PROVE  Routes[h].use \in Uses
  <2>1. CASE h \in 1..19
    BY <1>1, <2>1, RouteAt
  <2>2. CASE h \in 20..34
    BY <1>2, <2>2, RouteAt
  <2>3. CASE h \in 35..40
    BY <1>3, <2>3, RouteAt
  <2> QED
    BY <2>1, <2>2, <2>3
<1> QED
  BY <1>4, RouteAt

\* The handler is the first of the routes that fit, or none.
LEMMA FirstFitting ==
    ASSUME NEW method, NEW path
    PROVE  LET I == {i \in 1..Len(Routes) :
                        Routes[i].method = method /\ MatchPath(Routes[i].pattern, path)}
           IN  IF I = {} THEN HandlerOf(method, path) = 0
               ELSE /\ HandlerOf(method, path) \in I
                    /\ \A i \in I : HandlerOf(method, path) <= i
<1> DEFINE I == {i \in 1..Len(Routes) :
                    Routes[i].method = method /\ MatchPath(Routes[i].pattern, path)}
<1>1. HandlerOf(method, path) = IF I # {} THEN Min(I) ELSE 0
  BY DEF HandlerOf, SelectInSeq
<1>2. Len(Routes) \in Nat
  BY RoutesTyped
<1>3. ASSUME I # {}
      PROVE  Min(I) \in I /\ \A i \in I : Min(I) <= i
  <2>1. I \subseteq Nat
    BY <1>2
  <2>2. \E x \in I : \A y \in I : <<y, x>> \notin OpToRel(<, Nat)
    BY <1>3, <2>1, NatLessThanWellFounded, WFMin
  <2>3. ASSUME NEW x \in Nat, NEW y \in Nat, <<y, x>> \notin OpToRel(<, Nat)
        PROVE  x <= y
    BY <2>3 DEF OpToRel
  <2> HIDE DEF I
  <2>4. \E x \in I : \A y \in I : x <= y
    BY <2>1, <2>2, <2>3
  <2> QED
    BY <2>4 DEF Min
<1> HIDE DEF I
<1>4. IF I = {} THEN HandlerOf(method, path) = 0
      ELSE HandlerOf(method, path) \in I /\ \A i \in I : HandlerOf(method, path) <= i
  BY <1>1, <1>3
<1> QED
  BY <1>4 DEF I

LEMMA HandlerInRange ==
    ASSUME NEW method, NEW path
    PROVE  HandlerOf(method, path) \in 0..Len(Routes)
BY FirstFitting, RoutesTyped

-----------------------------------------------------------------------------
(* The inductive invariant *)

Known(c) == asked[c] # NoRequest

OutcomeRecord ==
    [answer : {"none", "ok", "invalid", "failed", "notFound", "dropped"},
     effect : {"none", "own", "default", "partial"},
     handler : 0..Len(Routes), units : Nat]

Types ==
    /\ asked \in [Clients -> Requests \cup {NoRequest}]
    /\ sent \in [Clients -> Nat] /\ there \in [Clients -> BOOLEAN]
    /\ backlog \in Seq(Clients) /\ Len(backlog) <= Backlog
    /\ serving \in Clients \cup {Nobody} /\ got \in Nat /\ have \in Nat
    /\ phase \in {"accept", "head", "body", "handling", "closing"}
    /\ serving = Nobody <=> phase = "accept"
    /\ outcome \in [Clients -> OutcomeRecord]
    /\ inTime \subseteq Clients

\* What the two loops know of the request in hand.
Loops ==
    /\ phase = "head" => got < Header
    /\ phase = "body" => got = Header + have /\ have < asked[serving].body
    /\ phase = "handling" => got >= Header

\* Only who has asked waits, is served or has an outcome; nobody sends more than
\* a request; only what was sent is received.
Inv ==
    /\ Types
    /\ \A i \in 1..Len(backlog) : Known(backlog[i])
    /\ serving # Nobody => Known(serving) /\ got <= sent[serving]
    /\ Loops
    /\ \A c \in Clients :
           /\ Known(c) => sent[c] <= Whole(asked[c])
           /\ ~Known(c) => sent[c] = 0 /\ outcome[c] = Pending
           /\ outcome[c].units <= sent[c]
    /\ NothingIsMadeOfHalfABody

\* What a handler does with a body, parsed or not.
LEMMA HandledOK ==
    ASSUME NEW use \in Uses, NEW parsed \in BOOLEAN, NEW x \in Handled(use, parsed)
    PROVE  /\ x[1] \in {"ok", "invalid", "failed"}
           /\ x[2] \in {"none", "own", "default", "partial"}
           /\ ~parsed => x[2] = "none" \/ use = "acts" \/ (use = "can" /\ x[2] # "own")
<1>1. CASE use = "reads"
  <2>1. Handled(use, parsed) = {<<"ok", "none">>, <<"failed", "none">>}
    BY <1>1 DEF Handled
  <2> QED
    BY <2>1
<1>2. CASE use = "asks"
  <2>1. Handled(use, parsed) \subseteq {<<"ok", "none">>, <<"invalid", "none">>}
    BY <1>2 DEF Handled
  <2> QED
    BY <2>1
<1>3. CASE use = "needs" /\ parsed
  <2>1. Handled(use, parsed) = {<<"ok", "own">>, <<"invalid", "partial">>}
    BY <1>3 DEF Handled
  <2> QED
    BY <2>1, <1>3
<1>4. CASE use = "needs" /\ ~parsed
  <2>1. Handled(use, parsed) = {<<"invalid", "none">>}
    BY <1>4 DEF Handled
  <2> QED
    BY <2>1
<1>5. CASE use = "can" /\ parsed
  <2>1. Handled(use, parsed) = {<<"ok", "own">>, <<"failed", "partial">>}
    BY <1>5 DEF Handled
  <2> QED
    BY <2>1, <1>5
<1>6. CASE use = "can" /\ ~parsed
  <2>1. Handled(use, parsed) = {<<"ok", "default">>, <<"failed", "partial">>}
    BY <1>6 DEF Handled
  <2> QED
    BY <2>1, <1>6
<1>7. CASE use = "acts"
  <2>1. Handled(use, parsed) = {<<"ok", "own">>, <<"failed", "none">>}
    BY <1>7 DEF Handled
  <2> QED
    BY <2>1, <1>7
<1> QED
  BY <1>1, <1>2, <1>3, <1>4, <1>5, <1>6, <1>7 DEF Uses

\* The effect of an outcome that owes nothing to half a body.
Harmless(o) ==
    \/ o.effect = "none"
    \/ /\ o.handler # 0
       /\ Routes[o.handler].use = "acts" \/ (Routes[o.handler].use = "can" /\ o.effect # "own")

\* What dispatch may answer to the first n units of a request, and what a cut
\* one may do.
LEMMA DispatchedOK ==
    ASSUME NEW r \in Requests, NEW n \in Nat, n >= Header, NEW o \in Dispatched(r, n)
    PROVE  /\ o \in OutcomeRecord /\ o.units = n /\ o.answer # "none"
           /\ n < Whole(r) => Harmless(o)
<1> DEFINE h == HandlerOf(r.method, r.path)
<1>1. h \in 0..Len(Routes) /\ Len(Routes) \in Nat
  BY HandlerInRange, RoutesTyped
<1>2. r.body \in Nat
  BY HttpAssumption DEF RequestType
<1>3. n < Whole(r) => r.body > 0 /\ ~Parses(r, n)
  BY <1>2 DEF Whole, Parses, Header
<1> HIDE DEF h
<1>4. CASE o = Outcome("ok", "none", 0, n) \/ o = Outcome("notFound", "none", 0, n)
  BY <1>1, <1>4 DEF Outcome, OutcomeRecord, Harmless
<1>5. CASE h # 0 /\ \E x \in Handled(Routes[h].use, Parses(r, n)) : o = Outcome(x[1], x[2], h, n)
  <2> PICK x \in Handled(Routes[h].use, Parses(r, n)) : o = Outcome(x[1], x[2], h, n)
    BY <1>5
  <2>1. Routes[h].use \in Uses
    BY <1>1, <1>5, RoutesTyped
  <2>2. /\ x[1] \in {"ok", "invalid", "failed"}
        /\ x[2] \in {"none", "own", "default", "partial"}
        /\ ~Parses(r, n) => x[2] = "none" \/ Routes[h].use = "acts"
                            \/ (Routes[h].use = "can" /\ x[2] # "own")
    <3>1. Parses(r, n) \in BOOLEAN
      BY DEF Parses
    <3> QED
      BY <2>1, <3>1, HandledOK
  <2>3. n < Whole(r) => Harmless(o)
    BY <1>3, <1>5, <2>2 DEF Outcome, Harmless
  <2> QED
    BY <1>1, <1>5, <2>2, <2>3 DEF Outcome, OutcomeRecord
<1> QED
  BY <1>4, <1>5 DEF Dispatched, h

-----------------------------------------------------------------------------
LEMMA InitInv == Init => Inv
<1> SUFFICES ASSUME Init
             PROVE  Inv
  OBVIOUS
<1>1. Pending \in OutcomeRecord /\ Pending.units = 0 /\ Pending.answer = "none"
  BY RoutesTyped DEF Pending, Outcome, OutcomeRecord
<1>2. Types
  BY <1>1, HttpAssumption DEF Init, Types
<1>3. NothingIsMadeOfHalfABody
  BY <1>1 DEF Init, NothingIsMadeOfHalfABody, Ended
<1> QED
  BY <1>1, <1>2, <1>3 DEF Init, Inv, Known, Loops

\* Steps that change neither what was asked nor an outcome, and only add to what
\* was sent, undo nothing that is known of the calls.
LEMMA CallsKept ==
    ASSUME Inv, UNCHANGED <<asked, outcome>>, sent' \in [Clients -> Nat],
           \A c \in Clients : /\ sent[c] <= sent'[c]
                              /\ Known(c) => sent'[c] <= Whole(asked[c])
                              /\ ~Known(c) => sent'[c] = 0
    PROVE  /\ \A c \in Clients :
                  /\ Known(c)' => sent'[c] <= Whole(asked[c])'
                  /\ ~Known(c)' => sent'[c] = 0 /\ outcome'[c] = Pending
                  /\ outcome'[c].units <= sent'[c]
           /\ NothingIsMadeOfHalfABody'
<1>1. \A c \in Clients : outcome[c].units \in Nat
  BY DEF Inv, Types, OutcomeRecord
<1> QED
  BY <1>1 DEF Inv, Types, Known, Whole, NothingIsMadeOfHalfABody, Ended, Cut, Used

LEMMA ConnectOK ==
    ASSUME Inv, NEW c \in Clients, Connect(c)
    PROVE  Inv'
<1> USE DEF Connect
<1> PICK r \in Requests : asked' = [asked EXCEPT ![c] = r]
  OBVIOUS
<1>1. Types'
  BY HttpAssumption DEF Inv, Types
<1>2. r # NoRequest /\ r.body \in Nat
  BY NobodyAssumption, HttpAssumption DEF RequestType
<1>3. ~Known(c) /\ sent[c] = 0 /\ outcome[c] = Pending
  BY DEF Inv, Known
<1>4. \A d \in Clients : Known(d)' <=> Known(d) \/ d = c
  BY <1>2 DEF Inv, Types, Known
<1>5. \A i \in 1..Len(backlog') : Known(backlog[i])'
  BY <1>4 DEF Inv, Types
<1>6. ASSUME NEW d \in Clients
      PROVE  /\ Known(d)' => sent'[d] <= Whole(asked[d])'
             /\ ~Known(d)' => sent'[d] = 0 /\ outcome'[d] = Pending
             /\ outcome'[d].units <= sent'[d]
  BY <1>2, <1>3, <1>4 DEF Inv, Types, Whole, Header, Known
<1>7. NothingIsMadeOfHalfABody'
  <2>1. ~Ended(c)'
    BY <1>3 DEF Ended, Pending, Outcome
  <2> QED
    BY <2>1 DEF Inv, Types, NothingIsMadeOfHalfABody, Ended, Cut, Used
<1>8. serving # Nobody => serving # c
  BY <1>3 DEF Inv
<1> QED
  BY <1>1, <1>4, <1>5, <1>6, <1>7, <1>8 DEF Inv, Types, Loops

LEMMA SendOK ==
    ASSUME Inv, NEW c \in Clients, Send(c)
    PROVE  Inv'
<1> USE DEF Send
<1> PICK n \in sent[c] + 1 .. Whole(asked[c]) :
        /\ sent' = [sent EXCEPT ![c] = n]
        /\ inTime' = IF n = Whole(asked[c]) /\ Awaited(c) THEN inTime \cup {c} ELSE inTime
  OBVIOUS
<1>1. Known(c)
  <2>1. CASE serving = c
    BY <2>1, NobodyAssumption DEF Inv
  <2>2. CASE c \in Range(backlog)
    <3>1. DOMAIN backlog = 1..Len(backlog)
      BY LenProperties DEF Inv, Types
    <3> QED
      BY <2>2, <3>1 DEF Inv, Range
  <2> QED
    BY <2>1, <2>2 DEF Connected
<1>2. asked[c] \in Requests /\ Whole(asked[c]) \in Nat
  BY <1>1, HttpAssumption DEF Inv, Types, Known, Whole, Header, RequestType
<1>3. n \in Nat /\ sent[c] <= n /\ n <= Whole(asked[c])
  BY <1>2 DEF Inv, Types
<1>4. /\ sent' \in [Clients -> Nat]
      /\ \A d \in Clients : /\ sent[d] <= sent'[d]
                            /\ Known(d) => sent'[d] <= Whole(asked[d])
                            /\ ~Known(d) => sent'[d] = 0
  BY <1>1, <1>3 DEF Inv, Types
<1>5. Types'
  BY <1>4 DEF Inv, Types
<1>6. serving # Nobody => got <= sent'[serving]
  BY <1>4 DEF Inv, Types
<1> QED
  BY <1>4, <1>5, <1>6, CallsKept DEF Inv, Known, Loops

LEMMA HangUpOK ==
    ASSUME Inv, NEW c \in Clients, HangUp(c)
    PROVE  Inv'
<1>1. Types'
  BY DEF HangUp, Inv, Types
<1> QED
  BY <1>1, CallsKept DEF HangUp, Inv, Types, Known, Loops

LEMMA AcceptOK ==
    ASSUME Inv, Accept
    PROVE  Inv'
<1> USE DEF Accept, callVars
<1>1. /\ Head(backlog) = backlog[1] /\ Head(backlog) \in Clients
      /\ Tail(backlog) \in Seq(Clients) /\ Len(Tail(backlog)) = Len(backlog) - 1
      /\ \A i \in 1..Len(Tail(backlog)) : Tail(backlog)[i] = backlog[i + 1]
      /\ Len(backlog) \in Nat \ {0}
  BY HeadTailProperties, LenProperties DEF Inv, Types
<1>2. Types'
  BY <1>1, NobodyAssumption, HttpAssumption DEF Inv, Types
<1>3. \A i \in 1..Len(backlog') : Known(backlog[i])'
  BY <1>1 DEF Inv, Known
<1>4. Known(serving)' /\ got' <= sent'[serving']
  BY <1>1 DEF Inv, Types, Known
<1> QED
  BY <1>2, <1>3, <1>4, CallsKept DEF Inv, Types, Loops, Header

LEMMA RecvHeadOK ==
    ASSUME Inv, RecvHead
    PROVE  Inv'
<1> USE DEF RecvHead, callVars
<1>1. serving \in Clients /\ Known(serving) /\ sent[serving] \in Nat
  BY DEF Inv, Types
<1> PICK n \in got + 1 .. sent[serving] :
        /\ got' = n
        /\ IF n < Header THEN UNCHANGED <<have, phase>>
           ELSE have' = n - Header /\ phase' = BodyLoop(n - Header)
  OBVIOUS
<1>2. n \in Nat /\ n <= sent[serving]
  BY <1>1 DEF Inv, Types
<1>3. asked[serving].body \in Nat /\ Header = 2
  BY <1>1, HttpAssumption DEF Inv, Types, Known, RequestType, Header
<1>4. Loops' /\ have' \in Nat /\ phase' \in {"head", "body", "handling"}
  BY <1>2, <1>3 DEF Inv, Types, Loops, BodyLoop
<1>5. Types'
  BY <1>2, <1>4 DEF Inv, Types
<1> QED
  BY <1>2, <1>4, <1>5, CallsKept DEF Inv, Types, Known

LEMMA RecvBodyOK ==
    ASSUME Inv, RecvBody
    PROVE  Inv'
<1> USE DEF RecvBody, callVars
<1>1. serving \in Clients /\ Known(serving) /\ sent[serving] \in Nat
  BY DEF Inv, Types
<1> PICK n \in 1 .. sent[serving] - got :
        /\ n <= asked[serving].body - have
        /\ got' = got + n /\ have' = have + n /\ phase' = BodyLoop(have + n)
  OBVIOUS
<1>2. n \in Nat /\ got + n <= sent[serving]
  BY <1>1 DEF Inv, Types
<1>3. asked[serving].body \in Nat /\ Header = 2
  BY <1>1, HttpAssumption DEF Inv, Types, Known, RequestType, Header
<1>4. /\ Loops' /\ have' \in Nat /\ got' \in Nat
      /\ phase' \in {"body", "handling"}
  BY <1>2, <1>3 DEF Inv, Types, Loops, BodyLoop
<1>5. Types'
  BY <1>4 DEF Inv, Types
<1> QED
  BY <1>2, <1>4, <1>5, CallsKept DEF Inv, Types, Known

\* An outcome of the client that is served.
LEMMA OutcomeOK ==
    ASSUME Inv, serving # Nobody, NEW o \in OutcomeRecord, o.units <= sent[serving],
           o.units < Whole(asked[serving]) => Harmless(o),
           outcome' = [outcome EXCEPT ![serving] = o],
           UNCHANGED <<asked, sent>>
    PROVE  /\ outcome' \in [Clients -> OutcomeRecord]
           /\ \A c \in Clients :
                  /\ Known(c)' => sent'[c] <= Whole(asked[c])'
                  /\ ~Known(c)' => sent'[c] = 0 /\ outcome'[c] = Pending
                  /\ outcome'[c].units <= sent'[c]
           /\ NothingIsMadeOfHalfABody'
<1>1. serving \in Clients /\ Known(serving)
  BY DEF Inv, Types
<1>2. outcome' \in [Clients -> OutcomeRecord] /\ outcome'[serving] = o
  BY <1>1 DEF Inv, Types
<1>3. \A c \in Clients : c # serving => outcome'[c] = outcome[c]
  BY DEF Inv, Types
<1>4. \A c \in Clients :
          /\ Known(c)' => sent'[c] <= Whole(asked[c])'
          /\ ~Known(c)' => sent'[c] = 0 /\ outcome'[c] = Pending
          /\ outcome'[c].units <= sent'[c]
  BY <1>1, <1>2, <1>3 DEF Inv, Known, Whole
<1>5. ASSUME NEW c \in Clients, Ended(c)', Cut(c)'
      PROVE  \/ outcome'[c].effect = "none"
             \/ Used(c)' = "can" /\ outcome'[c].effect # "own"
             \/ Used(c)' = "acts"
  <2>1. CASE c = serving
    BY <2>1, <1>2, <1>5 DEF Cut, Whole, Used, Harmless
  <2>2. CASE c # serving
    BY <2>2, <1>3, <1>5 DEF Inv, NothingIsMadeOfHalfABody, Cut, Whole, Used, Ended
  <2> QED
    BY <2>1, <2>2
<1> QED
  BY <1>2, <1>4, <1>5 DEF NothingIsMadeOfHalfABody

LEMMA RecvEndsOK ==
    ASSUME Inv, RecvEnds
    PROVE  Inv'
<1> USE DEF RecvEnds
<1> DEFINE o == Outcome("dropped", "none", 0, got)
<1>1. serving # Nobody /\ got \in Nat /\ got <= sent[serving]
  BY DEF Inv, Types
<1>2. CASE phase = "head"
  <2>1. o \in OutcomeRecord /\ o.units = got /\ Harmless(o)
    BY <1>1, RoutesTyped DEF Outcome, OutcomeRecord, Harmless
  <2>2. outcome' = [outcome EXCEPT ![serving] = o] /\ phase' = "closing"
    BY <1>2
  <2> HIDE DEF o
  <2>3. /\ outcome' \in [Clients -> OutcomeRecord]
        /\ \A c \in Clients :
               /\ Known(c)' => sent'[c] <= Whole(asked[c])'
               /\ ~Known(c)' => sent'[c] = 0 /\ outcome'[c] = Pending
               /\ outcome'[c].units <= sent'[c]
        /\ NothingIsMadeOfHalfABody'
    BY <1>1, <2>1, <2>2, OutcomeOK DEF callVars
  <2> QED
    BY <1>1, <2>2, <2>3 DEF callVars, Inv, Types, Known, Loops
<1>3. CASE phase = "body"
  <2>1. phase' = "handling" /\ UNCHANGED outcome
    BY <1>3
  <2>2. Types'
    BY <2>1 DEF callVars, Inv, Types
  <2>3. got >= Header
    BY <1>3 DEF Inv, Types, Loops, Header
  <2> QED
    BY <1>1, <2>1, <2>2, <2>3, CallsKept DEF callVars, Inv, Types, Known, Loops
<1> QED
  BY <1>2, <1>3

LEMMA HandleOK ==
    ASSUME Inv, Handle
    PROVE  Inv'
<1> USE DEF Handle
<1> PICK o \in Dispatched(asked[serving], got) : outcome' = [outcome EXCEPT ![serving] = o]
  OBVIOUS
<1>1. /\ serving # Nobody /\ got \in Nat /\ got <= sent[serving] /\ got >= Header
      /\ asked[serving] \in Requests
  BY DEF Inv, Types, Known, Loops
<1>2. /\ o \in OutcomeRecord /\ o.units = got
      /\ got < Whole(asked[serving]) => Harmless(o)
  BY <1>1, DispatchedOK
<1>3. /\ outcome' \in [Clients -> OutcomeRecord]
      /\ \A c \in Clients :
             /\ Known(c)' => sent'[c] <= Whole(asked[c])'
             /\ ~Known(c)' => sent'[c] = 0 /\ outcome'[c] = Pending
             /\ outcome'[c].units <= sent'[c]
      /\ NothingIsMadeOfHalfABody'
  BY <1>1, <1>2, OutcomeOK DEF callVars
<1> QED
  BY <1>1, <1>3 DEF callVars, Inv, Types, Known, Loops

LEMMA CloseOK ==
    ASSUME Inv, Close
    PROVE  Inv'
<1> USE DEF Close
<1>1. Types'
  BY DEF callVars, Inv, Types
<1> QED
  BY <1>1, CallsKept DEF callVars, Inv, Types, Known, Loops

LEMMA StepInv == Inv /\ [Next]_vars => Inv'
<1> SUFFICES ASSUME Inv, [Next]_vars
             PROVE  Inv'
  OBVIOUS
<1>1. CASE ClientStep
  BY <1>1, ConnectOK, SendOK, HangUpOK DEF ClientStep
<1>2. CASE ServerStep
  BY <1>2, AcceptOK, RecvHeadOK, RecvBodyOK, RecvEndsOK, HandleOK, CloseOK DEF ServerStep
<1>3. CASE UNCHANGED vars
  <2>1. Types'
    BY <1>3 DEF vars, callVars, Inv, Types
  <2> QED
    BY <1>3, <2>1, CallsKept DEF vars, callVars, Inv, Types, Known, Loops
<1> QED
  BY <1>1, <1>2, <1>3 DEF Next

\* What is known between any two steps of the server and its clients.
THEOREM Invariant == Spec => []Inv
BY InitInv, StepInv, PTL DEF Spec

\* Every variable keeps its type, and what was received was sent.
THEOREM TypeCorrect == Spec => []HttpTypeOK
<1>1. Inv => HttpTypeOK
  BY RoutesTyped DEF Inv, Types, HttpTypeOK, OutcomeRecord
<1> QED
  BY <1>1, Invariant, PTL

\* Whatever the requests and wherever the clients stop, a request that was cut has
\* no effect or one that its body has no part in.
THEOREM CutIsHarmless == Spec => []NothingIsMadeOfHalfABody
<1>1. Inv => NothingIsMadeOfHalfABody
  BY DEF Inv
<1> QED
  BY <1>1, Invariant, PTL

-----------------------------------------------------------------------------
(* What the loops read *)

\* Nobody waits twice or while being served, and who waits or is served has no
\* outcome yet.
Queue ==
    /\ \A i \in 1..Len(backlog) :
           /\ backlog[i] # serving /\ ~Ended(backlog[i])
           /\ \A j \in 1..Len(backlog) : j # i => backlog[j] # backlog[i]
    /\ phase \in {"head", "body", "handling"} => ~Ended(serving)

\* What is in time is on the wire, and is received when it is handled.
Timely ==
    /\ Queue
    /\ \A c \in inTime : Known(c) /\ sent[c] = Whole(asked[c])
    /\ phase = "handling" /\ serving \in inTime => got = Whole(asked[serving])
    /\ SentInTimeIsReadWhole

LEMMA InitTimely == Init => Timely
BY DEF Init, Timely, Queue, SentInTimeIsReadWhole

\* Steps that change neither what was asked, sent or is in time nor an outcome.
LEMMA TimelyKept ==
    ASSUME Inv, Timely, UNCHANGED <<asked, sent, inTime, outcome>>
    PROVE  /\ \A c \in inTime' : Known(c)' /\ sent'[c] = Whole(asked[c])'
           /\ SentInTimeIsReadWhole'
           /\ \A c \in Clients : Ended(c)' <=> Ended(c)
BY DEF Timely, Known, Whole, SentInTimeIsReadWhole, Ended

LEMMA ConnectTimely ==
    ASSUME Inv, Timely, NEW c \in Clients, Connect(c)
    PROVE  Timely'
<1> USE DEF Connect
<1> PICK r \in Requests : asked' = [asked EXCEPT ![c] = r]
  OBVIOUS
<1>1. ~Known(c) /\ ~Ended(c) /\ c # serving
  BY NobodyAssumption DEF Inv, Known, Ended, Pending, Outcome
<1>2. \A i \in 1..Len(backlog) : backlog[i] # c
  BY <1>1 DEF Inv
<1>3. /\ Len(backlog') = Len(backlog) + 1 /\ Len(backlog) \in Nat
      /\ \A i \in 1..Len(backlog) : backlog'[i] = backlog[i]
      /\ backlog'[Len(backlog) + 1] = c
  BY DEF Inv, Types
<1>4. \A d : Ended(d)' <=> Ended(d)
  BY DEF Ended
<1>5. Queue'
  BY <1>1, <1>2, <1>3, <1>4 DEF Timely, Queue
<1>6. c \notin inTime
  BY <1>1 DEF Timely
<1>7. \A d \in Clients : d # c => asked'[d] = asked[d]
  BY DEF Inv, Types
<1>8. \A d \in inTime : Known(d)' /\ Whole(asked[d])' = Whole(asked[d])
  BY <1>6, <1>7 DEF Inv, Types, Timely, Known, Whole
<1> QED
  BY <1>1, <1>4, <1>5, <1>8 DEF Timely, SentInTimeIsReadWhole

LEMMA SendTimely ==
    ASSUME Inv, Timely, NEW c \in Clients, Send(c)
    PROVE  Timely'
<1> USE DEF Send
<1> PICK n \in sent[c] + 1 .. Whole(asked[c]) :
        /\ sent' = [sent EXCEPT ![c] = n]
        /\ inTime' = IF n = Whole(asked[c]) /\ Awaited(c) THEN inTime \cup {c} ELSE inTime
  OBVIOUS
<1>1. Known(c) /\ (Awaited(c) => ~Ended(c) /\ ~(serving = c /\ phase = "handling"))
  <2>1. CASE serving = c
    <3>1. \A i \in 1..Len(backlog) : backlog[i] # c
      BY <2>1 DEF Timely, Queue
    <3>2. c \notin Range(backlog)
      BY <3>1 DEF Inv, Types, Range
    <3> QED
      BY <2>1, <3>2, NobodyAssumption DEF Inv, Timely, Queue, Awaited
  <2>2. CASE serving # c
    <3>1. c \in Range(backlog)
      BY <2>2 DEF Connected
    <3>2. \E i \in 1..Len(backlog) : backlog[i] = c
      BY <3>1 DEF Inv, Types, Range
    <3> QED
      BY <2>2, <3>2 DEF Inv, Timely, Queue
  <2> QED
    BY <2>1, <2>2
<1>2. c \notin inTime
  <2>1. Whole(asked[c]) \in Nat /\ sent[c] \in Nat
    BY <1>1, HttpAssumption DEF Inv, Types, Known, Whole, Header, RequestType
  <2> QED
    BY <2>1 DEF Timely
<1>3. \A d \in inTime' : Known(d)' /\ sent'[d] = Whole(asked[d])'
  BY <1>1, <1>2 DEF Inv, Types, Timely, Known, Whole
<1>4. Queue'
  BY DEF Timely, Queue, Ended
<1>5. SentInTimeIsReadWhole'
  BY <1>1 DEF Timely, SentInTimeIsReadWhole, Ended, Whole
<1>6. (phase = "handling" /\ serving \in inTime => got = Whole(asked[serving]))'
  BY <1>1 DEF Timely, Whole
<1> QED
  BY <1>3, <1>4, <1>5, <1>6 DEF Timely

LEMMA AcceptTimely ==
    ASSUME Inv, Timely, Accept
    PROVE  Timely'
<1> USE DEF Accept, callVars
<1>1. /\ serving' = backlog[1] /\ Len(backlog') = Len(backlog) - 1
      /\ \A i \in 1..Len(backlog') : backlog'[i] = backlog[i + 1]
      /\ Len(backlog) \in Nat \ {0}
  BY HeadTailProperties, LenProperties DEF Inv, Types
<1>2. \A d : Ended(d)' <=> Ended(d)
  BY DEF Ended
<1>3. Queue'
  BY <1>1, <1>2 DEF Timely, Queue
<1> QED
  BY <1>3, TimelyKept DEF Timely

\* Neither loop ends before the whole of the request if all of it is there.
LEMMA RecvTimely ==
    ASSUME Inv, Timely, Inv', RecvHead \/ RecvBody
    PROVE  Timely'
<1> USE DEF RecvHead, RecvBody, callVars
<1>1. serving \in Clients /\ Known(serving) /\ sent[serving] \in Nat
  BY DEF Inv, Types
<1>2. asked[serving].body \in Nat /\ Header = 2
  BY <1>1, HttpAssumption DEF Inv, Types, Known, RequestType, Header
<1>3. Queue'
  <2>1. phase \in {"head", "body"} /\ UNCHANGED <<backlog, serving, outcome>>
    OBVIOUS
  <2> QED
    BY <2>1 DEF Timely, Queue, Ended
<1>4. phase' = "handling" => got' >= Whole(asked[serving])
  <2>1. CASE RecvHead
    <3> PICK n \in got + 1 .. sent[serving] :
            /\ got' = n
            /\ IF n < Header THEN UNCHANGED <<have, phase>>
               ELSE have' = n - Header /\ phase' = BodyLoop(n - Header)
      BY <2>1
    <3>1. n \in Nat /\ phase = "head"
      BY <1>1, <2>1 DEF Inv, Types
    <3> QED
      BY <1>2, <3>1 DEF BodyLoop, Whole
  <2>2. CASE RecvBody
    <3> PICK n \in 1 .. sent[serving] - got :
            got' = got + n /\ have' = have + n /\ phase' = BodyLoop(have + n)
      BY <2>2
    <3>1. n \in Nat /\ have \in Nat /\ got = Header + have
      BY <1>1, <2>2 DEF Inv, Types, Loops
    <3> QED
      BY <1>2, <3>1 DEF BodyLoop, Whole
  <2> QED
    BY <2>1, <2>2
<1>5. phase' = "handling" => got' = Whole(asked[serving])
  <2>1. got' \in Nat /\ got' <= sent[serving]
    BY <1>1, NobodyAssumption DEF Inv, Types
  <2>2. sent[serving] <= Whole(asked[serving]) /\ Whole(asked[serving]) \in Nat
    BY <1>1, <1>2 DEF Inv, Whole
  <2> QED
    BY <1>1, <1>4, <2>1, <2>2
<1> QED
  BY <1>3, <1>5, TimelyKept DEF Timely, Whole

LEMMA RecvEndsTimely ==
    ASSUME Inv, Timely, RecvEnds
    PROVE  Timely'
<1> USE DEF RecvEnds, callVars
<1>1. serving \in Clients /\ Known(serving) /\ sent[serving] \in Nat
  BY DEF Inv, Types
<1>2. asked[serving].body \in Nat /\ Header = 2
  BY <1>1, HttpAssumption DEF Inv, Types, Known, RequestType, Header
<1>3. got < Whole(asked[serving])
  BY <1>1, <1>2 DEF Inv, Types, Loops, Whole
<1>4. serving \notin inTime
  BY <1>1, <1>3 DEF Timely
<1>5. \A c \in Clients : c # serving => (Ended(c)' <=> Ended(c)) /\ outcome'[c] = outcome[c]
  BY DEF Inv, Types, Ended
<1>6. Queue'
  <2>1. \A i \in 1..Len(backlog) : backlog[i] \in Clients
    BY DEF Inv, Types
  <2>2. phase' \in {"head", "body", "handling"} => UNCHANGED outcome
    OBVIOUS
  <2> QED
    BY <1>5, <2>1, <2>2 DEF Timely, Queue, Ended
<1>7. SentInTimeIsReadWhole'
  BY <1>4, <1>5 DEF Inv, Types, Timely, SentInTimeIsReadWhole, Whole
<1> QED
  BY <1>4, <1>6, <1>7 DEF Timely, Known, Whole

LEMMA HandleTimely ==
    ASSUME Inv, Timely, Handle
    PROVE  Timely'
<1> USE DEF Handle, callVars
<1> PICK o \in Dispatched(asked[serving], got) : outcome' = [outcome EXCEPT ![serving] = o]
  OBVIOUS
<1>1. /\ serving \in Clients /\ got \in Nat /\ got >= Header
      /\ asked[serving] \in Requests
  BY DEF Inv, Types, Known, Loops
<1>2. o.units = got
  BY <1>1, DispatchedOK
<1>3. outcome'[serving] = o
  BY <1>1 DEF Inv, Types
<1>4. \A c \in Clients : c # serving => (Ended(c)' <=> Ended(c)) /\ outcome'[c] = outcome[c]
  BY DEF Inv, Types, Ended
<1>5. Queue'
  <2>1. \A i \in 1..Len(backlog) : backlog[i] \in Clients
    BY DEF Inv, Types
  <2> QED
    BY <1>4, <2>1 DEF Timely, Queue
<1>6. SentInTimeIsReadWhole'
  BY <1>2, <1>3, <1>4 DEF Inv, Types, Timely, SentInTimeIsReadWhole, Whole
<1> QED
  BY <1>5, <1>6 DEF Timely, Known, Whole

LEMMA StepTimely == Inv /\ Timely /\ Inv' /\ [Next]_vars => Timely'
<1> SUFFICES ASSUME Inv, Timely, Inv', [Next]_vars
             PROVE  Timely'
  OBVIOUS
<1>1. CASE ClientStep
  <2>1. ASSUME NEW c \in Clients, HangUp(c)
        PROVE  Timely'
    <3>1. Queue'
      BY <2>1 DEF HangUp, Timely, Queue, Ended
    <3> QED
      BY <2>1, <3>1, TimelyKept DEF HangUp, Timely, Whole
  <2> QED
    BY <1>1, <2>1, ConnectTimely, SendTimely DEF ClientStep
<1>2. CASE Close
  <2>1. \A i \in 1..Len(backlog) : backlog[i] # Nobody
    BY NobodyAssumption DEF Inv, Types
  <2>2. Queue'
    BY <1>2, <2>1 DEF Close, callVars, Timely, Queue, Ended
  <2> QED
    BY <1>2, <2>2, TimelyKept DEF Close, callVars, Timely
<1>3. CASE UNCHANGED vars
  <2>1. Queue'
    BY <1>3 DEF vars, Timely, Queue, Ended
  <2> QED
    BY <1>3, <2>1, TimelyKept DEF vars, callVars, Timely, Whole
<1> QED
  BY <1>1, <1>2, <1>3, AcceptTimely, RecvTimely, RecvEndsTimely, HandleTimely
  DEF Next, ServerStep

\* However a request is cut into pieces on its way, and wherever in it the header
\* loop stops: what was sent before the server gave up is handled whole.
THEOREM InTimeIsWhole == Spec => []SentInTimeIsReadWhole
<1>1. Inv /\ Timely /\ [Next]_vars => Timely'
  BY StepInv, StepTimely
<1>2. Timely => SentInTimeIsReadWhole
  BY DEF Timely
<1> QED
  BY <1>1, <1>2, InitTimely, Invariant, PTL DEF Spec

-----------------------------------------------------------------------------
(* Which route answers *)

\* The routes by method, length and the segments that tell them apart.
Get2(s) ==
    IF s = "health" THEN 1
    ELSE IF s = "dashboard" THEN 2
    ELSE IF s = "shipments" THEN 3
    ELSE IF s = "disruptions" THEN 5
    ELSE IF s = "routes" THEN 6
    ELSE IF s = "carriers" THEN 8
    ELSE IF s = "fleet" THEN 10
    ELSE IF s = "recommendations" THEN 18
    ELSE IF s = "drivers" THEN 20
    ELSE IF s = "driver-requests" THEN 23
    ELSE IF s = "dashboard.css" THEN 38
    ELSE IF s = "dashboard.js" THEN 39
    ELSE 40

Get3(s, t) ==
    IF s = "shipments" THEN 4
    ELSE IF s = "fleet" THEN IF t = "idle" THEN 11 ELSE 12
    ELSE IF s = "cold-chain" THEN IF t = "alerts" THEN 14 ELSE 15
    ELSE IF s = "drivers" THEN 21
    ELSE IF s = "driver-requests" THEN 25
    ELSE 28

Get4(s, t) ==
    IF s = "cold-chain" THEN 16
    ELSE IF s = "drivers" THEN 22
    ELSE IF s = "disruptions" THEN 34
    ELSE IF t = "timeline" THEN 30
    ELSE IF t = "location" THEN 31
    ELSE 32

Post3(s) ==
    IF s = "routes" THEN 7
    ELSE IF s = "carriers" THEN 9
    ELSE IF s = "fleet" THEN 13
    ELSE 19

Post4(s, t) ==
    IF s = "notifications" THEN 29
    ELSE IF s = "shipments" THEN 33
    ELSE IF t = "approve" THEN 26
    ELSE 27

\* The one route that a call can fit; the more literal one where there are two.
Slot(method, p) ==
    IF method = "GET" THEN
        IF Len(p) = 0 THEN 35
        ELSE IF Len(p) = 1 THEN IF p[1] = "index.html" THEN 36 ELSE 37
        ELSE IF Len(p) = 2 THEN Get2(p[2])
        ELSE IF Len(p) = 3 THEN Get3(p[2], p[3])
        ELSE Get4(p[2], p[4])
    ELSE
        IF Len(p) = 2 THEN IF p[2] = "simulation" THEN 17 ELSE 24
        ELSE IF Len(p) = 3 THEN Post3(p[2])
        ELSE Post4(p[2], p[4])

\* What a path has where a pattern that it fits has a literal segment.
LEMMA OneSegment ==
    ASSUME NEW a, NEW p \in Seq(STRING), MatchPath(<<a>>, p)
    PROVE  Len(p) = 1 /\ (a # ANY => p[1] = a)
<1>1. Len(p) = 1
  BY DEF MatchPath
<1>2. <<a>>[1] \in {ANY, p[1]}
  BY <1>1 DEF MatchPath
<1> QED
  BY <1>1, <1>2

LEMMA TwoSegments ==
    ASSUME NEW a, NEW b, NEW p \in Seq(STRING), MatchPath(<<a, b>>, p)
    PROVE  Len(p) = 2 /\ (b # ANY => p[2] = b)
<1>1. Len(p) = 2
  BY DEF MatchPath
<1>2. <<a, b>>[2] \in {ANY, p[2]}
  BY <1>1 DEF MatchPath
<1> QED
  BY <1>1, <1>2

LEMMA ThreeSegments ==
    ASSUME NEW a, NEW b, NEW c, NEW p \in Seq(STRING), MatchPath(<<a, b, c>>, p)
    PROVE  Len(p) = 3 /\ (b # ANY => p[2] = b) /\ (c # ANY => p[3] = c)
<1>1. Len(p) = 3
  BY DEF MatchPath
<1>2. <<a, b, c>>[2] \in {ANY, p[2]} /\ <<a, b, c>>[3] \in {ANY, p[3]}
  BY <1>1 DEF MatchPath
<1> QED
  BY <1>1, <1>2

LEMMA FourSegments ==
    ASSUME NEW a, NEW b, NEW c, NEW d, NEW p \in Seq(STRING), MatchPath(<<a, b, c, d>>, p)
    PROVE  Len(p) = 4 /\ (b # ANY => p[2] = b) /\ (d # ANY => p[4] = d)
<1>1. Len(p) = 4
  BY DEF MatchPath
<1>2. <<a, b, c, d>>[2] \in {ANY, p[2]} /\ <<a, b, c, d>>[4] \in {ANY, p[4]}
  BY <1>1 DEF MatchPath
<1> QED
  BY <1>1, <1>2

LEMMA NoSegment ==
    ASSUME NEW p \in Seq(STRING), MatchPath(<<>>, p)
    PROVE  Len(p) = 0
BY DEF MatchPath

\* The segments of the patterns are not the one in braces.
LEMMA Literal ==
    \A s \in {
        "health", "dashboard", "shipments", "affected", "disruptions",
        "routes", "recommend", "carriers", "fleet", "idle", "utilisation",
        "redeploy", "cold-chain", "alerts", "temperature", "simulation",
        "recommendations", "bob", "query", "drivers", "driver-requests",
        "approve", "reject", "notifications", "read", "timeline",
        "location", "route", "reroute", "verification", "index.html",
        "driver.html", "dashboard.css", "dashboard.js", "driver.js"} : s # ANY
BY DEF ANY

\* What the path is like of a call that fits a route of the first table, and the
\* method of the route; the same of the other two tables.
ApiCall(i, p) ==
    /\ i = 1 => Len(p) = 2 /\ p[2] = "health"
    /\ i = 2 => Len(p) = 2 /\ p[2] = "dashboard"
    /\ i = 3 => Len(p) = 2 /\ p[2] = "shipments"
    /\ i = 4 => Len(p) = 3 /\ p[2] = "shipments" /\ p[3] = "affected"
    /\ i = 5 => Len(p) = 2 /\ p[2] = "disruptions"
    /\ i = 6 => Len(p) = 2 /\ p[2] = "routes"
    /\ i = 7 => Len(p) = 3 /\ p[2] = "routes" /\ p[3] = "recommend"
    /\ i = 8 => Len(p) = 2 /\ p[2] = "carriers"
    /\ i = 9 => Len(p) = 3 /\ p[2] = "carriers" /\ p[3] = "recommend"
    /\ i = 10 => Len(p) = 2 /\ p[2] = "fleet"
    /\ i = 11 => Len(p) = 3 /\ p[2] = "fleet" /\ p[3] = "idle"
    /\ i = 12 => Len(p) = 3 /\ p[2] = "fleet" /\ p[3] = "utilisation"
    /\ i = 13 => Len(p) = 3 /\ p[2] = "fleet" /\ p[3] = "redeploy"
    /\ i = 14 => Len(p) = 3 /\ p[2] = "cold-chain" /\ p[3] = "alerts"
    /\ i = 15 => Len(p) = 3 /\ p[2] = "cold-chain"
    /\ i = 16 => Len(p) = 4 /\ p[2] = "cold-chain" /\ p[4] = "temperature"
    /\ i = 17 => Len(p) = 2 /\ p[2] = "simulation"
    /\ i = 18 => Len(p) = 2 /\ p[2] = "recommendations"
    /\ i = 19 => Len(p) = 3 /\ p[2] = "bob" /\ p[3] = "query"

LEMMA ApiSays ==
    ASSUME NEW p \in Seq(STRING), NEW i \in 1..19, MatchPath(ApiRoutes[i].pattern, p)
    PROVE  ApiCall(i, p)
BY NoSegment, OneSegment, TwoSegments, ThreeSegments, FourSegments, Literal, SMTT(30)
DEF ApiRoutes, ReadRoute, Route, ApiCall

LEMMA ApiMethods ==
    \A i \in 1..19 : ApiRoutes[i].method = IF i \in {7, 9, 13, 17, 19} THEN "POST" ELSE "GET"
BY DEF ApiRoutes, ReadRoute, Route

DriverCall(i, p) ==
    /\ i = 1 => Len(p) = 2 /\ p[2] = "drivers"
    /\ i = 2 => Len(p) = 3 /\ p[2] = "drivers"
    /\ i = 3 => Len(p) = 4 /\ p[2] = "drivers" /\ p[4] = "shipments"
    /\ i = 4 => Len(p) = 2 /\ p[2] = "driver-requests"
    /\ i = 5 => Len(p) = 2 /\ p[2] = "driver-requests"
    /\ i = 6 => Len(p) = 3 /\ p[2] = "driver-requests"
    /\ i = 7 => Len(p) = 4 /\ p[2] = "driver-requests" /\ p[4] = "approve"
    /\ i = 8 => Len(p) = 4 /\ p[2] = "driver-requests" /\ p[4] = "reject"
    /\ i = 9 => Len(p) = 3 /\ p[2] = "notifications"
    /\ i = 10 => Len(p) = 4 /\ p[2] = "notifications" /\ p[4] = "read"
    /\ i = 11 => Len(p) = 4 /\ p[2] = "shipments" /\ p[4] = "timeline"
    /\ i = 12 => Len(p) = 4 /\ p[2] = "shipments" /\ p[4] = "location"
    /\ i = 13 => Len(p) = 4 /\ p[2] = "shipments" /\ p[4] = "route"
    /\ i = 14 => Len(p) = 4 /\ p[2] = "shipments" /\ p[4] = "reroute"
    /\ i = 15 => Len(p) = 4 /\ p[2] = "disruptions" /\ p[4] = "verification"

LEMMA DriverSays ==
    ASSUME NEW p \in Seq(STRING), NEW i \in 1..15, MatchPath(DriverRoutes[i].pattern, p)
    PROVE  DriverCall(i, p)
BY NoSegment, OneSegment, TwoSegments, ThreeSegments, FourSegments, Literal, SMTT(30)
DEF DriverRoutes, ReadRoute, Route, DriverCall

LEMMA DriverMethods ==
    \A i \in 1..15 : DriverRoutes[i].method = IF i \in {5, 7, 8, 10, 14} THEN "POST" ELSE "GET"
BY DEF DriverRoutes, ReadRoute, Route

FileCall(i, p) ==
    /\ i = 1 => Len(p) = 0
    /\ i = 2 => Len(p) = 1 /\ p[1] = "index.html"
    /\ i = 3 => Len(p) = 1 /\ p[1] = "driver.html"
    /\ i = 4 => Len(p) = 2 /\ p[2] = "dashboard.css"
    /\ i = 5 => Len(p) = 2 /\ p[2] = "dashboard.js"
    /\ i = 6 => Len(p) = 2 /\ p[2] = "driver.js"

LEMMA FileSays ==
    ASSUME NEW p \in Seq(STRING), NEW i \in 1..6, MatchPath(FileRoutes[i].pattern, p)
    PROVE  FileCall(i, p)
BY NoSegment, OneSegment, TwoSegments, ThreeSegments, FourSegments, Literal, SMTT(30)
DEF FileRoutes, ReadRoute, Route, FileCall

LEMMA FileMethods ==
    \A i \in 1..6 : FileRoutes[i].method = "GET"
BY DEF FileRoutes, ReadRoute, Route

\* A call fits no other route than the one of its slot, except that the alerts
\* fit the pattern of a shipment's cold chain, too.
LEMMA ApiSlot ==
    ASSUME NEW p \in Seq(STRING), NEW i \in 1..19, ApiCall(i, p)
    PROVE  /\ i # 15 => Slot(ApiRoutes[i].method, p) = i
           /\ i = 15 => Slot(ApiRoutes[i].method, p) \in {14, 15}
<1>1. CASE i \in {1, 2, 3, 5, 6, 8, 10, 18}
  <2>1. ApiRoutes[i].method = "GET"
    BY <1>1, ApiMethods
  <2> QED
    BY <1>1, <2>1 DEF ApiCall, Slot, Get2
<1>2. CASE i \in {4, 11, 12, 14, 15}
  <2>1. ApiRoutes[i].method = "GET"
    BY <1>2, ApiMethods
  <2> QED
    BY <1>2, <2>1 DEF ApiCall, Slot, Get3
<1>3. CASE i \in {16}
  <2>1. ApiRoutes[i].method = "GET"
    BY <1>3, ApiMethods
  <2> QED
    BY <1>3, <2>1 DEF ApiCall, Slot, Get4
<1>4. CASE i \in {17}
  <2>1. ApiRoutes[i].method = "POST"
    BY <1>4, ApiMethods
  <2> QED
    BY <1>4, <2>1 DEF ApiCall, Slot
<1>5. CASE i \in {7, 9, 13, 19}
  <2>1. ApiRoutes[i].method = "POST"
    BY <1>5, ApiMethods
  <2> QED
    BY <1>5, <2>1 DEF ApiCall, Slot, Post3
<1> QED
  BY <1>1, <1>2, <1>3, <1>4, <1>5

LEMMA DriverSlot ==
    ASSUME NEW p \in Seq(STRING), NEW i \in 1..15, DriverCall(i, p)
    PROVE  Slot(DriverRoutes[i].method, p) = i + 19
<1>1. CASE i \in {1, 4}
  <2>1. DriverRoutes[i].method = "GET"
    BY <1>1, DriverMethods
  <2> QED
    BY <1>1, <2>1 DEF DriverCall, Slot, Get2
<1>2. CASE i \in {2, 6, 9}
  <2>1. DriverRoutes[i].method = "GET"
    BY <1>2, DriverMethods
  <2>2. /\ Len(p) = 3
        /\ i = 2 => p[2] = "drivers"
        /\ i = 6 => p[2] = "driver-requests"
        /\ i = 9 => p[2] = "notifications"
    BY <1>2 DEF DriverCall
  <2> QED
    BY <1>2, <2>1, <2>2 DEF Slot, Get3
<1>3. CASE i \in {3, 11, 12, 13, 15}
  <2>1. DriverRoutes[i].method = "GET"
    BY <1>3, DriverMethods
  <2> QED
    BY <1>3, <2>1 DEF DriverCall, Slot, Get4
<1>4. CASE i \in {5}
  <2>1. DriverRoutes[i].method = "POST"
    BY <1>4, DriverMethods
  <2> QED
    BY <1>4, <2>1 DEF DriverCall, Slot
<1>5. CASE i \in {7, 8, 10, 14}
  <2>1. DriverRoutes[i].method = "POST"
    BY <1>5, DriverMethods
  <2> QED
    BY <1>5, <2>1 DEF DriverCall, Slot, Post4
<1> QED
  BY <1>1, <1>2, <1>3, <1>4, <1>5

LEMMA FileSlot ==
    ASSUME NEW p \in Seq(STRING), NEW i \in 1..6, FileCall(i, p)
    PROVE  Slot(FileRoutes[i].method, p) = i + 34
<1>1. CASE i \in {1}
  <2>1. FileRoutes[i].method = "GET"
    BY <1>1, FileMethods
  <2> QED
    BY <1>1, <2>1 DEF FileCall, Slot
<1>2. CASE i \in {2, 3}
  <2>1. FileRoutes[i].method = "GET"
    BY <1>2, FileMethods
  <2> QED
    BY <1>2, <2>1 DEF FileCall, Slot
<1>3. CASE i \in {4, 5, 6}
  <2>1. FileRoutes[i].method = "GET"
    BY <1>3, FileMethods
  <2> QED
    BY <1>3, <2>1 DEF FileCall, Slot, Get2
<1> QED
  BY <1>1, <1>2, <1>3

LEMMA SlotOf ==
    ASSUME NEW p \in Seq(STRING), NEW i \in 1..40, MatchPath(Routes[i].pattern, p)
    PROVE  /\ i # 15 => Slot(Routes[i].method, p) = i
           /\ i = 15 => Slot(Routes[i].method, p) \in {14, 15}
<1>1. CASE i \in 1..19
  <2>1. Routes[i] = ApiRoutes[i]
    BY <1>1, RouteAt
  <2>2. ApiCall(i, p)
    BY <1>1, <2>1, ApiSays
  <2>3. /\ i # 15 => Slot(ApiRoutes[i].method, p) = i
        /\ i = 15 => Slot(ApiRoutes[i].method, p) \in {14, 15}
    BY <1>1, <2>2, ApiSlot
  <2> QED
    BY <2>1, <2>3
<1>2. CASE i \in 20..34
  <2>1. Routes[i] = DriverRoutes[i - 19]
    BY <1>2, RouteAt
  <2> PICK k \in 1..15 : k = i - 19
    BY <1>2
  <2>2. i = k + 19 /\ Routes[i] = DriverRoutes[k]
    BY <1>2, <2>1
  <2>3. DriverCall(k, p)
    BY <2>2, DriverSays
  <2>4. Slot(DriverRoutes[k].method, p) = k + 19
    BY <2>3, DriverSlot
  <2> QED
    BY <1>2, <2>2, <2>4
<1>3. CASE i \in 35..40
  <2>1. Routes[i] = FileRoutes[i - 34]
    BY <1>3, RouteAt
  <2> PICK k \in 1..6 : k = i - 34
    BY <1>3
  <2>2. i = k + 34 /\ Routes[i] = FileRoutes[k]
    BY <1>3, <2>1
  <2>3. FileCall(k, p)
    BY <2>2, FileSays
  <2>4. Slot(FileRoutes[k].method, p) = k + 34
    BY <2>3, FileSlot
  <2> QED
    BY <1>3, <2>2, <2>4
<1> QED
  BY <1>1, <1>2, <1>3

\* The pattern of the alerts does not cover the one of a shipment.
LEMMA AlertsAreLiteral == ~MatchPath(Routes[14].pattern, Routes[15].pattern)
<1>1. /\ Routes[14].pattern = <<"api", "cold-chain", "alerts">>
      /\ Routes[15].pattern = <<"api", "cold-chain", ANY>>
  <2>1. Routes[14] = ApiRoutes[14] /\ Routes[15] = ApiRoutes[15]
    BY RouteAt
  <2> QED
    BY <2>1 DEF ApiRoutes, ReadRoute, Route
<1>2. <<"api", "cold-chain", "alerts">>[3] \notin {ANY, <<"api", "cold-chain", ANY>>[3]}
  BY Literal
<1>3. 3 \in 1..Len(<<"api", "cold-chain", ANY>>)
  OBVIOUS
<1> QED
  BY <1>1, <1>2, <1>3 DEF MatchPath

\* The first route that fits a request is the most literal one.
LEMMA FirstIsMeant ==
    ASSUME NEW r \in Requests, r.method # "OPTIONS"
    PROVE  IF HandlerOf(r.method, r.path) = 0 THEN r.endpoint = Nowhere
           ELSE /\ Routes[HandlerOf(r.method, r.path)].pattern = r.endpoint
                /\ Routes[HandlerOf(r.method, r.path)].method = r.method
<1> DEFINE g == HandlerOf(r.method, r.path)
<1>1. IF Fitting(r) = {} THEN g = 0
      ELSE g \in Fitting(r) /\ \A i \in Fitting(r) : g <= i
  BY FirstFitting DEF Fitting
<1> HIDE DEF g
<1>2. r.path \in Seq(STRING)
  BY HttpAssumption DEF RequestType
<1>3. \A i \in Fitting(r) : /\ i \in 1..40 /\ Routes[i].method = r.method
                            /\ MatchPath(Routes[i].pattern, r.path)
  BY RouteAt DEF Fitting
<1>4. CASE Fitting(r) = {}
  BY <1>1, <1>4, EndpointAssumption DEF g
<1>5. CASE Fitting(r) # {}
  <2> PICK h \in Fitting(r) :
          /\ r.endpoint = Routes[h].pattern
          /\ \A k \in Fitting(r) : MatchPath(Routes[k].pattern, Routes[h].pattern)
    BY <1>5, EndpointAssumption
  <2>1. g \in Fitting(r) /\ g <= h
    BY <1>1, <1>5
  <2>2. g = h \/ (g = 14 /\ h = 15)
    <3>1. \A i \in Fitting(r) : /\ i # 15 => Slot(r.method, r.path) = i
                                /\ i = 15 => Slot(r.method, r.path) \in {14, 15}
      BY <1>2, <1>3, SlotOf
    <3> QED
      BY <1>3, <2>1, <3>1
  <2>3. g = h
    BY <2>1, <2>2, AlertsAreLiteral
  <2>4. g # 0
    BY <1>3, <2>1
  <2> QED
    BY <1>3, <2>1, <2>3, <2>4 DEF g
<1> QED
  BY <1>4, <1>5

\* What was answered, and not to a preflight, was answered by the first route
\* that fits.
RoutedFirst ==
    \A c \in Clients :
        Ended(c) /\ outcome[c].answer # "dropped" /\ asked[c].method # "OPTIONS"
            => outcome[c].handler = HandlerOf(asked[c].method, asked[c].path)

LEMMA InitRoutedFirst == Init => RoutedFirst
BY DEF Init, RoutedFirst, Ended, Pending, Outcome

LEMMA StepRoutedFirst == Inv /\ RoutedFirst /\ [Next]_vars => RoutedFirst'
<1> SUFFICES ASSUME Inv, RoutedFirst, [Next]_vars
             PROVE  RoutedFirst'
  OBVIOUS
<1>1. CASE UNCHANGED <<asked, outcome>>
  BY <1>1 DEF RoutedFirst, Ended
<1>2. ASSUME NEW c \in Clients, Connect(c)
      PROVE  RoutedFirst'
  <2>1. ~Ended(c)'
    BY <1>2 DEF Connect, Inv, Known, Ended, Pending, Outcome
  <2>2. \A d \in Clients : d # c => asked'[d] = asked[d] /\ outcome'[d] = outcome[d]
    BY <1>2 DEF Connect, Inv, Types
  <2> QED
    BY <2>1, <2>2 DEF RoutedFirst, Ended
<1>3. CASE RecvEnds /\ ~UNCHANGED outcome
  <2>1. serving \in Clients /\ outcome'[serving].answer = "dropped"
    BY <1>3 DEF RecvEnds, Inv, Types, Outcome
  <2>2. UNCHANGED asked /\ \A d \in Clients : d # serving => outcome'[d] = outcome[d]
    BY <1>3 DEF RecvEnds, callVars, Inv, Types
  <2> QED
    BY <2>1, <2>2 DEF RoutedFirst, Ended
<1>4. CASE Handle
  <2>1. serving \in Clients /\ UNCHANGED asked
    BY <1>4 DEF Handle, callVars, Inv, Types
  <2> PICK o \in Dispatched(asked[serving], got) : outcome' = [outcome EXCEPT ![serving] = o]
    BY <1>4 DEF Handle
  <2>2. asked[serving].method # "OPTIONS" =>
            o.handler = HandlerOf(asked[serving].method, asked[serving].path)
    BY DEF Dispatched, Outcome
  <2>3. outcome'[serving] = o /\ \A d \in Clients : d # serving => outcome'[d] = outcome[d]
    BY <2>1 DEF Inv, Types
  <2> QED
    BY <2>1, <2>2, <2>3 DEF RoutedFirst, Ended
<1> QED
  BY <1>1, <1>2, <1>3, <1>4
  DEF Next, ClientStep, ServerStep, Send, HangUp, Accept, RecvHead, RecvBody, RecvEnds, Close,
      vars, callVars

\* Every request that is answered is answered by the endpoint that its caller
\* means, for any requests: in the order of registration the first route that
\* fits a path is always the most literal one.
THEOREM Routed == Spec => []RoutedAsIntended
<1>1. Inv /\ RoutedFirst => RoutedAsIntended
  <2> SUFFICES ASSUME Inv, RoutedFirst, NEW c \in Clients, Ended(c),
                      outcome[c].answer # "dropped", asked[c].method # "OPTIONS"
               PROVE  IF outcome[c].handler = 0 THEN asked[c].endpoint = Nowhere
                      ELSE /\ Routes[outcome[c].handler].pattern = asked[c].endpoint
                           /\ Routes[outcome[c].handler].method = asked[c].method
    BY DEF RoutedAsIntended
  <2>1. Known(c)
    BY DEF Inv, Ended, Pending, Outcome
  <2>2. asked[c] \in Requests
    BY <2>1 DEF Inv, Types, Known
  <2>3. outcome[c].handler = HandlerOf(asked[c].method, asked[c].path)
    BY DEF RoutedFirst
  <2> QED
    BY <2>2, <2>3, FirstIsMeant
<1> QED
  BY <1>1, InitRoutedFirst, StepRoutedFirst, Invariant, PTL DEF Spec
=============================================================================
