---------------------------- MODULE SearchDbProofs ----------------------------
(* Proofs about SearchDb, for any number of requests and builds.             *)
EXTENDS SearchDb, TLAPS

-----------------------------------------------------------------------------
(* Type correctness.                                                         *)

Calls == {c \in [table : Tables, cached : BOOLEAN] : c.cached => c.table \in Cached}

\* A handler makes at least one call, and each is one of a table that exists.
LEMMA HandlerType ==
    ASSUME NEW p \in Pages
    PROVE  Handler(p) \in Seq(Calls) /\ Len(Handler(p)) \in Nat \ {0}
<1>1. \A t \in Tables : Call(t) \in Calls
  BY DEF Call, Calls
<1>2. \A t \in Cached : Directory(t) \in Calls
  BY DEF Directory, Calls, Cached, Tables
<1>3. CASE p = "search"
  BY <1>1, <1>3 DEF Handler, Tables
<1>4. CASE p = "thread"
  BY <1>1, <1>2, <1>4 DEF Handler, Tables, Cached
<1>5. CASE p = "channel"
  BY <1>1, <1>2, <1>5 DEF Handler, Tables, Cached
<1>6. CASE p = "home"
  BY <1>1, <1>2, <1>6 DEF Handler, Tables, Cached
<1>7. CASE p = "user"
  BY <1>1, <1>2, <1>7 DEF Handler, Tables, Cached
<1>8. QED
  BY <1>3, <1>4, <1>5, <1>6, <1>7 DEF Pages

\* The call a busy request has come to, and what it gets.
LEMMA CallType ==
    ASSUME TypeOK, NEW r \in Requests, busy[r]
    PROVE  NextCall(r) \in Calls /\ Value(NextCall(r)) \in Values
<1>1. page[r] \in Pages /\ got[r] \in Seq(Values) /\ Len(got[r]) < Len(Handler(page[r]))
  BY DEF TypeOK
<1>2. NextCall(r) \in Calls
  BY <1>1, HandlerType DEF NextCall
<1>3. QED
  BY <1>2 DEF Value, InCache, Calls, TypeOK

\* A new request, and a store call, keep the types.
LEMMA ReceiveType ==
    ASSUME TypeOK, NEW r \in Requests, NEW p \in Pages, NEW from \in 0..MaxBuilds,
           Receive(r, p, from)
    PROVE  TypeOK'
<1>1. got' = [got EXCEPT ![r] = <<>>] /\ <<>> \in Seq(Values) /\ Len(<<>>) = 0
  BY DEF Receive
<1>2. Len(Handler(p)) \in Nat \ {0}
  BY HandlerType
<1>3. ASSUME NEW q \in Requests
      PROVE  /\ Len(got'[q]) <= Len(Handler(page'[q]))
             /\ busy'[q] => Len(got'[q]) < Len(Handler(page'[q]))
             /\ reply'[q] = 200 => Len(got'[q]) = Len(Handler(page'[q]))
  <2>1. CASE q = r
    BY <1>1, <1>2, <2>1 DEF Receive, TypeOK
  <2>2. CASE q # r
    BY <2>2 DEF Receive, TypeOK
  <2>3. QED
    BY <2>1, <2>2
<1>4. got' \in [Requests -> Seq(Values)] /\ page' \in [Requests -> Pages]
      /\ busy' \in [Requests -> BOOLEAN] /\ reply' \in [Requests -> Answers]
  BY <1>1 DEF Receive, TypeOK, Answers
<1>5. fresh' \in [Requests -> 0..MaxBuilds] /\ hit' \in [Requests -> 0..MaxBuilds]
  <2>1. (IF Complete THEN gen ELSE 0) \in 0..MaxBuilds
    BY SearchDbAssumption DEF TypeOK
  <2>2. fresh' = [fresh EXCEPT ![r] = IF Complete THEN gen ELSE 0] /\ hit' = [hit EXCEPT ![r] = from]
    BY DEF Receive
  <2>3. QED
    BY <2>1, <2>2 DEF TypeOK
<1>6. QED
  BY <1>3, <1>4, <1>5 DEF Receive, TypeOK, dbVars

LEMMA StoreCallType ==
    ASSUME TypeOK, NEW r \in Requests, StoreCall(r)
    PROVE  TypeOK'
<1> DEFINE c == NextCall(r)
           v == Value(c)
<1>1. busy[r] /\ c \in Calls /\ v \in Values
  BY CallType DEF StoreCall
<1>2. got' = [got EXCEPT ![r] = Append(got[r], v)]
  BY DEF StoreCall
<1>3. cache' \in [Cached -> Values \cup {NotLoaded}]
  BY <1>1 DEF StoreCall, TypeOK, Calls
<1>4. /\ got[r] \in Seq(Values) /\ Len(got[r]) \in Nat
      /\ Len(Handler(page[r])) \in Nat
      /\ Len(got[r]) < Len(Handler(page[r]))
  BY <1>1, HandlerType DEF TypeOK
<1>5. Append(got[r], v) \in Seq(Values) /\ Len(Append(got[r], v)) = Len(got[r]) + 1
  BY <1>1, <1>4
<1>6. page' = page /\ UNCHANGED dbVars /\ fresh' = fresh /\ hit' = hit
      /\ reply' \in [Requests -> Answers] /\ busy' \in [Requests -> BOOLEAN]
  <2>1. Answer(r, 404) \/ Answer(r, 200) \/ UNCHANGED <<page, busy, reply, fresh, hit>>
    BY DEF StoreCall
  <2>2. UNCHANGED dbVars
    BY DEF StoreCall
  <2>3. page' = page /\ fresh' = fresh /\ hit' = hit
    BY <2>1 DEF Answer
  <2>4. reply' \in [Requests -> Answers]
    <3>1. reply \in [Requests -> Answers] /\ {200, 404} \subseteq Answers
      BY DEF Answers, TypeOK
    <3>2. reply' = reply \/ \E status \in {200, 404} : reply' = [reply EXCEPT ![r] = status]
      BY <2>1 DEF Answer
    <3>3. QED
      BY <3>1, <3>2
  <2>5. busy' \in [Requests -> BOOLEAN]
    BY <2>1 DEF Answer, TypeOK
  <2>6. QED
    BY <2>2, <2>3, <2>4, <2>5
<1>7. /\ busy'[r] => Len(got[r]) + 1 < Len(Handler(page[r]))
      /\ reply'[r] = 200 => Len(got[r]) + 1 = Len(Handler(page[r]))
  <2>1. reply[r] # 200
    BY <1>1, <1>4 DEF TypeOK
  <2>2. QED
    BY <2>1, <1>4 DEF StoreCall, Answer, TypeOK
<1>8. ASSUME NEW q \in Requests \ {r}
      PROVE  got'[q] = got[q] /\ busy'[q] = busy[q] /\ reply'[q] = reply[q]
  BY <1>2 DEF StoreCall, Answer, TypeOK
<1> HIDE DEF c, v
<1>9. ASSUME NEW q \in Requests
      PROVE  /\ got'[q] \in Seq(Values)
             /\ Len(got'[q]) <= Len(Handler(page[q]))
             /\ busy'[q] => Len(got'[q]) < Len(Handler(page[q]))
             /\ reply'[q] = 200 => Len(got'[q]) = Len(Handler(page[q]))
  <2>1. CASE q = r
    <3>1. got'[r] = Append(got[r], v)
      BY <1>2 DEF TypeOK
    <3>2. QED
      BY <2>1, <3>1, <1>4, <1>5, <1>7
  <2>2. CASE q # r
    BY <2>2, <1>8 DEF TypeOK
  <2>3. QED
    BY <2>1, <2>2
<1>10. got' \in [Requests -> Seq(Values)]
  BY <1>2, <1>5 DEF TypeOK
<1>11. QED
  BY <1>3, <1>6, <1>9, <1>10 DEF TypeOK, dbVars

LEMMA TypeStep == TypeOK /\ [Next]_vars => TypeOK'
<1> SUFFICES ASSUME TypeOK, [Next]_vars PROVE TypeOK'
  OBVIOUS
<1>1. CASE BeginBuild
  <2>1. gen' \in 0..MaxBuilds /\ gen' # 0 /\ stage' = 1 /\ schema' = 0
    BY <1>1, SearchDbAssumption DEF BeginBuild, TypeOK
  <2>2. rows' \in [Tables -> Values]
    BY <1>1 DEF BeginBuild, Values
  <2>3. UNCHANGED <<cache, page, busy, got, reply, fresh, hit>>
    BY <1>1 DEF BeginBuild, reqVars
  <2>4. \A r \in Requests :
           /\ Len(got'[r]) <= Len(Handler(page'[r]))
           /\ busy'[r] => Len(got'[r]) < Len(Handler(page'[r]))
           /\ reply'[r] = 200 => Len(got'[r]) = Len(Handler(page'[r]))
    BY <2>3 DEF TypeOK
  <2>5. /\ page' \in [Requests -> Pages] /\ busy' \in [Requests -> BOOLEAN]
        /\ got' \in [Requests -> Seq(Values)]
        /\ reply' \in [Requests -> Answers] /\ fresh' \in [Requests -> 0..MaxBuilds]
        /\ hit' \in [Requests -> 0..MaxBuilds]
        /\ cache' \in [Cached -> Values \cup {NotLoaded}]
    BY <2>3 DEF TypeOK
  <2>6. stage' \in 0..5 /\ (stage' # 0 => gen' # 0)
    BY <2>1
  <2>7. schema' \in 0..Len(Schema) /\ (stage' = 1 => schema' < Len(Schema))
    BY <2>1 DEF Schema
  <2>8. QED
    BY <2>1, <2>2, <2>4, <2>5, <2>6, <2>7 DEF TypeOK
<1>2. CASE CreateTable
  <2>1. schema' \in 0..Len(Schema) /\ stage' \in {1, 2} /\ gen' = gen /\ gen # 0
        /\ (stage' = 1 => schema' < Len(Schema))
    <3>1. schema \in 0..4 /\ stage = 1 /\ schema' = schema + 1 /\ Len(Schema) = 5
      BY <1>2 DEF CreateTable, TypeOK, Schema
    <3>2. QED
      BY <1>2, <3>1 DEF CreateTable, TypeOK
  <2>2. QED
    <3>1. UNCHANGED <<rows, cache, page, busy, got, reply, fresh, hit>>
      BY <1>2 DEF CreateTable, reqVars
    <3>2. stage' \in 0..5
      BY <2>1
    <3>3. QED
      BY <2>1, <3>1, <3>2 DEF TypeOK
<1>3. CASE Commit
  <2>1. gen \in 1..MaxBuilds
    BY <1>3, SearchDbAssumption DEF Commit, TypeOK
  <2>2. rows' \in [Tables -> Values]
    BY <1>3, <2>1 DEF Commit, TypeOK, Values
  <2>3. stage' \in 0..5 /\ stage' # 1
    <3>1. stage \in 2..5 /\ (stage' = stage + 1 \/ stage' = 0)
      BY <1>3 DEF Commit, TypeOK
    <3>2. stage = 5 => stage' = 0
      BY <1>3 DEF Commit, Transactions
    <3>3. QED
      BY <3>1, <3>2
  <2>4. UNCHANGED <<gen, schema, cache, page, busy, got, reply, fresh, hit>>
    BY <1>3 DEF Commit, reqVars
  <2>5. gen' # 0
    BY <2>1, <2>4
  <2>6. QED
    BY <2>2, <2>3, <2>4, <2>5 DEF TypeOK
<1>4. CASE BuildDies
  BY <1>4 DEF BuildDies, TypeOK, reqVars
<1>5. ASSUME NEW r \in Requests, Request(r) PROVE TypeOK'
  BY <1>5, ReceiveType, SearchDbAssumption DEF Request
<1>6. ASSUME NEW r \in Requests, FollowHit(r) PROVE TypeOK'
  <2>1. PICK g \in got[r][1] : Receive(r, "thread", g)
    BY <1>6 DEF FollowHit
  <2>2. Len(got[r]) \in Nat \ {0} /\ got[r] \in Seq(Values)
    BY <1>6, HandlerType DEF FollowHit, TypeOK
  <2>3. g \in 0..MaxBuilds
    BY <2>1, <2>2, SearchDbAssumption DEF Values
  <2>4. QED
    BY <2>1, <2>3, ReceiveType DEF Pages
<1>7. ASSUME NEW r \in Requests, NoTable(r) \/ Locked(r) PROVE TypeOK'
  <2>1. Answer(r, 500) /\ UNCHANGED <<got, dbVars, cache>> /\ 500 \in Answers
    BY <1>7 DEF NoTable, Locked, Answers
  <2>2. QED
    BY <2>1 DEF Answer, TypeOK, dbVars
<1>8. ASSUME NEW r \in Requests, StoreCall(r) PROVE TypeOK'
  BY <1>8, StoreCallType
<1>9. CASE Restart
  <2>1. \A r \in Requests : Len(Handler(page[r])) \in Nat \ {0}
    BY HandlerType DEF TypeOK
  <2>2. \A r \in Requests : got'[r] = <<>> /\ Len(got'[r]) = 0
    BY <1>9 DEF Restart
  <2>3. got' \in [Requests -> Seq(Values)] /\ reply' \in [Requests -> Answers]
        /\ busy' \in [Requests -> BOOLEAN] /\ cache' \in [Cached -> Values \cup {NotLoaded}]
    BY <1>9 DEF Restart, Answers
  <2>4. QED
    BY <1>9, <2>1, <2>2, <2>3 DEF Restart, TypeOK, dbVars
<1>10. CASE UNCHANGED vars
  BY <1>10 DEF vars, TypeOK
<1>11. QED
  BY <1>1, <1>2, <1>3, <1>4, <1>5, <1>6, <1>7, <1>8, <1>9, <1>10 DEF Next

LEMMA TypeInit == Init => TypeOK
<1> SUFFICES ASSUME Init PROVE TypeOK
  OBVIOUS
<1>1. "home" \in Pages /\ Len(Handler("home")) \in Nat \ {0}
  BY HandlerType DEF Pages
<1>2. /\ page \in [Requests -> Pages] /\ busy \in [Requests -> BOOLEAN]
      /\ got \in [Requests -> Seq(Values)] /\ reply \in [Requests -> Answers]
      /\ rows \in [Tables -> Values] /\ cache \in [Cached -> Values \cup {NotLoaded}]
  BY <1>1 DEF Init, Answers, Values
<1>3. \A r \in Requests :
         Len(got[r]) = 0 /\ Len(Handler(page[r])) \in Nat \ {0} /\ reply[r] # 200
  <2> TAKE r \in Requests
  <2>1. page[r] = "home" /\ got[r] = <<>> /\ reply[r] = 0
    BY DEF Init
  <2>2. Len(got[r]) = 0
    BY <2>1
  <2>3. Handler(page[r]) = Handler("home")
    BY <2>1
  <2>4. QED
    BY <1>1, <2>1, <2>2, <2>3
<1>4. fresh \in [Requests -> 0..MaxBuilds] /\ hit \in [Requests -> 0..MaxBuilds]
      /\ gen \in 0..MaxBuilds /\ stage = 0
  BY SearchDbAssumption DEF Init
<1>5. schema \in 0..Len(Schema)
  <2>1. schema = 0 /\ Len(Schema) = 5
    BY DEF Init, Schema
  <2>2. QED
    BY <2>1
<1>6. QED
  BY <1>2, <1>3, <1>4, <1>5 DEF TypeOK

\* Whatever builds and requests do: the variables hold values of their types,
\* and a page that is answered has made all its store calls.
THEOREM TypeCorrect == Spec => []TypeOK
  BY TypeInit, TypeStep, PTL DEF Spec

-----------------------------------------------------------------------------
(* What the tables hold.                                                     *)

\* The rows are those of the last build, and it writes message_raw before
\* messages, which it writes last.
Filled ==
    /\ \A t \in Tables : rows[t] \in {{}, {gen}}
    /\ \A t \in Tables : rows[t] # {} => schema = Len(Schema) /\ gen # 0 /\ stage # 1
    /\ stage > 1 => schema = Len(Schema)
    /\ stage > 2 => rows["message_raw"] # {}
    /\ rows["messages"] # {} => rows["message_raw"] # {} /\ stage = 0

\* A table with rows is there.
LEMMA RowsHaveTable ==
    ASSUME Filled, NEW t \in Tables, rows[t] # {}
    PROVE  HasTable(t)
  BY DEF Filled, HasTable, Schema, Tables

\* Every step keeps Filled; only the build changes the tables.
LEMMA FilledStep == TypeOK /\ Filled /\ [Next]_vars => Filled'
<1> SUFFICES ASSUME TypeOK, Filled, [Next]_vars PROVE Filled'
  OBVIOUS
<1>1. CASE BeginBuild
  BY <1>1 DEF BeginBuild, Filled, Tables
<1>2. CASE CreateTable
  <2>1. \A t \in Tables : rows'[t] = {}
    BY <1>2 DEF CreateTable, Filled
  <2>2. stage' \in {1, 2} /\ (stage' = 2 => schema' = Len(Schema))
    BY <1>2 DEF CreateTable
  <2>3. QED
    BY <2>1, <2>2 DEF Filled, Tables
<1>3. CASE Commit
  <2>1. schema' = schema /\ gen' = gen /\ schema = Len(Schema) /\ gen # 0 /\ stage \in 2..5
    BY <1>3 DEF Commit, Filled, TypeOK
  <2>2. \A t \in Tables : rows'[t] = rows[t] \/ rows'[t] = rows[t] \cup {gen}
    BY <1>3 DEF Commit, TypeOK
  <2>3. \A t \in Tables : rows'[t] \in {{}, {gen}}
    BY <2>2 DEF Filled
  <2>4. stage' = 0 \/ stage' = stage + 1
    BY <1>3 DEF Commit
  <2>5. rows'["message_raw"] # {}
    <3>1. CASE stage = 2
      BY <1>3, <2>1, <3>1 DEF Commit, Transactions, Tables, TypeOK
    <3>2. CASE stage # 2
      BY <2>1, <2>2, <3>2 DEF Filled, Tables
    <3>3. QED
      BY <3>1, <3>2
  <2>6. rows'["messages"] # {} => stage' = 0
    <3>1. CASE stage = 5
      BY <1>3, <3>1 DEF Commit, Transactions
    <3>2. CASE stage \in 2..4
      <4>1. "messages" \notin Transactions[stage - 1]
        BY <3>2 DEF Transactions
      <4>2. "messages" \in Tables
        BY DEF Tables
      <4>3. rows'["messages"] = rows["messages"]
        BY <1>3, <4>1, <4>2 DEF Commit
      <4>4. QED
        BY <3>2, <4>3 DEF Filled
    <3>3. QED
      BY <2>1, <3>1, <3>2
  <2>7. QED
    BY <2>1, <2>3, <2>4, <2>5, <2>6 DEF Filled
<1>4. CASE BuildDies
  BY <1>4 DEF BuildDies, Filled
<1>5. CASE UNCHANGED dbVars
  BY <1>5 DEF dbVars, Filled
<1>6. QED
  BY <1>1, <1>2, <1>3, <1>4, <1>5
     DEF Next, Request, FollowHit, Receive, NoTable, Locked, StoreCall, Restart, vars, dbVars

LEMMA FilledInit == Init => Filled
  BY DEF Init, Filled, Tables

LEMMA RowsFilled == Spec => []Filled
  BY FilledInit, FilledStep, TypeCorrect, PTL DEF Spec

-----------------------------------------------------------------------------
(* Pages of one build.                                                       *)

\* What a request has read of the build that was complete when it came in, and
\* that still is.
Fresh(r) ==
    /\ fresh[r] <= gen
    /\ fresh[r] # 0 /\ fresh[r] = gen =>
          /\ Complete
          /\ \A i \in 1..Len(got[r]) : ~Handler(page[r])[i].cached => got[r][i] = {gen}

FreshPages == \A r \in Requests : Fresh(r)

\* The build leaves the requests alone, and another one makes none fresh.
LEMMA FreshBuild ==
    ASSUME TypeOK, \A r \in Requests : Fresh(r), UNCHANGED <<page, got, fresh>>,
           gen' = gen => (Complete => Complete'), gen' \in {gen, gen + 1}
    PROVE  \A r \in Requests : Fresh(r)'
<1> SUFFICES ASSUME NEW r \in Requests PROVE Fresh(r)'
  OBVIOUS
<1>1. fresh[r] \in Nat /\ gen \in Nat /\ fresh[r] <= gen
  BY SearchDbAssumption DEF Fresh, TypeOK
<1>2. CASE gen' = gen
  BY <1>2 DEF Fresh
<1>3. CASE gen' = gen + 1
  BY <1>1, <1>3 DEF Fresh
<1>4. QED
  BY <1>2, <1>3

\* A fresh request reads the rows of a complete build, which nothing changes but
\* the next one.
LEMMA FreshStep == TypeOK /\ Filled /\ FreshPages /\ [Next]_vars => FreshPages'
<1> SUFFICES ASSUME TypeOK, Filled, \A r \in Requests : Fresh(r), [Next]_vars
             PROVE  \A r \in Requests : Fresh(r)'
  BY DEF FreshPages
<1>1. CASE BeginBuild
  BY <1>1, FreshBuild DEF BeginBuild, TypeOK, reqVars
<1>2. CASE CreateTable \/ Commit \/ BuildDies
  <2>1. ~Complete /\ gen' = gen
    BY <1>2 DEF CreateTable, Commit, BuildDies, Complete, TypeOK
  <2>2. QED
    BY <1>2, <2>1, FreshBuild DEF CreateTable, Commit, BuildDies, reqVars
<1>3. ASSUME NEW r \in Requests, NEW p \in Pages, NEW from, Receive(r, p, from)
      PROVE  \A q \in Requests : Fresh(q)'
  <2>1. UNCHANGED dbVars /\ (Complete <=> Complete')
    BY <1>3 DEF Receive, dbVars, Complete
  <2>2. Fresh(r)'
    <3>1. fresh'[r] = (IF Complete THEN gen ELSE 0) /\ got'[r] = <<>> /\ gen' = gen
          /\ Len(got'[r]) = 0
      BY <1>3 DEF Receive, TypeOK, dbVars
    <3>2. gen \in Nat
      BY DEF TypeOK
    <3>3. QED
      BY <2>1, <3>1, <3>2 DEF Fresh
  <2>3. ASSUME NEW q \in Requests \ {r} PROVE Fresh(q)'
    BY <1>3, <2>1 DEF Receive, dbVars, Fresh, TypeOK
  <2>4. QED
    BY <2>2, <2>3
<1>4. ASSUME NEW r \in Requests, Request(r) \/ FollowHit(r)
      PROVE  \A q \in Requests : Fresh(q)'
  BY <1>3, <1>4 DEF Request, FollowHit, Pages
<1>5. ASSUME NEW r \in Requests, NoTable(r) \/ Locked(r)
      PROVE  \A q \in Requests : Fresh(q)'
  BY <1>5 DEF NoTable, Locked, Answer, dbVars, Fresh, Complete
<1>6. ASSUME NEW r \in Requests, StoreCall(r) PROVE \A q \in Requests : Fresh(q)'
  <2> DEFINE v == Value(NextCall(r))
  <2>1. UNCHANGED dbVars /\ (Complete <=> Complete') /\ page' = page /\ fresh' = fresh
    BY <1>6 DEF StoreCall, Answer, dbVars, Complete
  <2>2. busy[r] /\ got' = [got EXCEPT ![r] = Append(got[r], v)]
    BY <1>6 DEF StoreCall
  <2>3. Fresh(r)'
    <3>1. Len(got[r]) \in Nat /\ got[r] \in Seq(Values) /\ v \in Values
          /\ NextCall(r) \in Calls
      BY <2>2, CallType DEF TypeOK
    <3>2. got'[r] = Append(got[r], v)
      BY <2>2 DEF TypeOK
    <3>3. Complete /\ ~NextCall(r).cached => v = {gen}
      BY <3>1 DEF Value, InCache, Complete, Filled, Calls
    <3> HIDE DEF v
    <3>4. /\ Len(got'[r]) = Len(got[r]) + 1
          /\ got'[r][Len(got[r]) + 1] = v
          /\ \A i \in 1..Len(got[r]) : got'[r][i] = got[r][i]
      BY <3>1, <3>2
    <3>5. \A i \in 1..Len(got'[r]) : i \in 1..Len(got[r]) \/ i = Len(got[r]) + 1
      BY <3>1, <3>4
    <3>6. gen' = gen
      BY <2>1 DEF dbVars
    <3>7. QED
      BY <2>1, <3>3, <3>4, <3>5, <3>6 DEF Fresh, NextCall
  <2>4. ASSUME NEW q \in Requests \ {r} PROVE Fresh(q)'
    BY <2>1, <2>2 DEF dbVars, Fresh, TypeOK
  <2>5. QED
    BY <2>3, <2>4
<1>7. CASE Restart
  <2>1. UNCHANGED dbVars /\ (Complete <=> Complete') /\ page' = page /\ fresh' = fresh
        /\ gen' = gen
    BY <1>7 DEF Restart, dbVars, Complete
  <2>2. \A r \in Requests : got'[r] = <<>> /\ Len(got'[r]) = 0
    BY <1>7 DEF Restart
  <2>3. QED
    BY <2>1, <2>2 DEF Fresh
<1>8. CASE UNCHANGED vars
  BY <1>8 DEF vars, Fresh, Complete
<1>9. QED
  BY <1>1, <1>2, <1>4, <1>5, <1>6, <1>7, <1>8 DEF Next

\* However many builds died before it: a page requested when a build is
\* complete and answered before the next one begins holds the rows of that
\* build and no others, the cached directories aside.
THEOREM Live == Spec => []RowsAreLive
<1>1. Init => FreshPages
  <2> SUFFICES ASSUME Init, NEW r \in Requests PROVE Fresh(r)
    BY DEF FreshPages
  <2>1. fresh[r] = 0 /\ gen = 0
    BY DEF Init
  <2>2. QED
    BY <2>1 DEF Fresh
<1>2. FreshPages => RowsAreLive
  BY DEF Fresh, FreshPages, RowsAreLive
<1>3. QED
  BY <1>1, <1>2, FreshStep, RowsFilled, TypeCorrect, PTL DEF Spec

-----------------------------------------------------------------------------
(* Links of search hits.                                                     *)

\* A search that found rows of the last build, and a request that follows one.
Linked(r) ==
    /\ page[r] = "search" =>
          \A i \in 1..Len(got[r]) : \A g \in got[r][i] :
              g <= gen /\ (g = gen => rows["messages"] # {})
    /\ hit[r] <= gen
    /\ hit[r] # 0 /\ hit[r] = gen =>
          page[r] = "thread" /\ reply[r] \in {0, 200} /\ rows["messages"] # {}

LinkedHits == \A r \in Requests : Linked(r)

\* The rows a hit was found in stay until the next build begins, and so do those
\* of its thread.
LEMMA LinkedStep == TypeOK /\ Filled /\ LinkedHits /\ [Next]_vars => LinkedHits'
<1> SUFFICES ASSUME TypeOK, Filled, \A r \in Requests : Linked(r), [Next]_vars
             PROVE  \A r \in Requests : Linked(r)'
  BY DEF LinkedHits
<1> USE SearchDbAssumption
<1>1. CASE BeginBuild
  <2>1. gen' = gen + 1 /\ gen \in Nat /\ UNCHANGED <<page, got, reply, hit>>
    BY <1>1 DEF BeginBuild, TypeOK, reqVars
  <2>2. ASSUME NEW r \in Requests PROVE Linked(r)'
    <3>1. hit[r] \in Nat /\ hit[r] <= gen
      BY DEF Linked, TypeOK
    <3>2. ASSUME page[r] = "search", NEW i \in 1..Len(got[r]), NEW g \in got[r][i]
          PROVE  g <= gen /\ g \in Nat
      <4>1. got[r] \in Seq(Values)
        BY DEF TypeOK
      <4>2. QED
        BY <3>2, <4>1 DEF Linked, Values
    <3>3. hit'[r] = hit[r] /\ hit'[r] <= gen' /\ hit'[r] # gen'
      BY <2>1, <3>1
    <3>4. ASSUME page'[r] = "search", NEW i \in 1..Len(got'[r]), NEW g \in got'[r][i]
          PROVE  g <= gen' /\ g # gen'
      BY <2>1, <3>2, <3>4
    <3>5. QED
      BY <3>3, <3>4 DEF Linked
  <2>3. QED
    BY <2>2
<1>2. CASE CreateTable \/ Commit \/ BuildDies
  <2>1. gen' = gen /\ UNCHANGED <<page, got, reply, hit>>
    BY <1>2 DEF CreateTable, Commit, BuildDies, reqVars
  <2>2. \A t \in Tables : rows[t] # {} => rows'[t] # {}
    BY <1>2 DEF CreateTable, Commit, BuildDies, TypeOK
  <2>3. QED
    BY <2>1, <2>2 DEF Linked, Tables
<1>3. ASSUME NEW r \in Requests, NEW p \in Pages, NEW from \in Nat, Receive(r, p, from),
             from <= gen,
             from # 0 /\ from = gen => p = "thread" /\ rows["messages"] # {}
      PROVE  \A q \in Requests : Linked(q)'
  <2>1. UNCHANGED dbVars
    BY <1>3 DEF Receive
  <2>2. Linked(r)'
    <3>1. page'[r] = p /\ got'[r] = <<>> /\ reply'[r] = 0 /\ hit'[r] = from
          /\ Len(got'[r]) = 0
      BY <1>3 DEF Receive, TypeOK
    <3>2. QED
      BY <1>3, <2>1, <3>1 DEF Linked, dbVars
  <2>3. ASSUME NEW q \in Requests \ {r} PROVE Linked(q)'
    <3>1. page'[q] = page[q] /\ got'[q] = got[q] /\ reply'[q] = reply[q]
          /\ hit'[q] = hit[q]
      BY <1>3 DEF Receive, TypeOK
    <3>2. QED
      BY <2>1, <3>1 DEF dbVars, Linked
  <2>4. QED
    BY <2>2, <2>3
<1>4. ASSUME NEW r \in Requests, Request(r) PROVE \A q \in Requests : Linked(q)'
  BY <1>3, <1>4 DEF Request, TypeOK
<1>5. ASSUME NEW r \in Requests, FollowHit(r) PROVE \A q \in Requests : Linked(q)'
  <2>1. PICK g \in got[r][1] : Receive(r, "thread", g)
    BY <1>5 DEF FollowHit
  <2>2. Len(got[r]) \in Nat \ {0} /\ got[r] \in Seq(Values) /\ page[r] = "search"
    BY <1>5, HandlerType DEF FollowHit, TypeOK
  <2>3. g \in Nat
    BY <2>1, <2>2 DEF Values
  <2>4. 1 \in 1..Len(got[r])
    BY <2>2
  <2>5. g <= gen /\ (g = gen => rows["messages"] # {})
    BY <2>1, <2>2, <2>4 DEF Linked
  <2>6. QED
    BY <1>3, <2>1, <2>3, <2>5 DEF Filled, Pages
<1>6. ASSUME NEW r \in Requests, NoTable(r) \/ Locked(r)
      PROVE  \A q \in Requests : Linked(q)'
  <2>1. rows["messages"] = {}
    <3>1. CASE Locked(r)
      BY <3>1 DEF Locked, Filled
    <3>2. CASE NoTable(r)
      <4>1. NextCall(r).table \in Tables /\ rows[NextCall(r).table] = {}
        BY <3>2, CallType, RowsHaveTable DEF NoTable, Calls
      <4>2. schema # Len(Schema)
        BY <3>2, <4>1 DEF NoTable, HasTable, Schema, Tables
      <4>3. QED
        BY <4>2 DEF Filled, Tables
    <3>3. QED
      BY <1>6, <3>1, <3>2
  <2>2. UNCHANGED <<rows, gen, page, got, hit>>
    BY <1>6 DEF NoTable, Locked, Answer, dbVars
  <2>3. QED
    BY <2>1, <2>2 DEF Linked
<1>7. ASSUME NEW r \in Requests, StoreCall(r) PROVE \A q \in Requests : Linked(q)'
  <2> DEFINE v == Value(NextCall(r))
  <2>1. UNCHANGED <<rows, gen, page, hit>>
    BY <1>7 DEF StoreCall, Answer, dbVars
  <2>2. busy[r] /\ got' = [got EXCEPT ![r] = Append(got[r], v)]
    BY <1>7 DEF StoreCall
  <2>3. Len(got[r]) \in Nat /\ got[r] \in Seq(Values) /\ v \in Values
        /\ Len(got[r]) < Len(Handler(page[r]))
    BY <2>2, CallType DEF TypeOK
  <2>4. page[r] = "search" => v = rows["messages"] /\ got[r] = <<>>
    <3> SUFFICES ASSUME page[r] = "search" PROVE v = rows["messages"] /\ got[r] = <<>>
      OBVIOUS
    <3>1. Handler("search") = <<Call("messages")>>
      BY DEF Handler
    <3>2. got[r] = <<>> /\ Len(got[r]) = 0
      BY <2>3, <3>1
    <3>3. NextCall(r) = Call("messages")
      BY <3>1, <3>2 DEF NextCall
    <3>4. QED
      BY <3>2, <3>3 DEF Value, InCache, Call
  <2>5. page[r] = "thread" /\ got[r] = <<>> => v = rows["message_raw"]
    <3> SUFFICES ASSUME page[r] = "thread", got[r] = <<>> PROVE v = rows["message_raw"]
      OBVIOUS
    <3>1. NextCall(r) = Call("message_raw")
      BY DEF NextCall, Handler
    <3>2. QED
      BY <3>1 DEF Value, InCache, Call
  <2>6. page[r] = "thread" /\ rows["messages"] # {} /\ reply[r] \in {0, 200}
           => reply'[r] \in {0, 200}
    BY <1>7, <2>5 DEF StoreCall, Answer, TypeOK, Filled
  <2> HIDE DEF v
  <2>7. Linked(r)'
    <3>1. got'[r] = Append(got[r], v)
      BY <2>2 DEF TypeOK
    <3>2. ASSUME page[r] = "search", NEW i \in 1..Len(got'[r]), NEW g \in got'[r][i]
          PROVE  g <= gen /\ (g = gen => rows["messages"] # {})
      <4>1. got'[r][i] = rows["messages"]
        BY <2>3, <2>4, <3>1, <3>2
      <4>2. gen \in Nat
        BY DEF TypeOK
      <4>3. QED
        BY <3>2, <4>1, <4>2 DEF Filled, Tables
    <3>3. QED
      BY <2>1, <2>6, <3>2 DEF Linked
  <2>8. ASSUME NEW q \in Requests \ {r} PROVE Linked(q)'
    <3>1. got'[q] = got[q] /\ reply'[q] = reply[q]
      BY <1>7, <2>2 DEF StoreCall, Answer, TypeOK
    <3>2. QED
      BY <2>1, <3>1 DEF Linked
  <2>9. QED
    BY <2>7, <2>8
<1>8. CASE Restart
  <2>1. \A r \in Requests : got'[r] = <<>> /\ Len(got'[r]) = 0 /\ reply'[r] = 0
    BY <1>8 DEF Restart
  <2>2. UNCHANGED <<rows, gen, page, hit>>
    BY <1>8 DEF Restart, dbVars
  <2>3. QED
    BY <2>1, <2>2 DEF Linked
<1>9. CASE UNCHANGED vars
  BY <1>9 DEF vars, Linked
<1>10. QED
  BY <1>1, <1>2, <1>4, <1>5, <1>6, <1>7, <1>8, <1>9 DEF Next

\* The thread behind a search hit is there until a later build has begun: no
\* build lists a message before the thread its link leads to is written.
THEOREM HitsOpen == Spec => []HitOpens
<1>1. Init => LinkedHits
  <2> SUFFICES ASSUME Init, NEW r \in Requests PROVE Linked(r)
    BY DEF LinkedHits
  <2>1. page[r] = "home" /\ hit[r] = 0 /\ gen = 0
    BY DEF Init
  <2>2. QED
    BY <2>1 DEF Linked
<1>2. TypeOK /\ LinkedHits => HitOpens
  <2> SUFFICES ASSUME TypeOK, LinkedHits, NEW r \in Requests,
                      hit[r] # 0, reply[r] \in {404, 500}
               PROVE  gen > hit[r]
    BY DEF HitOpens
  <2>1. hit[r] \in Nat /\ gen \in Nat
    BY SearchDbAssumption DEF TypeOK
  <2>2. hit[r] <= gen /\ hit[r] # gen
    BY DEF Linked, LinkedHits
  <2>3. QED
    BY <2>1, <2>2
<1>3. QED
  BY <1>1, <1>2, LinkedStep, RowsFilled, TypeCorrect, PTL DEF Spec
=============================================================================
