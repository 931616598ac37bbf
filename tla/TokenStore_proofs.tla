-------------------------- MODULE TokenStore_proofs --------------------------
(***************************************************************************)
(* Proofs about TokenStore, for any set of callers, any number of grants   *)
(* and a bank that may or may not end earlier sessions at a login.         *)
(***************************************************************************)
EXTENDS TokenStore, TLAPS

CallRec == [at : Steps, read : Token \cup {NoToken}, got : Token \cup {NoToken}]

LEMMA InitInv == Init => TokenInv
<1> SUFFICES ASSUME Init PROVE TokenInv
  OBVIOUS
<1> USE TokenAssumption DEF Init, Idle
<1>1. TypeOK
  <2>1. 1..issued \subseteq Token /\ issued \in Token \cup {NoToken}
    BY DEF Token, NoToken
  <2> QED
    BY <2>1 DEF TypeOK, NoToken, Steps
<1>2. Known
  BY DEF Known, Token, NoToken
<1>3. Waiting = {}
  BY DEF Waiting
<1>4. InTransit
  BY <1>3 DEF InTransit, Carried, Usable, Granted, NoToken
<1>5. Sent /\ NeverStranded
  BY <1>3 DEF Sent, NeverStranded
<1> QED
  BY <1>1, <1>2, <1>4, <1>5 DEF TokenInv

(* The steps of a caller, ...                                              *)
LEMMA AskInv == ASSUME TokenInv, NEW c \in Caller, AskForToken(c) PROVE TokenInv'
<1> USE TokenAssumption
<1>0. PICK k : k = disk
  OBVIOUS
<1>1. /\ k = disk /\ call[c].at = "idle" /\ k # NoToken
      /\ call' = [call EXCEPT ![c] = [at |-> "asking", read |-> k, got |-> NoToken]]
      /\ overtaken' = IF Renewing(k) THEN overtaken \cup {c} ELSE overtaken \ {c}
      /\ UNCHANGED <<issued, live, revoked, aged, disk, legacy, up, login, burnt>>
  BY <1>0 DEF AskForToken, ReadFile, bankSide, files
<1>2. TypeOK /\ Known /\ InTransit /\ Sent /\ NeverStranded
  BY DEF TokenInv
<1>3. TypeOK'
  BY <1>1, <1>2 DEF TypeOK, Steps, NoToken, Token
<1>4. \A d \in Caller : d # c => call'[d] = call[d]
  BY <1>1, <1>2 DEF TypeOK
<1>5. call'[c] = [at |-> "asking", read |-> k, got |-> NoToken]
  BY <1>1, <1>2 DEF TypeOK
<1>6. Known'
  BY <1>1, <1>2, <1>4, <1>5 DEF Known, NoToken, TypeOK, Token
<1>7. /\ \A d \in Caller : Granted(d)' <=> Granted(d)
      /\ \A d \in Caller : d # c => (d \in Waiting' <=> d \in Waiting)
  BY <1>1, <1>4, <1>5 DEF Granted, Waiting
<1>8. ASSUME NEW x, Carried(x) PROVE Carried(x)'
  BY <1>1, <1>4, <1>5, <1>7, <1>8 DEF Carried, Usable
<1>9. InTransit'
  BY <1>1, <1>2, <1>4, <1>7, <1>8 DEF InTransit, Granted
<1>10. NeverStranded'
  BY <1>1, <1>2, <1>4, <1>5 DEF NeverStranded, Renewing, Granted
<1>11. Sent'
  <2> SUFFICES ASSUME NEW d \in Caller, d \in Waiting'
               PROVE  /\ call'[d].read # NoToken
                      /\ call'[d].at # "asking" => call'[d].read \notin live'
                      /\ d \notin overtaken' =>
                           /\ disk' = call'[d].read
                           /\ \A e \in Caller : Granted(e)' /\ e # d =>
                                call'[e].read # call'[d].read
    BY DEF Sent
  <2>1. CASE d = c
    BY <2>1, <1>1, <1>4, <1>5, <1>7 DEF Renewing, Granted
  <2>2. CASE d # c
    BY <2>2, <1>1, <1>2, <1>4, <1>5, <1>7 DEF Sent, Granted
  <2> QED
    BY <2>1, <2>2
<1> QED
  BY <1>3, <1>6, <1>9, <1>10, <1>11 DEF TokenInv

LEMMA GrantInv == ASSUME TokenInv, NEW c \in Caller, BankGrants(c) PROVE TokenInv'
<1> USE TokenAssumption
<1>0. PICK k, n : k = call[c].read /\ n = issued + 1
  OBVIOUS
<1>1. /\ k = call[c].read
      /\ call[c].at = "asking" /\ k \in live /\ issued < MaxGrants
      /\ issued' = n /\ live' = (live \ {k}) \cup {n}
      /\ call' = [call EXCEPT ![c].at = "granted", ![c].got = n]
      /\ overtaken' = overtaken \cup {d \in Waiting : d # c /\ call[d].read = k}
      /\ UNCHANGED <<aged, disk, legacy, up, login, burnt, revoked>>
  BY <1>0 DEF BankGrants, files
<1>2. TypeOK /\ Known /\ InTransit /\ Sent /\ NeverStranded
  BY DEF TokenInv
<1>3. issued \in Nat /\ n \in Token /\ n = issued + 1
  BY <1>0, <1>1, <1>2 DEF TypeOK, Token, NoToken
<1>4. TypeOK'
  BY <1>1, <1>2, <1>3 DEF TypeOK, Steps, NoToken, Waiting
<1>5. /\ \A d \in Caller : d # c => call'[d] = call[d]
      /\ call'[c].at = "granted" /\ call'[c].read = k /\ call'[c].got = n
  BY <1>0, <1>1, <1>2 DEF TypeOK
<1>6. /\ \A d \in Caller : d # c => (Granted(d)' <=> Granted(d))
      /\ \A d \in Caller : d \in Waiting' <=> d \in Waiting
      /\ \A d \in Caller : call'[d].read = call[d].read
      /\ c \in Waiting /\ Granted(c)'
  BY <1>1, <1>5 DEF Granted, Waiting
<1>7. Known'
  BY <1>1, <1>2, <1>3, <1>5 DEF Known, TypeOK, Token, NoToken
<1>8. ASSUME NEW x, Carried(x) PROVE Carried(x)'
  BY <1>1, <1>6, <1>8 DEF Carried, Usable
<1>9. Carried(n)'
  <2>1. n # disk
    BY <1>2, <1>3 DEF Known
  <2>2. \A d \in Caller : call[d].read # n
    BY <1>2, <1>3 DEF Known, TypeOK, Token, NoToken
  <2> QED
    BY <1>1, <1>6, <2>1, <2>2 DEF Carried, Usable
<1>10. n \notin {NoToken, legacy, login} /\ \A d \in Caller : call[d].got # n
  BY <1>2, <1>3 DEF Known, NoToken, TypeOK, Token
<1>11. InTransit'
  <2>1. (legacy # NoToken => Carried(legacy) /\ legacy # login)'
    BY <1>1, <1>2, <1>8 DEF InTransit
  <2>2. (login # NoToken => Carried(login))'
    BY <1>1, <1>2, <1>8 DEF InTransit
  <2>3. ASSUME NEW d \in Caller, Granted(d)'
        PROVE  /\ (Carried(call[d].got) /\ call[d].got \notin {NoToken, legacy, login})'
               /\ \A e \in Caller : Granted(e)' /\ e # d => call'[e].got # call'[d].got
    <3>1. CASE d = c
      BY <3>1, <1>1, <1>5, <1>9, <1>10
    <3>2. CASE d # c
      <4>0. PICK x : x = call[d].got
        OBVIOUS
      <4>1. Granted(d) /\ call'[d].got = x
        BY <4>0, <3>2, <2>3, <1>5, <1>6
      <4>2. /\ Carried(x) /\ x \notin {NoToken, legacy, login}
            /\ \A e \in Caller : Granted(e) /\ e # d => call[e].got # x
        BY <4>0, <4>1, <1>2 DEF InTransit
      <4>3. Carried(x)'
        BY <4>2, <1>8
      <4>4. (Carried(call[d].got) /\ call[d].got \notin {NoToken, legacy, login})'
        BY <4>1, <4>2, <4>3, <1>1
      <4>5. \A e \in Caller : Granted(e)' /\ e # d => call'[e].got # call'[d].got
        BY <4>0, <4>1, <4>2, <1>5, <1>6, <1>10
      <4> QED
        BY <4>4, <4>5
    <3> QED
      BY <3>1, <3>2
  <2> QED
    BY <2>1, <2>2, <2>3 DEF InTransit
<1>12. NeverStranded'
  <2>1. CASE disk = k
    BY <2>1, <1>1, <1>6 DEF NeverStranded, Renewing, Granted
  <2>2. CASE disk # k
    BY <2>2, <1>1, <1>2, <1>5 DEF NeverStranded, Renewing, Granted
  <2> QED
    BY <2>1, <2>2
<1>13. Sent'
  <2> SUFFICES ASSUME NEW d \in Caller, d \in Waiting
               PROVE  /\ call[d].read # NoToken
                      /\ call'[d].at # "asking" => call[d].read \notin live'
                      /\ d \notin overtaken' =>
                           /\ disk = call[d].read
                           /\ \A e \in Caller : Granted(e)' /\ e # d =>
                                call[e].read # call[d].read
    BY <1>1, <1>6 DEF Sent
  <2>1. call[d].read # NoToken /\ call[d].read # n
    BY <1>2, <1>3 DEF Sent, Known, TypeOK, Token, NoToken
  <2>2. call'[d].at # "asking" => call[d].read \notin live'
    BY <2>1, <1>1, <1>2, <1>5 DEF Sent
  <2>3. ASSUME d \notin overtaken'
        PROVE  disk = call[d].read /\ \A e \in Caller : Granted(e)' /\ e # d =>
                                        call[e].read # call[d].read
    BY <2>3, <1>1, <1>2, <1>6 DEF Sent, Granted
  <2> QED
    BY <2>1, <2>2, <2>3
<1> QED
  BY <1>4, <1>7, <1>11, <1>12, <1>13 DEF TokenInv

LEMMA RejectInv == ASSUME TokenInv, NEW c \in Caller, BankRejects(c) PROVE TokenInv'
<1>1. /\ call[c].at = "asking" /\ call[c].read \notin live
      /\ call' = [call EXCEPT ![c].at = "rejected"]
      /\ UNCHANGED <<issued, live, revoked, aged, disk, legacy, up, login, burnt, overtaken>>
  BY DEF BankRejects, bankSide, files
<1>2. TypeOK /\ Known /\ InTransit /\ Sent /\ NeverStranded
  BY DEF TokenInv
<1>3. TypeOK'
  BY <1>1, <1>2 DEF TypeOK, Steps
<1>4. \A d \in Caller : /\ call'[d].read = call[d].read /\ call'[d].got = call[d].got
                        /\ Granted(d)' <=> Granted(d)
                        /\ d \in Waiting' <=> d \in Waiting
                        /\ call'[d].at # "asking" => call[d].at # "asking" \/ d = c
  BY <1>1, <1>2 DEF TypeOK, Granted, Waiting
<1>5. Known' /\ NeverStranded'
  BY <1>1, <1>2, <1>4 DEF Known, NeverStranded, Renewing, Granted
<1>6. ASSUME NEW x, Carried(x) PROVE Carried(x)'
  BY <1>1, <1>4, <1>6 DEF Carried, Usable
<1>7. InTransit'
  BY <1>1, <1>2, <1>4, <1>6 DEF InTransit
<1>8. Sent'
  BY <1>1, <1>2, <1>4 DEF Sent
<1> QED
  BY <1>3, <1>5, <1>7, <1>8 DEF TokenInv

LEMMA SaveInv == ASSUME TokenInv, NEW c \in Caller, Save(c) PROVE TokenInv'
<1>0. PICK k : k = call[c].got
  OBVIOUS
<1>1. /\ k = call[c].got /\ Granted(c)
      /\ disk' = k
      /\ call' = [call EXCEPT ![c].at = "idle"]
      /\ overtaken' = overtaken \cup {d \in Waiting : d # c /\ call[d].read # k}
      /\ UNCHANGED <<issued, live, revoked, aged, legacy, up, login, burnt>>
  BY <1>0 DEF Save, Written, bankSide, Granted
<1>2. TypeOK /\ Known /\ InTransit /\ Sent /\ NeverStranded
  BY DEF TokenInv
<1>3. TypeOK'
  BY <1>1, <1>2 DEF TypeOK, Steps, Waiting
<1>4. /\ \A d \in Caller : /\ call'[d].read = call[d].read /\ call'[d].got = call[d].got
                           /\ Granted(d)' <=> Granted(d) /\ d # c
                           /\ d \in Waiting' <=> d \in Waiting /\ d # c
                           /\ d # c => call'[d] = call[d]
      /\ c \in Waiting
  BY <1>1, <1>2 DEF TypeOK, Granted, Waiting
<1>5. k \in Usable /\ k \notin {NoToken, legacy, login} /\ k <= issued /\ k \in Nat
  BY <1>1, <1>2 DEF InTransit, Carried, Known, TypeOK, Token, NoToken
<1>6. Known'
  BY <1>1, <1>2, <1>4, <1>5 DEF Known
<1>7. ASSUME NEW x, Carried(x), x # k PROVE Carried(x)'
  BY <1>1, <1>4, <1>7 DEF Carried, Usable
<1>8. InTransit'
  BY <1>1, <1>2, <1>4, <1>5, <1>7 DEF InTransit
<1>9. \A d \in Caller : d \in Waiting => call[d].read # k
  BY <1>1, <1>2 DEF InTransit, Carried
<1>10. Sent'
  BY <1>1, <1>2, <1>4, <1>9 DEF Sent
<1>11. NeverStranded'
  BY <1>1, <1>5 DEF NeverStranded, Usable
<1> QED
  BY <1>3, <1>6, <1>8, <1>10, <1>11 DEF TokenInv

LEMMA LeaveInv ==
  ASSUME TokenInv, NEW c \in Caller, RaiseAuthRequired(c) \/ CallFails(c) PROVE TokenInv'
<1>1. /\ call' = [call EXCEPT ![c].at = "idle"]
      /\ burnt' = burnt \/ burnt' = burnt \cup {call[c].read}
      /\ Granted(c) => call[c].read \in burnt'
      /\ c \in Waiting
      /\ UNCHANGED <<issued, live, revoked, aged, disk, legacy, up, login, overtaken>>
  <2>1. CASE RaiseAuthRequired(c)
    BY <2>1 DEF RaiseAuthRequired, bankSide, files, Granted, Waiting
  <2>2. CASE CallFails(c)
    BY <2>2 DEF CallFails, bankSide, files, Granted, Waiting
  <2> QED
    BY <2>1, <2>2
<1>2. TypeOK /\ Known /\ InTransit /\ Sent /\ NeverStranded
  BY DEF TokenInv
<1>3. call[c].read \in Token /\ call[c].read \in 1..issued
  BY <1>1, <1>2 DEF Sent, TypeOK, Known, Token, NoToken
<1>4. TypeOK'
  BY <1>1, <1>2, <1>3 DEF TypeOK, Steps
<1>5. \A d \in Caller : /\ call'[d].read = call[d].read /\ call'[d].got = call[d].got
                        /\ Granted(d)' <=> Granted(d) /\ d # c
                        /\ d \in Waiting' <=> d \in Waiting /\ d # c
                        /\ d # c => call'[d] = call[d]
  BY <1>1, <1>2 DEF TypeOK, Granted, Waiting
<1>6. Known'
  BY <1>1, <1>2, <1>3, <1>5 DEF Known
<1>7. ASSUME NEW x, Carried(x) PROVE Carried(x)'
  BY <1>1, <1>5, <1>7 DEF Carried, Usable
<1>8. InTransit'
  BY <1>1, <1>2, <1>5, <1>7 DEF InTransit
<1>9. Sent'
  BY <1>1, <1>2, <1>5 DEF Sent
<1>10. NeverStranded'
  BY <1>1, <1>2, <1>5 DEF NeverStranded, Renewing, Granted
<1> QED
  BY <1>4, <1>6, <1>8, <1>9, <1>10 DEF TokenInv

(* ... a crash of them all, ...                                            *)
LEMMA CrashInv == ASSUME TokenInv, Crash PROVE TokenInv'
<1>1. /\ burnt' = burnt \cup {call[c].read : c \in {d \in Caller : Granted(d)}}
      /\ call' = [c \in Caller |-> Idle] /\ up' \in BOOLEAN
      /\ UNCHANGED <<issued, live, revoked, aged, disk, legacy, login, overtaken>>
  BY DEF Crash, bankSide, files, Granted
<1>2. TypeOK /\ Known /\ InTransit /\ Sent /\ NeverStranded
  BY DEF TokenInv
<1>3. \A c \in Caller : Granted(c) => call[c].read \in Token /\ call[c].read \in 1..issued
  BY <1>2 DEF Sent, TypeOK, Known, Token, NoToken, Granted, Waiting
<1>4. TypeOK'
  BY <1>1, <1>2, <1>3 DEF TypeOK, Steps, Idle
<1>5. Waiting' = {} /\ \A c \in Caller : ~Granted(c)'
  BY <1>1 DEF Waiting, Granted, Idle
<1>6. Known'
  <2>1. issued \in Nat
    BY <1>2 DEF TypeOK, Token, NoToken
  <2>2. \A c \in Caller : call'[c].read = NoToken /\ call'[c].got = NoToken
    BY <1>1 DEF Idle
  <2> QED
    BY <1>1, <1>2, <1>3, <2>1, <2>2 DEF Known, NoToken
<1>7. InTransit'
  BY <1>1, <1>2, <1>5 DEF InTransit, Carried, Usable
<1>8. Sent'
  BY <1>5 DEF Sent
<1>9. NeverStranded'
  BY <1>1, <1>2 DEF NeverStranded, Renewing, Granted
<1> QED
  BY <1>4, <1>6, <1>7, <1>8, <1>9 DEF TokenInv

(* ... the service's start, a login, and time.                             *)
LEMMA StartInv == ASSUME TokenInv, StartService PROVE TokenInv'
<1>1. /\ up' \in BOOLEAN /\ MoveLegacy
      /\ UNCHANGED <<issued, live, revoked, aged, call, login, burnt, overtaken>>
  BY DEF StartService, bankSide
<1>2. CASE ~Migrates
  <2>1. disk' = disk /\ legacy' = legacy
    BY <1>1, <1>2 DEF MoveLegacy
  <2> QED
    BY <1>1, <2>1 DEF TokenInv, TypeOK, Known, InTransit, Carried, Usable, Granted, Waiting,
                      Sent, NeverStranded, Renewing
<1>3. CASE Migrates
  <2>1. disk = NoToken /\ legacy # NoToken /\ disk' = legacy /\ legacy' = NoToken
    BY <1>1, <1>3 DEF MoveLegacy, Migrates
  <2>2. TypeOK /\ Known /\ InTransit /\ Sent
    BY DEF TokenInv
  <2>3. TypeOK' /\ Known'
    BY <1>1, <2>1, <2>2 DEF TypeOK, Known, NoToken, Token
  <2>4. InTransit'
    BY <1>1, <2>1, <2>2 DEF InTransit, Carried, Usable, Granted, Waiting
  <2>5. Sent'
    BY <1>1, <2>1, <2>2 DEF Sent, Granted, Waiting
  <2>6. NeverStranded'
    BY <1>1, <2>1, <2>2 DEF NeverStranded, InTransit, Carried, Usable
  <2> QED
    BY <2>3, <2>4, <2>5, <2>6 DEF TokenInv
<1> QED
  BY <1>2, <1>3

LEMMA LoginInv == ASSUME TokenInv, Login PROVE TokenInv'
<1> USE TokenAssumption
<1>0. PICK n : n = issued + 1
  OBVIOUS
<1>1. /\ login = NoToken /\ issued < MaxGrants /\ MoveLegacy
      /\ issued' = n /\ login' = n
      /\ revoked' = revoked \/ revoked' = revoked \cup live
      /\ live' = (live \ revoked') \cup {n}
      /\ UNCHANGED <<aged, up, call, burnt, overtaken>>
  BY <1>0 DEF Login
<1>2. TypeOK /\ Known /\ InTransit /\ Sent /\ NeverStranded
  BY DEF TokenInv
<1>3. issued \in Nat /\ n \in Token /\ n = issued + 1
  BY <1>0, <1>1, <1>2 DEF TypeOK, Token, NoToken
<1>4. \/ disk' = disk /\ legacy' = legacy
      \/ disk = NoToken /\ legacy # NoToken /\ disk' = legacy /\ legacy' = NoToken
  BY <1>1 DEF MoveLegacy, Migrates
<1>5. TypeOK'
  BY <1>1, <1>2, <1>3, <1>4 DEF TypeOK
<1>6. Known'
  <2>1. 1..issued \subseteq 1..n /\ n \in 1..n /\ 0..issued \subseteq 0..n /\ n \in 0..n
    BY <1>3
  <2>2. (live \cup revoked \cup burnt \subseteq 1..issued)'
    BY <2>1, <1>1, <1>2 DEF Known
  <2>3. ({disk, legacy, login} \subseteq 0..issued)'
    BY <2>1, <1>1, <1>2, <1>4 DEF Known, NoToken
  <2>4. \A c \in Caller : call'[c].read <= n /\ call'[c].got <= n
    BY <1>1, <1>2, <1>3 DEF Known, TypeOK, Token, NoToken
  <2> QED
    BY <1>1, <2>2, <2>3, <2>4 DEF Known
<1>7. /\ \A x \in Usable : x \in Usable'
      /\ n \in Usable' /\ \A x : x \in live' => x \in live \/ x = n
  BY <1>1 DEF Usable
<1>8. n \notin {disk, legacy, NoToken} /\ \A c \in Caller : call[c].read # n /\ call[c].got # n
  BY <1>2, <1>3 DEF Known, TypeOK, Token, NoToken
<1>9. /\ \A c \in Caller : Granted(c)' <=> Granted(c)
      /\ \A c \in Caller : c \in Waiting' <=> c \in Waiting
  BY <1>1 DEF Granted, Waiting
<1>10. ASSUME NEW x, Carried(x), x # legacy PROVE Carried(x)'
  BY <1>1, <1>4, <1>7, <1>9, <1>10 DEF Carried
<1>11. Carried(n)'
  BY <1>1, <1>4, <1>7, <1>8, <1>9 DEF Carried
<1>12. InTransit'
  <2>1. (legacy # NoToken => Carried(legacy) /\ legacy # login)'
    BY <1>1, <1>2, <1>4, <1>7, <1>8, <1>9 DEF InTransit, Carried
  <2>2. (login # NoToken => Carried(login))'
    BY <1>1, <1>11
  <2>3. ASSUME NEW d \in Caller, Granted(d)'
        PROVE  /\ (Carried(call[d].got) /\ call[d].got \notin {NoToken, legacy, login})'
               /\ \A e \in Caller : Granted(e)' /\ e # d => call'[e].got # call'[d].got
    <3>0. PICK x : x = call[d].got
      OBVIOUS
    <3>1. /\ call'[d].got = x /\ Carried(x) /\ x \notin {NoToken, legacy}
          /\ \A e \in Caller : Granted(e) /\ e # d => call[e].got # x
      BY <3>0, <2>3, <1>1, <1>2, <1>9 DEF InTransit
    <3>2. Carried(x)' /\ x # n
      BY <3>0, <3>1, <1>8, <1>10
    <3>3. (Carried(call[d].got) /\ call[d].got \notin {NoToken, legacy, login})'
      BY <3>1, <3>2, <1>1, <1>4
    <3> QED
      BY <3>1, <3>3, <1>1, <1>9
  <2> QED
    BY <2>1, <2>2, <2>3 DEF InTransit
<1>13. Sent'
  BY <1>1, <1>2, <1>4, <1>7, <1>8, <1>9 DEF Sent
<1>14. NeverStranded'
  <2>1. CASE disk' = disk /\ legacy' = legacy
    BY <2>1, <1>1, <1>2 DEF NeverStranded, Renewing
  <2>2. CASE disk' = legacy /\ legacy # NoToken
    BY <2>2, <1>2, <1>7 DEF NeverStranded, InTransit, Carried, Usable
  <2> QED
    BY <2>1, <2>2, <1>4
<1> QED
  BY <1>5, <1>6, <1>12, <1>13, <1>14 DEF TokenInv

LEMMA WriteLoginInv == ASSUME TokenInv, WriteLogin PROVE TokenInv'
<1>1. /\ login # NoToken /\ disk' = login /\ login' = NoToken
      /\ overtaken' = overtaken \cup Waiting
      /\ UNCHANGED <<issued, live, revoked, aged, legacy, up, call, burnt>>
  BY DEF WriteLogin, bankSide
<1>2. TypeOK /\ Known /\ InTransit /\ Sent
  BY DEF TokenInv
<1>3. TypeOK' /\ Known'
  BY <1>1, <1>2 DEF TypeOK, Known, NoToken, Token, Waiting
<1>4. InTransit'
  BY <1>1, <1>2 DEF InTransit, Carried, Usable, Granted, Waiting
<1>5. Sent'
  BY <1>1, <1>2 DEF Sent, Waiting
<1>6. NeverStranded'
  BY <1>1, <1>2 DEF NeverStranded, InTransit, Carried, Usable
<1> QED
  BY <1>3, <1>4, <1>5, <1>6 DEF TokenInv

LEMMA QuietInv ==
  ASSUME TokenInv, AbandonLogin \/ (\E k \in Token : Age(k)) \/ UNCHANGED vars PROVE TokenInv'
<1>1. /\ login' \in {login, NoToken} /\ (aged' = aged \/ \E k \in Token : aged' = aged \cup {k})
      /\ UNCHANGED <<issued, live, revoked, disk, legacy, up, call, burnt, overtaken>>
  BY DEF AbandonLogin, Age, vars, bankSide, files
<1>2. TypeOK /\ Known /\ InTransit /\ Sent /\ NeverStranded
  BY DEF TokenInv
<1>3. TypeOK' /\ Known'
  <2>1. aged' \subseteq Token
    BY <1>1, <1>2 DEF TypeOK
  <2>2. TypeOK'
    BY <2>1, <1>1, <1>2 DEF TypeOK
  <2>3. NoToken \in 0..issued
    BY <1>2 DEF TypeOK, Token, NoToken
  <2>4. Known'
    BY <2>3, <1>1, <1>2 DEF Known
  <2> QED
    BY <2>2, <2>4
<1>4. InTransit'
  BY <1>1, <1>2 DEF InTransit, Carried, Usable, Granted, Waiting
<1>5. Sent' /\ NeverStranded'
  BY <1>1, <1>2 DEF Sent, NeverStranded, Renewing, Granted, Waiting
<1> QED
  BY <1>3, <1>4, <1>5 DEF TokenInv

(* The inductive invariant, for every number of callers.                   *)
THEOREM TokensInvariant == Spec => []TokenInv
<1>1. Init => TokenInv
  BY InitInv
<1>2. TokenInv /\ [Next]_vars => TokenInv'
  <2> SUFFICES ASSUME TokenInv, [Next]_vars PROVE TokenInv'
    OBVIOUS
  <2>1. CASE StartService
    BY <2>1, StartInv
  <2>2. CASE Crash
    BY <2>2, CrashInv
  <2>3. CASE Login
    BY <2>3, LoginInv
  <2>4. CASE WriteLogin
    BY <2>4, WriteLoginInv
  <2>5. CASE AbandonLogin \/ (\E k \in Token : Age(k)) \/ UNCHANGED vars
    BY <2>5, QuietInv
  <2>6. ASSUME NEW c \in Caller, AskForToken(c) PROVE TokenInv'
    BY <2>6, AskInv
  <2>7. ASSUME NEW c \in Caller, BankGrants(c) PROVE TokenInv'
    BY <2>7, GrantInv
  <2>8. ASSUME NEW c \in Caller, BankRejects(c) PROVE TokenInv'
    BY <2>8, RejectInv
  <2>9. ASSUME NEW c \in Caller, Save(c) PROVE TokenInv'
    BY <2>9, SaveInv
  <2>10. ASSUME NEW c \in Caller, RaiseAuthRequired(c) \/ CallFails(c) PROVE TokenInv'
    BY <2>10, LeaveInv
  <2> QED
    BY <2>1, <2>2, <2>3, <2>4, <2>5, <2>6, <2>7, <2>8, <2>9, <2>10 DEF Next
<1> QED
  BY <1>1, <1>2, PTL DEF Spec

(* A dead refresh token on disk is being replaced, or its successor was    *)
(* lost on the way, or a login ended it.                                   *)
THEOREM NeverLocksItselfOut == Spec => []NeverStranded
<1>1. TokenInv => NeverStranded
  BY DEF TokenInv
<1> QED
  BY <1>1, TokensInvariant, PTL

(* A save writes a working token, and replaces a working one only after    *)
(* a login.                                                                *)
THEOREM SavesWork == Spec => SavedTokenWorks
<1>1. ASSUME TokenInv, NEW c \in Caller, Save(c)
      PROVE  disk' \in live \cup revoked /\ (disk \in live => c \in overtaken)
  <2>1. Granted(c) /\ c \in Waiting /\ disk' = call[c].got
    BY <1>1 DEF Save, Written, Granted, Waiting
  <2>2. disk' \in live \cup revoked
    BY <1>1, <2>1 DEF TokenInv, InTransit, Carried, Usable
  <2>3. disk \in live => c \in overtaken
    BY <1>1, <2>1 DEF TokenInv, Sent, Granted
  <2> QED
    BY <2>2, <2>3
<1>2. TokenInv /\ [Next]_vars =>
        [\A c \in Caller : Save(c) =>
           /\ disk' \in live \cup revoked
           /\ disk \in live => c \in overtaken]_vars
  BY <1>1
<1> QED
  BY <1>2, TokensInvariant, PTL DEF Spec, SavedTokenWorks

(* AuthRequiredError is raised only when a human is needed, unless someone *)
(* else traded or replaced the token while the caller waited.              *)
THEOREM AuthRequiredTheorem == Spec => AuthRequiredUnlessRaced
<1>1. ASSUME TokenInv, NEW c \in Caller, RaiseAuthRequired(c), c \notin overtaken
      PROVE  LoginNeeded
  <2>1. call[c].at = "rejected" /\ c \in Waiting
    BY <1>1 DEF RaiseAuthRequired, Waiting
  <2>2. /\ disk = call[c].read /\ disk \notin live
        /\ \A d \in Caller : Granted(d) /\ d # c => call[d].read # disk
    BY <1>1, <2>1 DEF TokenInv, Sent
  <2> QED
    BY <2>1, <2>2 DEF LoginNeeded, Renewing, Granted
<1>2. TokenInv /\ [Next]_vars =>
        [\A c \in Caller : RaiseAuthRequired(c) /\ c \notin overtaken => LoginNeeded]_vars
  BY <1>1
<1> QED
  BY <1>2, TokensInvariant, PTL DEF Spec, AuthRequiredUnlessRaced
==============================================================================
