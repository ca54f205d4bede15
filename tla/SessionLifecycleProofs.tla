----------------------- MODULE SessionLifecycleProofs -----------------------
(* What SessionLifecycle guarantees for any sessions and any requests.       *)
EXTENDS SessionLifecycle, TLAPS

(* The sets the invariant and the steps speak of.                            *)
USE DEF Active, Ended, Kinds, Events, Routes

\* What Log leaves in the trail.
LEMMA LogAdds ==
    ASSUME audit \in [Sessions \X Events -> Nat],
           NEW s \in Sessions, NEW e \in Events, Log(s, e)
    PROVE  \A u \in Sessions, f \in Events :
             audit'[<<u, f>>] = IF u = s /\ f = e THEN audit[<<u, f>>] + 1
                                                 ELSE audit[<<u, f>>]
BY DEF Log

\* The initial tables and idle requests satisfy the invariant.
LEMMA Initially == Init => IInv
<1> SUFFICES ASSUME Init PROVE IInv
  OBVIOUS
<1>1. TypeOK
  BY DEF Init, TypeOK
<1>2. RequestInv
  BY DEF Init, RequestInv
<1>3. ReadyHasTarget /\ TargetInv /\ AuditMatchesRecords /\ OnlyAuthorized
  BY DEF Init, ReadyHasTarget, TargetInv, Registered, AuditMatchesRecords, OnlyAuthorized
<1> QED
  BY <1>1, <1>2, <1>3 DEF IInv

\* Every step of the clock and of a request keeps the invariant.
LEMMA Step == IInv /\ [Next]_vars => IInv'
<1> SUFFICES ASSUME IInv, [Next]_vars PROVE IInv'
  OBVIOUS
<1> USE ConfirmedAssumption
<1>1. ASSUME NEW s \in Sessions, Create(s)
      PROVE  IInv'
  <2>1. TypeOK'
    BY <1>1 DEF IInv, TypeOK, Create, Log, request, clock
  <2>2. RequestInv'
    BY <1>1 DEF IInv, TypeOK, RequestInv, Create, Log, request, clock
  <2>3. ReadyHasTarget' /\ TargetInv'
    BY <1>1 DEF IInv, TypeOK, RequestInv, ReadyHasTarget, TargetInv,
       Registered, Create, Log,
       request, clock
  <2>4. AuditMatchesRecords'
    BY <1>1 DEF IInv, TypeOK, RequestInv, AuditMatchesRecords, Create, Log,
       request, clock
  <2>5. OnlyAuthorized'
    BY <1>1 DEF IInv, TypeOK, RequestInv, OnlyAuthorized, Create, Log,
       request, clock
  <2> QED
    BY <2>1, <2>2, <2>3, <2>4, <2>5 DEF IInv
<1>2. ASSUME NEW s \in Sessions, SessionOverdue(s)
      PROVE  IInv'
  <2>1. TypeOK'
    BY <1>2 DEF IInv, TypeOK, SessionOverdue, request, tables
  <2>2. RequestInv'
    BY <1>2 DEF IInv, TypeOK, RequestInv, SessionOverdue, request, tables
  <2>3. ReadyHasTarget' /\ TargetInv'
    BY <1>2 DEF IInv, TypeOK, RequestInv, ReadyHasTarget, TargetInv,
       Registered, SessionOverdue,
       request, tables
  <2>4. AuditMatchesRecords'
    BY <1>2 DEF IInv, TypeOK, RequestInv, AuditMatchesRecords,
       SessionOverdue, request, tables
  <2>5. OnlyAuthorized'
    BY <1>2 DEF IInv, TypeOK, RequestInv, OnlyAuthorized, SessionOverdue,
       request, tables
  <2> QED
    BY <2>1, <2>2, <2>3, <2>4, <2>5 DEF IInv
<1>3. ASSUME NEW s \in Sessions, TargetLapses(s)
      PROVE  IInv'
  <2>1. TypeOK'
    BY <1>3 DEF IInv, TypeOK, TargetLapses, request, tables
  <2>2. RequestInv'
    BY <1>3 DEF IInv, TypeOK, RequestInv, TargetLapses, request, tables
  <2>3. ReadyHasTarget' /\ TargetInv'
    BY <1>3 DEF IInv, TypeOK, RequestInv, ReadyHasTarget, TargetInv,
       Registered, TargetLapses,
       request, tables
  <2>4. AuditMatchesRecords'
    BY <1>3 DEF IInv, TypeOK, RequestInv, AuditMatchesRecords, TargetLapses,
       request, tables
  <2>5. OnlyAuthorized'
    BY <1>3 DEF IInv, TypeOK, RequestInv, OnlyAuthorized, TargetLapses,
       request, tables
  <2> QED
    BY <2>1, <2>2, <2>3, <2>4, <2>5 DEF IInv
<1>4. ASSUME NEW r \in Requests, ReadTarget(r)
      PROVE  IInv'
  <2>1. TypeOK'
    BY <1>4 DEF IInv, TypeOK, ReadTarget, Goto, TargetUsable, tables, clock
  <2>2. RequestInv'
    BY <1>4 DEF IInv, TypeOK, RequestInv, OnlyAuthorized, ReadTarget, Goto,
       TargetUsable, tables, clock
  <2>3. ReadyHasTarget' /\ TargetInv'
    BY <1>4 DEF IInv, TypeOK, RequestInv, ReadyHasTarget, TargetInv,
       Registered, ReadTarget, Goto,
       TargetUsable, tables, clock
  <2>4. AuditMatchesRecords'
    BY <1>4 DEF IInv, TypeOK, RequestInv, AuditMatchesRecords, ReadTarget,
       Goto, TargetUsable, tables, clock
  <2>5. OnlyAuthorized'
    BY <1>4 DEF IInv, TypeOK, RequestInv, OnlyAuthorized, ReadTarget, Goto,
       TargetUsable, tables, clock
  <2> QED
    BY <2>1, <2>2, <2>3, <2>4, <2>5 DEF IInv
<1>5. ASSUME NEW r \in Requests, Abandon(r)
      PROVE  IInv'
  <2>1. TypeOK'
    BY <1>5 DEF IInv, TypeOK, Abandon, Goto, tables, clock
  <2>2. RequestInv'
    BY <1>5 DEF IInv, TypeOK, RequestInv, Abandon, Goto, tables, clock
  <2>3. ReadyHasTarget' /\ TargetInv'
    BY <1>5 DEF IInv, TypeOK, RequestInv, ReadyHasTarget, TargetInv,
       Registered, Abandon, Goto,
       tables, clock
  <2>4. AuditMatchesRecords'
    BY <1>5 DEF IInv, TypeOK, RequestInv, AuditMatchesRecords, Abandon,
       Goto, tables, clock
  <2>5. OnlyAuthorized'
    BY <1>5 DEF IInv, TypeOK, RequestInv, OnlyAuthorized, Abandon, Goto,
       tables, clock
  <2> QED
    BY <2>1, <2>2, <2>3, <2>4, <2>5 DEF IInv
<1>6. ASSUME NEW r \in Requests, Expire(r)
      PROVE  IInv'
  <2>1. TypeOK'
    BY <1>6 DEF IInv, TypeOK, Expire, Log, Goto, clock
  <2>2. RequestInv'
    BY <1>6 DEF IInv, TypeOK, RequestInv, Expire, Log, Goto, clock
  <2>3. ReadyHasTarget' /\ TargetInv'
    BY <1>6 DEF IInv, TypeOK, RequestInv, ReadyHasTarget, TargetInv,
       Registered, Expire, Log, Goto,
       clock
  <2>4. AuditMatchesRecords'
    <3>1. job[r] \in Sessions /\ "expired" \in Events /\ Log(job[r], "expired")
      BY <1>6 DEF IInv, TypeOK, Expire
    <3>2. \A u \in Sessions, f \in Events :
            audit'[<<u, f>>] = IF u = job[r] /\ f = "expired"
                               THEN audit[<<u, f>>] + 1 ELSE audit[<<u, f>>]
      BY <3>1, LogAdds DEF IInv, TypeOK
    <3>3. ASSUME NEW u \in Sessions, NEW k \in Kinds
          PROVE  audit'[<<u, k>>] = records'[<<u, k>>]
      <4>1. records' = records
        BY <1>6 DEF Expire, clock
      <4>2. audit'[<<u, k>>] = audit[<<u, k>>]
        BY <3>2
      <4> QED
        BY <4>1, <4>2 DEF IInv, AuditMatchesRecords
    <3>4. ASSUME NEW u \in Sessions
          PROVE  audit'[<<u, "target">>] = IF target'[u] = "none" THEN 0 ELSE 1
      <4>1. audit'[<<u, "target">>] = audit[<<u, "target">>]
        BY <3>2
      <4>2. audit[<<u, "target">>] = IF target[u] = "none" THEN 0 ELSE 1
        BY DEF IInv, AuditMatchesRecords
      <4>3. target'[u] = "none" <=> target[u] = "none"
        BY <1>6 DEF IInv, TypeOK, RequestInv, Expire, clock
      <4> QED
        BY <1>6, <4>1, <4>2, <4>3 DEF Expire
    <3>5. ASSUME NEW u \in Sessions
          PROVE  /\ state'[u] = "completed" => audit'[<<u, "closed">>] > 0
                 /\ state'[u] = "expired" => audit'[<<u, "expired">>] > 0
      <4>1. /\ audit[<<u, "closed">>] \in Nat
            /\ audit[<<u, "expired">>] \in Nat
        BY DEF IInv, TypeOK
      <4>2. /\ state[u] = "completed" => audit[<<u, "closed">>] > 0
            /\ state[u] = "expired" => audit[<<u, "expired">>] > 0
        BY DEF IInv, AuditMatchesRecords
      <4>3. state'[u] = IF u = job[r] THEN "expired" ELSE state[u]
        BY <1>6 DEF IInv, TypeOK, Expire
      <4>4. audit'[<<u, "closed">>] = audit[<<u, "closed">>]
        BY <3>2
      <4>5. audit'[<<u, "expired">>] = IF u = job[r] THEN audit[<<u, "expired">>] + 1
                                                 ELSE audit[<<u, "expired">>]
        BY <3>2
      <4> QED
        BY <4>1, <4>2, <4>3, <4>4, <4>5
    <3> QED
      BY <3>3, <3>4, <3>5 DEF AuditMatchesRecords
  <2>5. OnlyAuthorized'
    BY <1>6 DEF IInv, TypeOK, RequestInv, OnlyAuthorized, Expire, Log, Goto,
       clock
  <2> QED
    BY <2>1, <2>2, <2>3, <2>4, <2>5 DEF IInv
<1>7. ASSUME NEW r \in Requests, Close(r)
      PROVE  IInv'
  <2>1. TypeOK'
    BY <1>7 DEF IInv, TypeOK, Close, Log, Goto, clock
  <2>2. RequestInv'
    BY <1>7 DEF IInv, TypeOK, RequestInv, Close, Log, Goto, clock
  <2>3. ReadyHasTarget' /\ TargetInv'
    BY <1>7 DEF IInv, TypeOK, RequestInv, ReadyHasTarget, TargetInv,
       Registered, Close, Log, Goto,
       clock
  <2>4. AuditMatchesRecords'
    <3>1. job[r] \in Sessions /\ "closed" \in Events /\ Log(job[r], "closed")
      BY <1>7 DEF IInv, TypeOK, Close
    <3>2. \A u \in Sessions, f \in Events :
            audit'[<<u, f>>] = IF u = job[r] /\ f = "closed"
                               THEN audit[<<u, f>>] + 1 ELSE audit[<<u, f>>]
      BY <3>1, LogAdds DEF IInv, TypeOK
    <3>3. ASSUME NEW u \in Sessions, NEW k \in Kinds
          PROVE  audit'[<<u, k>>] = records'[<<u, k>>]
      <4>1. records' = records
        BY <1>7 DEF Close, clock
      <4>2. audit'[<<u, k>>] = audit[<<u, k>>]
        BY <3>2
      <4> QED
        BY <4>1, <4>2 DEF IInv, AuditMatchesRecords
    <3>4. ASSUME NEW u \in Sessions
          PROVE  audit'[<<u, "target">>] = IF target'[u] = "none" THEN 0 ELSE 1
      <4>1. audit'[<<u, "target">>] = audit[<<u, "target">>]
        BY <3>2
      <4>2. audit[<<u, "target">>] = IF target[u] = "none" THEN 0 ELSE 1
        BY DEF IInv, AuditMatchesRecords
      <4>3. target'[u] = "none" <=> target[u] = "none"
        BY <1>7 DEF IInv, TypeOK, RequestInv, Close, clock
      <4> QED
        BY <1>7, <4>1, <4>2, <4>3 DEF Close
    <3>5. ASSUME NEW u \in Sessions
          PROVE  /\ state'[u] = "completed" => audit'[<<u, "closed">>] > 0
                 /\ state'[u] = "expired" => audit'[<<u, "expired">>] > 0
      <4>1. /\ audit[<<u, "closed">>] \in Nat
            /\ audit[<<u, "expired">>] \in Nat
        BY DEF IInv, TypeOK
      <4>2. /\ state[u] = "completed" => audit[<<u, "closed">>] > 0
            /\ state[u] = "expired" => audit[<<u, "expired">>] > 0
        BY DEF IInv, AuditMatchesRecords
      <4>3. state'[u] = IF u = job[r] THEN "completed" ELSE state[u]
        BY <1>7 DEF IInv, TypeOK, Close
      <4>4. audit'[<<u, "closed">>] = IF u = job[r] THEN audit[<<u, "closed">>] + 1
                                                 ELSE audit[<<u, "closed">>]
        BY <3>2
      <4>5. audit'[<<u, "expired">>] = audit[<<u, "expired">>]
        BY <3>2
      <4> QED
        BY <4>1, <4>2, <4>3, <4>4, <4>5
    <3> QED
      BY <3>3, <3>4, <3>5 DEF AuditMatchesRecords
  <2>5. OnlyAuthorized'
    BY <1>7 DEF IInv, TypeOK, RequestInv, OnlyAuthorized, Close, Log, Goto,
       clock
  <2> QED
    BY <2>1, <2>2, <2>3, <2>4, <2>5 DEF IInv
<1>8. ASSUME NEW r \in Requests, AddTarget(r)
      PROVE  IInv'
  <2>1. TypeOK'
    BY <1>8 DEF IInv, TypeOK, AddTarget, Log, Goto, clock
  <2>2. RequestInv'
    BY <1>8 DEF IInv, TypeOK, RequestInv, AddTarget, Log, Goto, clock
  <2>3. ReadyHasTarget' /\ TargetInv'
    BY <1>8 DEF IInv, TypeOK, RequestInv, ReadyHasTarget, TargetInv,
       Registered, AddTarget, Log,
       Goto, clock
  <2>4. AuditMatchesRecords'
    <3>1. job[r] \in Sessions /\ "target" \in Events /\ Log(job[r], "target")
      BY <1>8 DEF IInv, TypeOK, AddTarget
    <3>2. \A u \in Sessions, f \in Events :
            audit'[<<u, f>>] = IF u = job[r] /\ f = "target"
                               THEN audit[<<u, f>>] + 1 ELSE audit[<<u, f>>]
      BY <3>1, LogAdds DEF IInv, TypeOK
    <3>3. ASSUME NEW u \in Sessions, NEW k \in Kinds
          PROVE  audit'[<<u, k>>] = records'[<<u, k>>]
      <4>1. records' = records
        BY <1>8 DEF AddTarget, clock
      <4>2. audit'[<<u, k>>] = audit[<<u, k>>]
        BY <3>2
      <4> QED
        BY <4>1, <4>2 DEF IInv, AuditMatchesRecords
    <3>4. ASSUME NEW u \in Sessions
          PROVE  audit'[<<u, "target">>] = IF target'[u] = "none" THEN 0 ELSE 1
      <4>1. audit'[<<u, "target">>] = IF u = job[r] THEN audit[<<u, "target">>] + 1
                                                ELSE audit[<<u, "target">>]
        BY <3>2
      <4>2. audit[<<u, "target">>] = IF target[u] = "none" THEN 0 ELSE 1
        BY DEF IInv, AuditMatchesRecords
      <4>3. target'[u] = "none" <=> target[u] = "none" /\ u # job[r]
        BY <1>8 DEF IInv, TypeOK, RequestInv, AddTarget, clock
      <4> QED
        BY <1>8, <4>1, <4>2, <4>3 DEF AddTarget
    <3>5. ASSUME NEW u \in Sessions
          PROVE  /\ state'[u] = "completed" => audit'[<<u, "closed">>] > 0
                 /\ state'[u] = "expired" => audit'[<<u, "expired">>] > 0
      <4>1. /\ audit[<<u, "closed">>] \in Nat
            /\ audit[<<u, "expired">>] \in Nat
        BY DEF IInv, TypeOK
      <4>2. /\ state[u] = "completed" => audit[<<u, "closed">>] > 0
            /\ state[u] = "expired" => audit[<<u, "expired">>] > 0
        BY DEF IInv, AuditMatchesRecords
      <4>3. state'[u] = state[u] \/ state'[u] = "ready"
        <5>1. CASE u = job[r]
          BY <1>8, <5>1 DEF IInv, TypeOK, AddTarget
        <5>2. CASE u # job[r]
          BY <1>8, <5>2 DEF IInv, TypeOK, AddTarget
        <5> QED
          BY <5>1, <5>2
      <4>4. audit'[<<u, "closed">>] = audit[<<u, "closed">>]
        BY <3>2
      <4>5. audit'[<<u, "expired">>] = audit[<<u, "expired">>]
        BY <3>2
      <4> QED
        BY <4>1, <4>2, <4>3, <4>4, <4>5
    <3> QED
      BY <3>3, <3>4, <3>5 DEF AuditMatchesRecords
  <2>5. OnlyAuthorized'
    BY <1>8 DEF IInv, TypeOK, RequestInv, OnlyAuthorized, AddTarget, Log,
       Goto, clock
  <2> QED
    BY <2>1, <2>2, <2>3, <2>4, <2>5 DEF IInv
<1>9. ASSUME NEW r \in Requests, AddLesson(r)
      PROVE  IInv'
  <2>1. TypeOK'
    BY <1>9 DEF IInv, TypeOK, AddLesson, Log, Add, Goto, clock
  <2>2. RequestInv'
    BY <1>9 DEF IInv, TypeOK, RequestInv, AddLesson, Log, Add, Goto, clock
  <2>3. ReadyHasTarget' /\ TargetInv'
    BY <1>9 DEF IInv, TypeOK, RequestInv, ReadyHasTarget, TargetInv,
       Registered, AddLesson, Log,
       Add, Goto, clock
  <2>4. AuditMatchesRecords'
    BY <1>9 DEF IInv, TypeOK, RequestInv, AuditMatchesRecords, AddLesson,
       Log, Add, Goto, clock
  <2>5. OnlyAuthorized'
    BY <1>9 DEF IInv, TypeOK, RequestInv, OnlyAuthorized, AddLesson, Log,
       Add, Goto, clock
  <2> QED
    BY <2>1, <2>2, <2>3, <2>4, <2>5 DEF IInv
<1>10. ASSUME NEW r \in Requests, Import(r)
      PROVE  IInv'
  <2>1. TypeOK'
    BY <1>10 DEF IInv, TypeOK, Import, Log, Add, Goto, clock
  <2>2. RequestInv'
    BY <1>10 DEF IInv, TypeOK, RequestInv, Import, Log, Add, Goto, clock
  <2>3. ReadyHasTarget' /\ TargetInv'
    BY <1>10 DEF IInv, TypeOK, RequestInv, ReadyHasTarget, TargetInv,
       Registered, Import, Log, Add,
       Goto, clock
  <2>4. AuditMatchesRecords'
    BY <1>10 DEF IInv, TypeOK, RequestInv, AuditMatchesRecords, Import, Log,
       Add, Goto, clock
  <2>5. OnlyAuthorized'
    BY <1>10 DEF IInv, TypeOK, RequestInv, OnlyAuthorized, Import, Log, Add,
       Goto, clock
  <2> QED
    BY <2>1, <2>2, <2>3, <2>4, <2>5 DEF IInv
<1>11. ASSUME NEW r \in Requests, Explain(r)
      PROVE  IInv'
  <2>1. TypeOK'
    BY <1>11 DEF IInv, TypeOK, Explain, Log, Goto, clock
  <2>2. RequestInv'
    BY <1>11 DEF IInv, TypeOK, RequestInv, Explain, Log, Goto, clock
  <2>3. ReadyHasTarget' /\ TargetInv'
    BY <1>11 DEF IInv, TypeOK, RequestInv, ReadyHasTarget, TargetInv,
       Registered, Explain, Log,
       Goto, clock
  <2>4. AuditMatchesRecords'
    BY <1>11 DEF IInv, TypeOK, RequestInv, AuditMatchesRecords, Explain,
       Log, Goto, clock
  <2>5. OnlyAuthorized'
    BY <1>11 DEF IInv, TypeOK, RequestInv, OnlyAuthorized, Explain, Log,
       Goto, clock
  <2> QED
    BY <2>1, <2>2, <2>3, <2>4, <2>5 DEF IInv
<1>12. ASSUME NEW r \in Requests, RejectRecommendation(r)
      PROVE  IInv'
  <2>1. TypeOK'
    BY <1>12 DEF IInv, TypeOK, RejectRecommendation, Log, Goto, clock
  <2>2. RequestInv'
    BY <1>12 DEF IInv, TypeOK, RequestInv, RejectRecommendation, Log, Goto,
       clock
  <2>3. ReadyHasTarget' /\ TargetInv'
    BY <1>12 DEF IInv, TypeOK, RequestInv, ReadyHasTarget, TargetInv,
       Registered,
       RejectRecommendation, Log, Goto, clock
  <2>4. AuditMatchesRecords'
    BY <1>12 DEF IInv, TypeOK, RequestInv, AuditMatchesRecords,
       RejectRecommendation, Log, Goto, clock
  <2>5. OnlyAuthorized'
    BY <1>12 DEF IInv, TypeOK, RequestInv, OnlyAuthorized,
       RejectRecommendation, Log, Goto, clock
  <2> QED
    BY <2>1, <2>2, <2>3, <2>4, <2>5 DEF IInv
<1>13. ASSUME NEW r \in Requests, NoRecommendation(r)
      PROVE  IInv'
  <2>1. TypeOK'
    <3>1. TypeOK
      BY DEF IInv
    <3>2. audit' \in [Sessions \X Events -> Nat]
      BY <1>13, <3>1 DEF TypeOK, NoRecommendation
    <3>3. pc' = [pc EXCEPT ![r] = "idle"]
      BY <1>13 DEF NoRecommendation, Goto
    <3> QED
      BY <1>13, <3>1, <3>2, <3>3 DEF TypeOK, NoRecommendation, clock
  <2>2. RequestInv'
    BY <1>13 DEF IInv, TypeOK, RequestInv, NoRecommendation, Goto, clock
  <2>3. ReadyHasTarget' /\ TargetInv'
    BY <1>13 DEF IInv, TypeOK, RequestInv, ReadyHasTarget, TargetInv,
       Registered, NoRecommendation,
       Goto, clock
  <2>4. AuditMatchesRecords'
    BY <1>13 DEF IInv, TypeOK, RequestInv, AuditMatchesRecords,
       NoRecommendation, Goto, clock
  <2>5. OnlyAuthorized'
    BY <1>13 DEF IInv, TypeOK, RequestInv, OnlyAuthorized, NoRecommendation,
       Goto, clock
  <2> QED
    BY <2>1, <2>2, <2>3, <2>4, <2>5 DEF IInv
<1>14. ASSUME NEW r \in Requests, NEW f \in BOOLEAN, Recommend(r, f)
      PROVE  IInv'
  <2>1. TypeOK'
    BY <1>14 DEF IInv, TypeOK, Recommend, Add, Goto, clock
  <2>2. RequestInv'
    BY <1>14 DEF IInv, TypeOK, RequestInv, Recommend, Add, Goto, clock
  <2>3. ReadyHasTarget' /\ TargetInv'
    BY <1>14 DEF IInv, TypeOK, RequestInv, ReadyHasTarget, TargetInv,
       Registered, Recommend, Add,
       Goto, clock
  <2>4. AuditMatchesRecords'
    BY <1>14 DEF IInv, TypeOK, RequestInv, AuditMatchesRecords, Recommend,
       Add, Goto, clock
  <2>5. OnlyAuthorized'
    BY <1>14 DEF IInv, TypeOK, RequestInv, OnlyAuthorized, Recommend, Add,
       Goto, clock
  <2> QED
    BY <2>1, <2>2, <2>3, <2>4, <2>5 DEF IInv
<1>15. ASSUME NEW r \in Requests, NEW s \in Sessions, Refresh(r, s)
      PROVE  IInv'
  <2>1. TypeOK'
    BY <1>15 DEF IInv, TypeOK, Refresh, Goto, Load, tables, clock
  <2>2. RequestInv'
    BY <1>15 DEF IInv, TypeOK, RequestInv, ReadyHasTarget, Refresh, Goto,
       Load, tables, clock
  <2>3. ReadyHasTarget' /\ TargetInv'
    BY <1>15 DEF IInv, TypeOK, RequestInv, ReadyHasTarget, TargetInv,
       Registered, Refresh, Goto,
       Load, tables, clock
  <2>4. AuditMatchesRecords'
    BY <1>15 DEF IInv, TypeOK, RequestInv, AuditMatchesRecords, Refresh,
       Goto, Load, tables, clock
  <2>5. OnlyAuthorized'
    BY <1>15 DEF IInv, TypeOK, RequestInv, OnlyAuthorized, Refresh, Goto,
       Load, tables, clock
  <2> QED
    BY <2>1, <2>2, <2>3, <2>4, <2>5 DEF IInv
<1>16. ASSUME NEW r \in Requests, NEW s \in Sessions, NEW o \in Routes, Begin(r, s, o)
      PROVE  IInv'
  <2>1. TypeOK'
    BY <1>16 DEF IInv, TypeOK, Begin, Goto, Load, tables, clock
  <2>2. RequestInv'
    BY <1>16 DEF IInv, TypeOK, RequestInv, ReadyHasTarget, Begin, Goto,
       Load, tables, clock
  <2>3. ReadyHasTarget' /\ TargetInv'
    BY <1>16 DEF IInv, TypeOK, RequestInv, ReadyHasTarget, TargetInv,
       Registered, Begin, Goto,
       Load, tables, clock
  <2>4. AuditMatchesRecords'
    BY <1>16 DEF IInv, TypeOK, RequestInv, AuditMatchesRecords, Begin, Goto,
       Load, tables, clock
  <2>5. OnlyAuthorized'
    BY <1>16 DEF IInv, TypeOK, RequestInv, OnlyAuthorized, Begin, Goto,
       Load, tables, clock
  <2> QED
    BY <2>1, <2>2, <2>3, <2>4, <2>5 DEF IInv
<1>17. CASE UNCHANGED vars
  <2>1. TypeOK' /\ RequestInv'
    BY <1>17 DEF IInv, TypeOK, RequestInv, vars
  <2>2. TargetInv' /\ ReadyHasTarget'
    BY <1>17 DEF IInv, TargetInv, Registered, ReadyHasTarget, vars
  <2>3. AuditMatchesRecords' /\ OnlyAuthorized'
    BY <1>17 DEF IInv, AuditMatchesRecords, OnlyAuthorized, vars
  <2> QED
    BY <2>1, <2>2, <2>3 DEF IInv
<1> QED
  BY <1>1, <1>2, <1>3, <1>4, <1>5, <1>6, <1>7, <1>8,
     <1>9, <1>10, <1>11, <1>12, <1>13, <1>14, <1>15, <1>16, <1>17
  DEF Next, Commit

\* The tables, the trail and what requests have read agree in every reachable
\* state.
THEOREM Invariance == Spec => []IInv
<1>1. Init => IInv
  BY Initially
<1>2. IInv /\ [Next]_vars => IInv'
  BY Step
<1> QED
  BY <1>1, <1>2, PTL DEF Spec

\* A ready session has a target.
THEOREM ReadyWithTarget == Spec => []ReadyHasTarget
<1>1. IInv => ReadyHasTarget
  BY DEF IInv
<1> QED
  BY <1>1, Invariance, PTL

\* The trail and the records agree, whatever write fails.
THEOREM TrailIsTrue == Spec => []AuditMatchesRecords
<1>1. IInv => AuditMatchesRecords
  BY DEF IInv
<1> QED
  BY <1>1, Invariance, PTL

\* No evidence without a confirmed authorization, no expiry before its time.
THEOREM AuthorizedOnly == Spec => []OnlyAuthorized
<1>1. IInv => OnlyAuthorized
  BY DEF IInv
<1> QED
  BY <1>1, Invariance, PTL

\* No commit brings a session back that had its target when it ended.
LEMMA OverStep ==
    IInv /\ [Next]_vars =>
      [\A s \in Sessions :
         target[s] # "none" /\ state[s] \in Ended => state'[s] \in Ended]_vars
<1> SUFFICES ASSUME IInv, Next, NEW s \in Sessions,
                    target[s] # "none", state[s] \in Ended
             PROVE  state'[s] \in Ended
  OBVIOUS
<1> USE DEF IInv, TypeOK
<1>1. ASSUME NEW u \in Sessions, Create(u)
      PROVE  state'[s] \in Ended
  BY <1>1 DEF Create, Log, request, clock
<1>2. ASSUME NEW u \in Sessions, SessionOverdue(u)
      PROVE  state'[s] \in Ended
  BY <1>2 DEF SessionOverdue, request, tables
<1>3. ASSUME NEW u \in Sessions, TargetLapses(u)
      PROVE  state'[s] \in Ended
  BY <1>3 DEF TargetLapses, request, tables
<1>4. ASSUME NEW r \in Requests, ReadTarget(r)
      PROVE  state'[s] \in Ended
  BY <1>4 DEF ReadTarget, Goto, TargetUsable, tables, clock
<1>5. ASSUME NEW r \in Requests, Abandon(r)
      PROVE  state'[s] \in Ended
  BY <1>5 DEF Abandon, Goto, tables, clock
<1>6. ASSUME NEW r \in Requests, Expire(r)
      PROVE  state'[s] \in Ended
  BY <1>6 DEF Expire, Log, Goto, clock
<1>7. ASSUME NEW r \in Requests, Close(r)
      PROVE  state'[s] \in Ended
  BY <1>7 DEF Close, Log, Goto, clock
<1>8. ASSUME NEW r \in Requests, AddTarget(r)
      PROVE  state'[s] \in Ended
  BY <1>8 DEF AddTarget, Log, Goto, clock
<1>9. ASSUME NEW r \in Requests, AddLesson(r)
      PROVE  state'[s] \in Ended
  BY <1>9 DEF AddLesson, Log, Add, Goto, clock
<1>10. ASSUME NEW r \in Requests, Import(r)
      PROVE  state'[s] \in Ended
  BY <1>10 DEF Import, Log, Add, Goto, clock
<1>11. ASSUME NEW r \in Requests, Explain(r)
      PROVE  state'[s] \in Ended
  BY <1>11 DEF Explain, Log, Goto, clock
<1>12. ASSUME NEW r \in Requests, RejectRecommendation(r)
      PROVE  state'[s] \in Ended
  BY <1>12 DEF RejectRecommendation, Log, Goto, clock
<1>13. ASSUME NEW r \in Requests, NoRecommendation(r)
      PROVE  state'[s] \in Ended
  BY <1>13 DEF NoRecommendation, Goto, clock
<1>14. ASSUME NEW r \in Requests, NEW f \in BOOLEAN, Recommend(r, f)
      PROVE  state'[s] \in Ended
  BY <1>14 DEF Recommend, Add, Goto, clock
<1>15. ASSUME NEW r \in Requests, NEW u \in Sessions, Refresh(r, u)
      PROVE  state'[s] \in Ended
  BY <1>15 DEF Refresh, Goto, Load, tables, clock
<1>16. ASSUME NEW r \in Requests, NEW u \in Sessions, NEW o \in Routes, Begin(r, u, o)
      PROVE  state'[s] \in Ended
  BY <1>16 DEF Begin, Goto, Load, tables, clock
<1> QED
  BY <1>1, <1>2, <1>3, <1>4, <1>5, <1>6, <1>7, <1>8,
     <1>9, <1>10, <1>11, <1>12, <1>13, <1>14, <1>15, <1>16
  DEF Next, Commit

\* A session that is over and has a target stays over, whatever a request that
\* read it before writes (close_session, active_session, add_target).
THEOREM OverStaysOver == Spec => OverWithTargetIsFinal
<1>1. IInv /\ [Next]_vars =>
        [\A s \in Sessions :
           target[s] # "none" /\ state[s] \in Ended => state'[s] \in Ended]_vars
  BY OverStep
<1> QED
  BY <1>1, Invariance, PTL DEF Spec, OverWithTargetIsFinal

-----------------------------------------------------------------------------
(* Refinement of SessionContract *)

\* What the contract sees of a session, and of its requests, does not change
\* where the row, the target and what the requests will write stay as they are.
LEMMA ContractKept ==
    ASSUME UNCHANGED <<ContractState, ContractLocked, overdue>>,
           UNCHANGED <<Closing, Blind, Expiring>>
    PROVE  UNCHANGED Contract!contract
BY DEF Contract!contract

\* Both rows keep what the contract sees of them.
LEMMA RowsKept ==
    ASSUME UNCHANGED <<state, target>>
    PROVE  UNCHANGED <<ContractState, ContractLocked>>
BY DEF ContractState, ContractLocked, Registered

\* A request that writes neither an end nor an expiry comes or goes unseen.
LEMMA QuietRequest ==
    ASSUME IInv, NEW r \in Requests, UNCHANGED <<state, target, overdue>>,
           ~WillLock(r), ~WillNotLock(r), ~WillExpire(r),
           ~WillLock(r)', ~WillNotLock(r)', ~WillExpire(r)',
           \A q \in Requests \ {r} :
              pc'[q] = pc[q] /\ job'[q] = job[q] /\ found'[q] = found[q]
    PROVE  UNCHANGED Contract!contract
<1>1. \A q \in Requests :
        /\ WillLock(q)' => WillLock(q) /\ job'[q] = job[q]
        /\ WillLock(q) => WillLock(q)' /\ job'[q] = job[q]
        /\ WillNotLock(q)' => WillNotLock(q) /\ job'[q] = job[q]
        /\ WillNotLock(q) => WillNotLock(q)' /\ job'[q] = job[q]
        /\ WillExpire(q)' => WillExpire(q) /\ job'[q] = job[q]
        /\ WillExpire(q) => WillExpire(q)' /\ job'[q] = job[q]
  BY DEF WillLock, WillNotLock, WillExpire
<1>2. UNCHANGED <<Closing, Blind, Expiring>>
  BY <1>1 DEF Closing, Blind, Expiring, Registered
<1> QED
  BY <1>2, RowsKept, ContractKept

\* A commit, a refusal or a failed write ends a request: whatever it would
\* have written for its session is no longer pending, unless another request
\* will write the same.
LEMMA RequestEnds ==
    ASSUME IInv, NEW r \in Requests, UNCHANGED <<job, found>>,
           pc' = [pc EXCEPT ![r] = "idle"],
           \A s \in Sessions : Registered(s)' <=> Registered(s)
    PROVE  /\ Closing' \in {Closing, Closing \ {job[r]}}
           /\ Blind' \in {Blind, Blind \ {job[r]}}
           /\ Expiring' \in {Expiring, Expiring \ {job[r]}}
           /\ ~WillLock(r) => Closing' = Closing
           /\ ~WillNotLock(r) => Blind' = Blind
           /\ ~WillExpire(r) => Expiring' = Expiring
<1>1. ~WillLock(r)' /\ ~WillNotLock(r)' /\ ~WillExpire(r)'
  BY DEF IInv, TypeOK, WillLock, WillNotLock, WillExpire
<1>2. \A q \in Requests \ {r} :
        /\ WillLock(q)' <=> WillLock(q)
        /\ WillNotLock(q)' <=> WillNotLock(q)
        /\ WillExpire(q)' <=> WillExpire(q)
  BY DEF IInv, TypeOK, WillLock, WillNotLock, WillExpire
<1>3. /\ Closing' \subseteq Closing /\ Closing \ {job[r]} \subseteq Closing'
      /\ ~WillLock(r) => Closing' = Closing
  BY <1>1, <1>2 DEF Closing
<1>4. /\ Blind' \subseteq Blind /\ Blind \ {job[r]} \subseteq Blind'
      /\ ~WillNotLock(r) => Blind' = Blind
  BY <1>1, <1>2 DEF Blind
<1>5. /\ Expiring' \subseteq Expiring /\ Expiring \ {job[r]} \subseteq Expiring'
      /\ ~WillExpire(r) => Expiring' = Expiring
  BY <1>1, <1>2 DEF Expiring
<1> QED
  BY <1>3, <1>4, <1>5

\* An expiry of a session that has its target is a CommitExpire.
LEMMA ExpireRefines ==
    ASSUME IInv, NEW r \in Requests, Expire(r)
    PROVE  [Contract!ContractNext]_(Contract!contract)
<1>1. /\ UNCHANGED <<job, found, target, overdue>>
      /\ pc' = [pc EXCEPT ![r] = "idle"] /\ job[r] \in Sessions
      /\ WillExpire(r) /\ ~WillLock(r) /\ ~WillNotLock(r)
  BY DEF IInv, TypeOK, Expire, Goto, clock, WillExpire, WillLock, WillNotLock
<1>2. \A s \in Sessions : Registered(s)' <=> Registered(s)
  BY <1>1 DEF Registered
<1>3. /\ Closing' = Closing /\ Blind' = Blind
      /\ Expiring' \in Contract!OneLess(Expiring, job[r])
  BY <1>1, <1>2, RequestEnds DEF Contract!OneLess
<1>4. UNCHANGED ContractLocked
  BY <1>1 DEF ContractLocked
<1>5. state' = [state EXCEPT ![job[r]] = "expired"]
  BY DEF Expire
<1>6. CASE Registered(job[r])
  <2>1. job[r] \in Expiring
    BY <1>1, <1>6 DEF Expiring
  <2>2. ContractState' = [ContractState EXCEPT ![job[r]] = "expired"]
    BY <1>1, <1>2, <1>5, <1>6 DEF IInv, TypeOK, ContractState
  <2>3. ContractState[job[r]] \in Contract!States
    BY <1>1, <1>6 DEF IInv, TargetInv, ContractState, Contract!States
  <2>4. Contract!CommitExpire(job[r])
    BY <1>1, <1>3, <1>4, <2>1, <2>2, <2>3
      DEF Contract!CommitExpire, Contract!Write
  <2> QED
    BY <1>1, <2>4 DEF Contract!ContractNext, Contract!RequestStep
<1>7. CASE ~Registered(job[r])
  <2>1. UNCHANGED ContractState
    BY <1>1, <1>2, <1>5, <1>7 DEF IInv, TypeOK, ContractState
  <2>2. Expiring' = Expiring
    BY <1>2, <1>3, <1>7 DEF Expiring, Contract!OneLess
  <2> QED
    BY <1>1, <1>3, <1>4, <2>1, <2>2, ContractKept
<1> QED
  BY <1>6, <1>7

\* A close locks the target where it found one; where the session got its
\* target later, it is a CommitBlindClose.
LEMMA CloseRefines ==
    ASSUME IInv, NEW r \in Requests, Close(r)
    PROVE  [Contract!ContractNext]_(Contract!contract)
<1>1. /\ UNCHANGED <<job, found, overdue>>
      /\ pc' = [pc EXCEPT ![r] = "idle"] /\ job[r] \in Sessions
      /\ ~WillExpire(r)
      /\ WillLock(r) <=> found[r]
      /\ WillNotLock(r) <=> ~found[r]
  BY DEF IInv, TypeOK, Close, Goto, clock, WillExpire, WillLock, WillNotLock
<1>2. found[r] => Registered(job[r])
  BY DEF IInv, RequestInv, Close, Registered
<1>3. \A s \in Sessions : Registered(s)' <=> Registered(s)
  BY <1>1, <1>2 DEF IInv, TypeOK, Close, Registered
<1>4. /\ Expiring' = Expiring
      /\ Closing' \in Contract!OneLess(Closing, job[r])
      /\ Blind' \in Contract!OneLess(Blind, job[r])
      /\ ~found[r] => Closing' = Closing
      /\ found[r] => Blind' = Blind
  BY <1>1, <1>3, RequestEnds DEF Contract!OneLess
<1>5. CASE Registered(job[r])
  <2>1. ContractState' = [ContractState EXCEPT ![job[r]] = "completed"]
    BY <1>1, <1>3, <1>5 DEF IInv, TypeOK, Close, ContractState
  <2>2. ContractState[job[r]] \in Contract!States
    BY <1>1, <1>5 DEF IInv, TargetInv, ContractState, Contract!States
  <2>3. CASE found[r]
    <3>1. ContractLocked' = [ContractLocked EXCEPT ![job[r]] = TRUE]
      BY <1>1, <2>3 DEF IInv, TypeOK, Close, ContractLocked
    <3>2. job[r] \in Closing
      BY <1>1, <1>5, <2>3 DEF Closing
    <3>3. Contract!CommitClose(job[r])
      BY <1>1, <1>4, <2>1, <2>2, <2>3, <3>1, <3>2
        DEF Contract!CommitClose, Contract!Write
    <3> QED
      BY <1>1, <3>3 DEF Contract!ContractNext, Contract!RequestStep
  <2>4. CASE ~found[r]
    <3>1. UNCHANGED ContractLocked
      BY <1>1, <2>4 DEF IInv, TypeOK, Close, ContractLocked
    <3>2. job[r] \in Blind
      BY <1>1, <1>5, <2>4 DEF Blind
    <3>3. Contract!CommitBlindClose(job[r])
      BY <1>1, <1>4, <2>1, <2>2, <2>4, <3>1, <3>2
        DEF Contract!CommitBlindClose, Contract!Write
    <3> QED
      BY <1>1, <3>3 DEF Contract!ContractNext, Contract!RequestStep
  <2> QED
    BY <2>3, <2>4
<1>6. CASE ~Registered(job[r])
  <2>1. UNCHANGED <<ContractState, ContractLocked>>
    BY <1>1, <1>2, <1>3, <1>6
      DEF IInv, TypeOK, Close, ContractState, ContractLocked
  <2>2. Closing' = Closing /\ Blind' = Blind
    BY <1>3, <1>4, <1>6 DEF Closing, Blind, Contract!OneLess
  <2> QED
    BY <1>1, <1>4, <2>1, <2>2, ContractKept
<1> QED
  BY <1>5, <1>6

\* The target of a session appears with the session ready.
LEMMA AddTargetRefines ==
    ASSUME IInv, NEW r \in Requests, AddTarget(r)
    PROVE  Contract!Register(job[r]) /\ job[r] \in Sessions
<1>1. /\ UNCHANGED <<job, found, overdue>>
      /\ pc[r] = "target" /\ pc' = [pc EXCEPT ![r] = "idle"]
      /\ job[r] \in Sessions /\ ~Registered(job[r])
  BY DEF IInv, TypeOK, AddTarget, Goto, clock, Registered
<1>2. /\ target' = [target EXCEPT ![job[r]] = "open"]
      /\ state' = [state EXCEPT ![job[r]] = "ready"]
  BY <1>1 DEF IInv, RequestInv, AddTarget, Registered
<1>3. \A s \in Sessions :
        Registered(s)' <=> Registered(s) \/ s = job[r]
  BY <1>1, <1>2 DEF IInv, TypeOK, Registered
<1>4. /\ ContractState[job[r]] = "preparing"
      /\ ContractState' = [ContractState EXCEPT ![job[r]] = "ready"]
  BY <1>1, <1>2, <1>3 DEF IInv, TypeOK, ContractState
<1>5. UNCHANGED ContractLocked
  BY <1>1, <1>2 DEF IInv, TypeOK, ContractLocked, Registered
<1>6. \A q \in Requests :
        /\ WillLock(q)' <=> WillLock(q)
        /\ WillNotLock(q)' <=> WillNotLock(q)
        /\ WillExpire(q)' <=> WillExpire(q)
  BY <1>1 DEF IInv, TypeOK, WillLock, WillNotLock, WillExpire
<1>7. /\ Closing' \in {Closing, Closing \cup {job[r]}}
      /\ Blind' \in {Blind, Blind \cup {job[r]}}
      /\ Expiring' \in {Expiring, Expiring \cup {job[r]}}
  <2>1. /\ Closing \subseteq Closing' /\ Closing' \subseteq Closing \cup {job[r]}
        /\ Blind \subseteq Blind' /\ Blind' \subseteq Blind \cup {job[r]}
        /\ Expiring \subseteq Expiring'
        /\ Expiring' \subseteq Expiring \cup {job[r]}
    BY <1>1, <1>3, <1>6 DEF Closing, Blind, Expiring
  <2> QED
    BY <2>1
<1>8. Expiring' = Expiring \/ (job[r] \in overdue /\ Expiring' = Expiring \cup {job[r]})
  <2>1. ASSUME job[r] \in Expiring', job[r] \notin Expiring
        PROVE  job[r] \in overdue
    BY <1>1, <1>6, <2>1 DEF IInv, RequestInv, WillExpire, Expiring
  <2> QED
    BY <1>7, <2>1
<1> QED
  BY <1>1, <1>4, <1>5, <1>7, <1>8 DEF Contract!Register, Contract!Write

\* A request that has only read: it will close, it will expire, or the
\* contract does not know of it.
LEMMA BeginRefines ==
    ASSUME IInv, NEW r \in Requests, NEW s \in Sessions, NEW route \in Routes,
           Begin(r, s, route) \/ Refresh(r, s)
    PROVE  [Contract!ContractNext]_(Contract!contract)
<1>1. /\ pc[r] = "idle" /\ UNCHANGED <<state, target, overdue>>
      /\ job' = [job EXCEPT ![r] = s] /\ state[s] \notin Ended
      /\ \/ s \in overdue /\ pc' = [pc EXCEPT ![r] = "expire"]
         \/ s \notin overdue /\ pc' = [pc EXCEPT ![r] = route]
      /\ \A q \in Requests \ {r} :
            pc'[q] = pc[q] /\ job'[q] = job[q] /\ found'[q] = found[q]
  BY DEF IInv, TypeOK, Begin, Refresh, Load, Goto, tables, clock
<1>2. ~WillLock(r) /\ ~WillNotLock(r) /\ ~WillExpire(r)
  BY <1>1 DEF WillLock, WillNotLock, WillExpire
<1>3. /\ WillLock(r)' <=> (s \notin overdue /\ route = "close")
      /\ ~WillNotLock(r)'
      /\ WillExpire(r)' <=> s \in overdue
      /\ job'[r] = s
  BY <1>1 DEF IInv, TypeOK, WillLock, WillNotLock, WillExpire
<1>4. \A q \in Requests \ {r} :
        /\ WillLock(q)' <=> WillLock(q)
        /\ WillNotLock(q)' <=> WillNotLock(q)
        /\ WillExpire(q)' <=> WillExpire(q)
  BY <1>1 DEF WillLock, WillNotLock, WillExpire
<1>5. \A u \in Sessions : Registered(u)' <=> Registered(u)
  BY <1>1 DEF Registered
<1>6. Blind' = Blind
  BY <1>1, <1>2, <1>3, <1>4, <1>5 DEF Blind
<1>7. Closing' = IF Registered(s) /\ s \notin overdue /\ route = "close"
                 THEN Closing \cup {s} ELSE Closing
  BY <1>1, <1>2, <1>3, <1>4, <1>5 DEF Closing
<1>8. Expiring' = IF Registered(s) /\ s \in overdue
                  THEN Expiring \cup {s} ELSE Expiring
  BY <1>1, <1>2, <1>3, <1>4, <1>5 DEF Expiring
<1>9. UNCHANGED <<ContractState, ContractLocked, overdue>>
  BY <1>1, RowsKept
<1>10. CASE Registered(s) /\ s \in overdue
  <2>1. ContractState[s] = "ready"
    BY <1>1, <1>10 DEF IInv, TargetInv, ContractState
  <2>2. Contract!BeginExpire(s)
    BY <1>6, <1>7, <1>8, <1>9, <1>10, <2>1 DEF Contract!BeginExpire
  <2> QED
    BY <2>2 DEF Contract!ContractNext, Contract!RequestStep
<1>11. CASE Registered(s) /\ s \notin overdue /\ route = "close"
  <2>1. ContractState[s] = "ready"
    BY <1>1, <1>11 DEF IInv, TargetInv, ContractState
  <2>2. Contract!BeginClose(s)
    BY <1>6, <1>7, <1>8, <1>9, <1>11, <2>1 DEF Contract!BeginClose
  <2> QED
    BY <2>2 DEF Contract!ContractNext, Contract!RequestStep
<1>12. CASE ~Registered(s) \/ (s \notin overdue /\ route # "close")
  BY <1>6, <1>7, <1>8, <1>9, <1>12, ContractKept
<1> QED
  BY <1>10, <1>11, <1>12

\* The query for the target settles whether a close will lock it; where there
\* is a target, it always will.
LEMMA ReadTargetRefines ==
    ASSUME IInv, NEW r \in Requests, ReadTarget(r)
    PROVE  UNCHANGED Contract!contract
<1>1. /\ UNCHANGED <<state, target, overdue, job>>
      /\ \A q \in Requests \ {r} : pc'[q] = pc[q] /\ found'[q] = found[q]
  BY DEF IInv, TypeOK, ReadTarget, Goto, tables, clock
<1>2. CASE pc[r] = "close"
  <2>1. /\ pc'[r] = "closing"
        /\ found'[r] <=> Registered(job[r])
        /\ Registered(job[r])' <=> Registered(job[r])
    BY <1>2 DEF IInv, TypeOK, ReadTarget, Goto, tables, Registered
  <2>2. /\ WillLock(r) /\ ~WillNotLock(r) /\ ~WillExpire(r)
        /\ WillLock(r)' <=> Registered(job[r])
        /\ WillNotLock(r)' <=> ~Registered(job[r])
        /\ ~WillExpire(r)'
    BY <1>2, <2>1 DEF WillLock, WillNotLock, WillExpire
  <2>3. \A q \in Requests \ {r} :
          /\ WillLock(q)' <=> WillLock(q)
          /\ WillNotLock(q)' <=> WillNotLock(q)
          /\ WillExpire(q)' <=> WillExpire(q)
    BY <1>1 DEF WillLock, WillNotLock, WillExpire
  <2>4. \A u \in Sessions : Registered(u)' <=> Registered(u)
    BY <1>1 DEF Registered
  <2>5. UNCHANGED <<Closing, Blind, Expiring>>
    BY <1>1, <2>2, <2>3, <2>4 DEF Closing, Blind, Expiring
  <2> QED
    BY <1>1, <2>5, RowsKept, ContractKept
<1>3. CASE pc[r] # "close"
  <2>1. /\ pc[r] \notin {"close", "closing", "expire"}
        /\ pc'[r] \notin {"close", "closing", "expire"}
    BY <1>3 DEF IInv, TypeOK, ReadTarget, Goto
  <2>2. /\ ~WillLock(r) /\ ~WillNotLock(r) /\ ~WillExpire(r)
        /\ ~WillLock(r)' /\ ~WillNotLock(r)' /\ ~WillExpire(r)'
    BY <2>1 DEF WillLock, WillNotLock, WillExpire
  <2> QED
    BY <1>1, <2>2, QuietRequest
<1> QED
  BY <1>2, <1>3

\* A request that ends without a commit takes what it would have written along.
LEMMA AbandonRefines ==
    ASSUME IInv, NEW r \in Requests, Abandon(r)
    PROVE  Contract!Abandon
<1>1. /\ UNCHANGED <<state, target, overdue, job, found>>
      /\ pc' = [pc EXCEPT ![r] = "idle"]
      /\ \A u \in Sessions : Registered(u)' <=> Registered(u)
  BY DEF Abandon, Goto, tables, clock, Registered
<1>2. /\ Closing' \in SUBSET Closing /\ Blind' \in SUBSET Blind
      /\ Expiring' \in SUBSET Expiring
  BY <1>1, RequestEnds
<1> QED
  BY <1>1, <1>2, RowsKept DEF Contract!Abandon

\* The commits of the other routes touch neither the session nor its target.
LEMMA OtherCommitsStutter ==
    ASSUME IInv, NEW r \in Requests,
           \/ AddLesson(r) \/ Import(r) \/ Explain(r)
           \/ RejectRecommendation(r) \/ NoRecommendation(r)
           \/ \E fallback \in BOOLEAN : Recommend(r, fallback)
    PROVE  UNCHANGED Contract!contract
<1>1. /\ UNCHANGED <<state, target, overdue, job, found>>
      /\ pc[r] \notin {"close", "closing", "expire"}
      /\ pc' = [pc EXCEPT ![r] = "idle"]
  BY DEF AddLesson, Import, Explain, RejectRecommendation, NoRecommendation,
     Recommend, Goto, clock
<1>2. /\ ~WillLock(r) /\ ~WillNotLock(r) /\ ~WillExpire(r)
      /\ ~WillLock(r)' /\ ~WillNotLock(r)' /\ ~WillExpire(r)'
      /\ \A q \in Requests \ {r} :
            pc'[q] = pc[q] /\ job'[q] = job[q] /\ found'[q] = found[q]
  BY <1>1 DEF IInv, TypeOK, WillLock, WillNotLock, WillExpire
<1> QED
  BY <1>1, <1>2, QuietRequest

\* A new session is not the contract's yet; time passes for every session.
LEMMA OutsideRefines ==
    ASSUME IInv, NEW s \in Sessions,
           Create(s) \/ SessionOverdue(s) \/ TargetLapses(s)
    PROVE  [Contract!ContractNext]_(Contract!contract)
<1>1. UNCHANGED <<target, pc, job, found>>
  BY DEF Create, SessionOverdue, TargetLapses, request, tables
<1>2. UNCHANGED <<Closing, Blind, Expiring, ContractLocked>>
  BY <1>1 DEF Closing, Blind, Expiring, ContractLocked, Registered, WillLock,
     WillNotLock, WillExpire
<1>3. UNCHANGED ContractState
  <2>1. \A u \in Sessions : Registered(u) => state'[u] = state[u]
    BY DEF IInv, TypeOK, TargetInv, Create, SessionOverdue, TargetLapses, tables
  <2> QED
    BY <1>1, <2>1 DEF ContractState, Registered
<1>4. overdue' \in SUBSET Sessions /\ overdue \subseteq overdue'
  BY DEF IInv, TypeOK, Create, SessionOverdue, TargetLapses, clock
<1>5. Contract!TimePasses
  BY <1>2, <1>3, <1>4 DEF Contract!TimePasses
<1> QED
  BY <1>5 DEF Contract!ContractNext

\* Every step of the routes is a step the contract allows, or none it sees.
LEMMA NextRefines ==
    IInv /\ [Next]_vars => [Contract!ContractNext]_(Contract!contract)
<1> SUFFICES ASSUME IInv, [Next]_vars
             PROVE  [Contract!ContractNext]_(Contract!contract)
  OBVIOUS
<1>1. ASSUME NEW s \in Sessions,
             Create(s) \/ SessionOverdue(s) \/ TargetLapses(s)
      PROVE  [Contract!ContractNext]_(Contract!contract)
  BY <1>1, OutsideRefines
<1>2. ASSUME NEW r \in Requests, ReadTarget(r) \/ Abandon(r)
      PROVE  [Contract!ContractNext]_(Contract!contract)
  BY <1>2, ReadTargetRefines, AbandonRefines DEF Contract!ContractNext
<1>3. ASSUME NEW r \in Requests, Commit(r)
      PROVE  [Contract!ContractNext]_(Contract!contract)
  <2>1. CASE Expire(r) \/ Close(r)
    BY <2>1, ExpireRefines, CloseRefines
  <2>2. CASE AddTarget(r)
    BY <2>2, AddTargetRefines DEF Contract!ContractNext
  <2> QED
    BY <1>3, <2>1, <2>2, OtherCommitsStutter DEF Commit
<1>4. ASSUME NEW r \in Requests, NEW s \in Sessions, NEW route \in Routes,
             Begin(r, s, route) \/ Refresh(r, s)
      PROVE  [Contract!ContractNext]_(Contract!contract)
  BY <1>4, BeginRefines
<1>5. CASE UNCHANGED vars
  <2>1. UNCHANGED <<Closing, Blind, Expiring>>
    BY <1>5 DEF vars, Closing, Blind, Expiring, Registered, WillLock,
       WillNotLock, WillExpire
  <2> QED
    BY <1>5, <2>1, RowsKept, ContractKept DEF vars
<1> QED
  BY <1>1, <1>2, <1>3, <1>4, <1>5 DEF Next

\* No session has a target at first.
LEMMA InitRefines == Init => Contract!ContractInit
<1> SUFFICES ASSUME Init PROVE Contract!ContractInit
  OBVIOUS
<1>1. \A s \in Sessions : ~Registered(s)
  BY DEF Init, Registered
<1>2. Closing = {} /\ Blind = {} /\ Expiring = {}
  BY <1>1 DEF Closing, Blind, Expiring
<1>3. ContractState = [s \in Sessions |-> "preparing"]
  BY <1>1 DEF ContractState
<1>4. ContractLocked = [s \in Sessions |-> FALSE]
  BY DEF Init, ContractLocked
<1> QED
  BY <1>2, <1>3, <1>4 DEF Init, Contract!ContractInit

\* The routes of session_api.py keep the contract the other modules rely on,
\* for any number of sessions and requests.
THEOREM Refinement == Spec => ImplementsContract
<1> QED
  BY InitRefines, NextRefines, Invariance, PTL
    DEF Spec, ImplementsContract, Contract!ContractSpec
=============================================================================
