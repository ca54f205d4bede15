----------------------- MODULE ProposalPipelineProofs -----------------------
(* Theorems about ProposalPipeline, for any exports, answers, outputs and    *)
(* limits.                                                                   *)
EXTENDS ProposalPipeline, TLAPS

-----------------------------------------------------------------------------
(* The validators *)

\* The registry's answer depends on the available findings only by inclusion.
LEMMA RegisteredMore ==
    ASSUME NEW s, NEW less, NEW more, less \subseteq more, Registered(s, less)
    PROVE  Registered(s, more)
BY DEF Registered

\* Dumping changes nothing but a missing timeout, and nothing the second time.
LEMMA DumpedFields ==
    ASSUME NEW s
    PROVE  /\ Dumped(s).action_name = s.action_name
           /\ Dumped(s).finding_ids = s.finding_ids
           /\ Dumped(s).arguments =
                IF /\ s.action_name = "check_tcp_connection"
                   /\ s.arguments.timeout_seconds = Absent
                THEN WithTimeout(s.arguments, 5) ELSE s.arguments
BY DEF Dumped

LEMMA DumpedPort ==
    ASSUME NEW s
    PROVE  Dumped(s).arguments.port = s.arguments.port
<1>1. WithTimeout(s.arguments, 5).port = s.arguments.port
  BY DEF WithTimeout
<1> QED BY <1>1, DumpedFields

LEMMA DumpedTwice ==
    ASSUME NEW s
    PROVE  Dumped(Dumped(s)) = Dumped(s)
<1>1. CASE /\ s.action_name = "check_tcp_connection"
           /\ s.arguments.timeout_seconds = Absent
  <2>1. Dumped(s) = [action_name |-> s.action_name,
                     finding_ids |-> s.finding_ids,
                     arguments |-> WithTimeout(s.arguments, 5)]
    BY <1>1 DEF Dumped
  <2>2. Dumped(s).arguments.timeout_seconds # Absent
    BY <2>1 DEF WithTimeout, Absent
  <2> QED BY <2>1, <2>2 DEF Dumped
<1>2. CASE ~(/\ s.action_name = "check_tcp_connection"
             /\ s.arguments.timeout_seconds = Absent)
  <2>1. Dumped(s) = [action_name |-> s.action_name,
                     finding_ids |-> s.finding_ids,
                     arguments |-> s.arguments]
    BY <1>2 DEF Dumped
  <2> QED BY <1>2, <2>1 DEF Dumped
<1> QED BY <1>1, <1>2

LEMMA DumpedRegistered ==
    ASSUME NEW s, NEW ctx, Registered(s, ctx)
    PROVE  Registered(Dumped(s), ctx)
<1>1. CASE /\ s.action_name = "check_tcp_connection"
           /\ s.arguments.timeout_seconds = Absent
  <2> DEFINE a == WithTimeout(s.arguments, 5)
  <2>1. /\ a.target_id = s.arguments.target_id
        /\ a.port = s.arguments.port
        /\ a.extra = s.arguments.extra
        /\ a.timeout_seconds = 5
    BY DEF WithTimeout
  <2>2. Dumped(s).arguments = a
    BY <1>1, DumpedFields
  <2> HIDE DEF a
  <2>3. Dumped(s).arguments.timeout_seconds \in 1..10
    BY <2>1, <2>2
  <2> QED BY <1>1, <2>1, <2>2, <2>3, DumpedFields DEF Registered
<1>2. CASE ~(/\ s.action_name = "check_tcp_connection"
             /\ s.arguments.timeout_seconds = Absent)
  BY <1>2, DumpedFields DEF Registered
<1> QED BY <1>1, <1>2

\* A rule's step for a finding with a valid port passes every validator.
LEMMA RuleStepAdoptable ==
    ASSUME NEW ctx, NEW f \in ctx, f.hint \in Services, f.port \in ValidPorts
    PROVE  Adoptable(RuleStep(f), ctx)
<1>1. ServiceAction(f.hint) \in Actions
  BY DEF ServiceAction, Services, Actions
<1>2. ServiceAction(f.hint) # "none"
  BY DEF ServiceAction, Services
<1>3. /\ RuleStep(f).kind = "action"
      /\ RuleStep(f).finding_ids = {f}
      /\ RuleStep(f).action_name = ServiceAction(f.hint)
      /\ RuleStep(f).arguments = ToTarget(f.port)
      /\ RuleStep(f).evidence_needed = FALSE
  BY DEF RuleStep
<1>4. /\ ToTarget(f.port).target_id = "ours"
      /\ ToTarget(f.port).port = f.port
      /\ ToTarget(f.port).timeout_seconds = Absent
      /\ ToTarget(f.port).extra = FALSE
  BY DEF ToTarget
<1>5. f.port \in {g.port : g \in {f}}
  OBVIOUS
<1>6. StepValid(RuleStep(f), ctx)
  <2>1. WellFormed(RuleStep(f))
    BY <1>2, <1>3 DEF WellFormed
  <2>2. ArgumentsValid(RuleStep(f))
    BY <1>3, <1>4, <1>5 DEF ArgumentsValid
  <2> QED BY <1>1, <1>3, <2>1, <2>2 DEF StepValid
<1>7. Registered(RuleStep(f), ctx)
  BY <1>1, <1>3, <1>4 DEF Registered
<1> QED BY <1>3, <1>6, <1>7 DEF Adoptable

\* The checks take what is in the format, up to the port, and nothing that is
\* not in it once every field is written out.
LEMMA FormatLemma ==
    ASSUME NEW ctx, \A f \in ctx : f.port \in ValidPorts, NEW s
    PROVE  /\ \A missing :
                Offered(s, missing, ctx) /\ CitesItsPort(s) => StepValid(s, ctx)
           /\ StepValid(s, ctx) => Offered(s, {}, ctx) /\ CitesItsPort(s)
<1>0. SUFFICES StepValid(s, ctx) <=> Offered(s, {}, ctx) /\ CitesItsPort(s)
  BY DEF Offered
<1>. USE DEF CitesItsPort
<1>1. CASE s.kind = "action"
  <2>1. ASSUME StepValid(s, ctx)
        PROVE  /\ Offered(s, {}, ctx)
               /\ s.arguments.port \in {f.port : f \in s.finding_ids}
    <3>1. /\ s.finding_ids # {} /\ ~s.evidence_needed
          /\ s.finding_ids \subseteq ctx
          /\ s.action_name \in Actions /\ ArgumentsValid(s)
      BY <1>1, <2>1 DEF StepValid, WellFormed
    <3>2. s.arguments.port \in {f.port : f \in s.finding_ids}
      BY <3>1 DEF ArgumentsValid
    <3>3. s.arguments.port \in {f.port : f \in ctx}
      BY <3>1, <3>2
    <3> QED BY <1>1, <3>1, <3>2, <3>3 DEF Offered, ArgumentsValid
  <2>2. ASSUME Offered(s, {}, ctx),
               s.arguments.port \in {f.port : f \in s.finding_ids}
        PROVE  StepValid(s, ctx)
    <3>1. /\ s.finding_ids # {} /\ ~s.evidence_needed
          /\ s.finding_ids \subseteq ctx
          /\ s.action_name \in Actions /\ ~s.arguments.extra
          /\ s.arguments.target_id = "ours"
          /\ s.arguments.timeout_seconds = Absent
             \/ /\ s.action_name = "check_tcp_connection"
                /\ s.arguments.timeout_seconds \in 1..10
      BY <1>1, <2>2 DEF Offered
    <3>2. s.arguments.port \in ValidPorts
      BY <2>2, <3>1
    <3>3. s.action_name # "none"
      BY <3>1 DEF Actions
    <3>4. s.arguments.timeout_seconds # Absent =>
            s.action_name = "check_tcp_connection"
      BY <3>1
    <3>5. ArgumentsValid(s)
      BY <2>2, <3>1, <3>2, <3>4 DEF ArgumentsValid
    <3> QED BY <1>1, <3>1, <3>3, <3>5 DEF StepValid, WellFormed
  <2> QED BY <1>1, <2>1, <2>2
<1>2. CASE s.kind = "more_evidence"
  <2>1. NoArguments.extra = FALSE
    BY DEF NoArguments
  <2> QED BY <1>2, <2>1 DEF StepValid, WellFormed, Offered
<1>3. CASE s.kind # "action" /\ s.kind # "more_evidence"
  BY <1>3 DEF StepValid, WellFormed, Offered
<1> QED BY <1>1, <1>2, <1>3

-----------------------------------------------------------------------------
(* The inductive invariant *)

\* What is stored of a proposal keeps its invariant while findings are added.
LEMMA LocalKept ==
    ASSUME NEW p, Local(p), findings \subseteq findings',
           context'[p] = context[p], row'[p] = row[p], pc'[p] = pc[p],
           sent'[p] = sent[p]
    PROVE  Local(p)'
<1>1. Registered(row[p], findings) => Registered(row[p], findings')
  BY DEF Registered
<1> QED BY <1>1 DEF Local

\* An adopted step is stored as a proposal that stays valid.
LEMMA StoreLocal ==
    ASSUME IInv, NEW p \in Proposals, pc[p] = "asking", NEW s, Store(p, s),
           UNCHANGED <<scan, context, attempt, run>>
    PROVE  IInv'
<1>1. /\ p \in DOMAIN pc /\ p \in DOMAIN row
      /\ DOMAIN row = Proposals
      /\ pc \in [Proposals -> {"idle", "asking", "refused", "error"} \cup Decided]
  BY DEF IInv, TypeOK
<1>2. UNCHANGED <<address, imports, findings, context, attempt, sent, printed,
                  evidence, reply>>
  BY DEF scan, run
<1>3. pc' = [pc EXCEPT ![p] = IF Adoptable(s, context[p]) THEN "proposed"
                                ELSE "refused"]
  BY DEF Store
<1>4. row' = [row EXCEPT ![p] = IF Adoptable(s, context[p]) THEN Dumped(s)
                                  ELSE NoRow]
  BY DEF Store
<1>5. TypeOK'
  <2>1. pc' \in [Proposals -> {"idle", "asking", "refused", "error"} \cup Decided]
    BY <1>1, <1>3 DEF Decided
  <2>2. DOMAIN row' = Proposals
    BY <1>1, <1>4
  <2> QED BY <1>2, <2>1, <2>2 DEF IInv, TypeOK
<1>6. ASSUME NEW q \in Proposals, q # p
      PROVE  Local(q)'
  <2>1. pc'[q] = pc[q]
    BY <1>1, <1>3, <1>6
  <2>2. row'[q] = row[q]
    BY <1>1, <1>4, <1>6
  <2> QED BY <1>2, <2>1, <2>2, LocalKept DEF IInv
<1>7. Local(p)'
  <2>1. Local(p)
    BY DEF IInv
  <2>2. sent[p] = NoCommand
    BY <2>1 DEF Local
  <2>3. CASE Adoptable(s, context[p])
    <3>1. pc'[p] = "proposed"
      BY <1>1, <1>3, <2>3
    <3>2. row'[p] = Dumped(s)
      BY <1>1, <1>4, <2>3
    <3>3. Registered(s, context[p]) /\ ArgumentsValid(s)
      BY <2>3 DEF Adoptable, StepValid
    <3>4. Registered(Dumped(s), findings)
      BY <2>1, <3>3, DumpedRegistered, RegisteredMore DEF Local
    <3>5. Dumped(s).arguments.port \in {f.port : f \in Dumped(s).finding_ids}
      BY <3>3, DumpedPort, DumpedFields DEF ArgumentsValid
    <3> QED BY <1>2, <2>1, <2>2, <3>1, <3>2, <3>4, <3>5, DumpedTwice DEF Local
  <2>4. CASE ~Adoptable(s, context[p])
    <3>1. pc'[p] = "refused"
      BY <1>1, <1>3, <2>4
    <3> QED BY <1>2, <2>1, <2>2, <3>1 DEF Local, Decided
  <2> QED BY <2>3, <2>4
<1> QED BY <1>5, <1>6, <1>7 DEF IInv

\* Whoever answered, what the provider does is to store a step, to put the
\* question again, or to leave nothing but a refusal.
LEMMA SettleStores ==
    ASSUME NEW p, NEW s, Settle(p, s)
    PROVE  /\ \E r : Store(p, r)
           /\ UNCHANGED <<scan, context, attempt, run>>
BY DEF Settle

\* A step that leaves the proposals, the requests and the commands alone, but
\* for the pc of p, which changes within the stage.
LEMMA MoveLocal ==
    ASSUME IInv, NEW p \in Proposals, NEW v,
           v \in {"idle", "asking", "refused", "error"} \cup Decided,
           pc' = [pc EXCEPT ![p] = v],
           v \in Decided => pc[p] \in Decided,
           v # "running",
           sent[p] # NoCommand => v = "done",
           UNCHANGED <<scan, context, attempt, row, sent>>,
           DOMAIN printed' = Proposals, DOMAIN evidence' = Proposals,
           DOMAIN reply' = Proposals
    PROVE  IInv'
<1>1. pc \in [Proposals -> {"idle", "asking", "refused", "error"} \cup Decided]
  BY DEF IInv, TypeOK
<1>2. UNCHANGED <<address, imports, findings, context, attempt, row, sent>>
  BY DEF scan
<1>3. pc' \in [Proposals -> {"idle", "asking", "refused", "error"} \cup Decided]
  BY <1>1
<1>4. TypeOK'
  BY <1>2, <1>3 DEF IInv, TypeOK
<1>5. ASSUME NEW q \in Proposals, q # p
      PROVE  Local(q)'
  <2>1. pc'[q] = pc[q]
    BY <1>1, <1>5
  <2> QED BY <1>2, <2>1, LocalKept DEF IInv
<1>6. Local(p)'
  <2>1. pc'[p] = v
    BY <1>1
  <2>2. Local(p)
    BY DEF IInv
  <2> QED BY <1>2, <2>1, <2>2 DEF Local
<1> QED BY <1>4, <1>5, <1>6 DEF IInv

\* The inductive invariant holds in every reachable state.
THEOREM Invariance == Spec => []IInv
<1>1. ASSUME Init
      PROVE  IInv
  <2>1. TypeOK
    <3>1. pc \in [Proposals ->
             {"idle", "asking", "refused", "error"} \cup Decided]
      BY <1>1 DEF Init
    <3>2. attempt \in [Proposals -> 0..Retries + 1]
      BY <1>1, RetryAssumption DEF Init
    <3>3. imports \in 0..MaxImports
      BY <1>1, RetryAssumption DEF Init
    <3> QED BY <1>1, <3>1, <3>2, <3>3 DEF Init, TypeOK
  <2>2. ASSUME NEW p \in Proposals
        PROVE  Local(p)
    BY <1>1 DEF Init, Local, Decided
  <2> QED BY <2>1, <2>2 DEF IInv
<1>2. ASSUME IInv, [Next]_vars
      PROVE  IInv'
  <2>1. ASSUME NEW export \in Exports, Import(export)
        PROVE  IInv'
    <3> DEFINE new == Parsed(export, imports + 1)
    <3>1. \A f \in new : f.port \in ValidPorts
      BY DEF Parsed
    <3>2. findings' = findings \cup new
      BY <2>1 DEF Import
    <3>3. imports' \in 0..MaxImports
      BY <1>2, <2>1, RetryAssumption DEF Import, IInv, TypeOK
    <3>4. UNCHANGED <<address, pc, context, attempt, row, sent, printed,
                      evidence, reply>>
      BY <2>1 DEF Import, run
    <3> HIDE DEF new
    <3>5. \A f \in findings' : f.port \in ValidPorts
      BY <1>2, <3>1, <3>2 DEF IInv, TypeOK
    <3>6. TypeOK'
      BY <1>2, <3>3, <3>4, <3>5 DEF IInv, TypeOK
    <3>7. ASSUME NEW p \in Proposals
          PROVE  Local(p)'
      BY <1>2, <3>2, <3>4, LocalKept DEF IInv
    <3> QED BY <3>6, <3>7 DEF IInv
  <2>2. ASSUME NEW p \in Proposals, Ask(p)
        PROVE  IInv'
    <3>1. pc[p] \notin Decided /\ Local(p)
      BY <1>2, <2>2 DEF Ask, Decided, IInv
    <3>2. sent[p] = NoCommand
      BY <3>1 DEF Local, Decided
    <3>3. UNCHANGED <<scan, row, sent, printed, evidence, reply>>
      BY <2>2 DEF Ask, run
    <3>4. CASE \E f \in findings : f.hint = "overlong"
      <4>1. pc' = [pc EXCEPT ![p] = "error"] /\ UNCHANGED <<context, attempt>>
        BY <2>2, <3>4 DEF Ask
      <4> QED BY <1>2, <3>2, <3>3, <4>1, MoveLocal DEF Decided, IInv, TypeOK
    <3>5. CASE ~\E f \in findings : f.hint = "overlong"
      <4>1. /\ pc' = [pc EXCEPT ![p] = "asking"]
            /\ context' = [context EXCEPT ![p] = findings]
            /\ attempt' = [attempt EXCEPT ![p] = 1]
        BY <2>2, <3>5 DEF Ask
      <4>2. /\ pc \in [Proposals ->
                 {"idle", "asking", "refused", "error"} \cup Decided]
            /\ attempt \in [Proposals -> 0..Retries + 1]
            /\ DOMAIN context = Proposals
        BY <1>2 DEF IInv, TypeOK
      <4>3. UNCHANGED <<address, imports, findings>>
        BY <3>3 DEF scan
      <4>4. pc' \in [Proposals ->
               {"idle", "asking", "refused", "error"} \cup Decided]
        BY <4>1, <4>2
      <4>5. 1 \in 0..Retries + 1
        BY RetryAssumption
      <4>6. attempt' \in [Proposals -> 0..Retries + 1]
        BY <4>1, <4>2, <4>5
      <4>7. DOMAIN context' = Proposals
        BY <4>1, <4>2
      <4>8. TypeOK'
        BY <1>2, <3>3, <4>3, <4>4, <4>6, <4>7 DEF IInv, TypeOK
      <4>9. ASSUME NEW q \in Proposals, q # p
            PROVE  Local(q)'
        <5>1. pc'[q] = pc[q] /\ context'[q] = context[q]
          BY <4>1, <4>2, <4>9
        <5> QED BY <1>2, <3>3, <4>3, <5>1, LocalKept DEF IInv
      <4>10. Local(p)'
        <5>1. pc'[p] = "asking" /\ context'[p] = findings
          BY <4>1, <4>2
        <5> QED BY <3>2, <3>3, <4>3, <5>1 DEF Local, Decided
      <4> QED BY <4>8, <4>9, <4>10 DEF IInv
    <3> QED BY <3>4, <3>5
  <2>3. ASSUME NEW p \in Proposals, pc[p] = "asking", NEW s, Settle(p, s)
        PROVE  IInv'
    BY <1>2, <2>3, SettleStores, StoreLocal
  <2>4. ASSUME NEW p \in Proposals, NEW a, Answer(p, a)
        PROVE  IInv'
    <3>1. pc[p] = "asking"
      BY <2>4 DEF Answer
    <3>2. CASE \E r : Settle(p, r)
      BY <2>3, <3>1, <3>2
    <3>3. CASE /\ attempt[p] < Retries + 1
               /\ attempt' = [attempt EXCEPT ![p] = @ + 1]
               /\ UNCHANGED <<scan, pc, context, row, run>>
      <4>1. UNCHANGED <<address, imports, findings, pc, context, row, sent,
                        printed, evidence, reply>>
        BY <3>3 DEF scan, run
      <4>2. attempt \in [Proposals -> 0..Retries + 1]
        BY <1>2 DEF IInv, TypeOK
      <4>3. attempt[p] + 1 \in 0..Retries + 1
        BY <3>3, <4>2, RetryAssumption
      <4>4. attempt' \in [Proposals -> 0..Retries + 1]
        BY <3>3, <4>2, <4>3
      <4>5. TypeOK'
        BY <1>2, <4>1, <4>4 DEF IInv, TypeOK
      <4>6. ASSUME NEW q \in Proposals
            PROVE  Local(q)'
        BY <1>2, <4>1, LocalKept DEF IInv
      <4> QED BY <4>5, <4>6 DEF IInv
    <3> QED BY <2>4, <3>2, <3>3 DEF Answer
  <2>5. ASSUME NEW p \in Proposals, Unavailable(p)
        PROVE  IInv'
    BY <2>3, <2>5 DEF Unavailable
  <2>6. ASSUME NEW p \in Proposals, Approve(p)
        PROVE  IInv'
    <3>1. Local(p)
      BY <1>2 DEF IInv
    <3>2. /\ pc[p] = "proposed" /\ pc' = [pc EXCEPT ![p] = "approved"]
          /\ UNCHANGED <<scan, context, attempt, row, sent, printed, evidence,
                         reply>>
      BY <2>6 DEF Approve, run
    <3>3. sent[p] = NoCommand
      BY <3>1, <3>2 DEF Local
    <3> QED BY <1>2, <3>2, <3>3, MoveLocal DEF Decided, IInv, TypeOK
  <2>7. ASSUME NEW p \in Proposals, Dispatch(p)
        PROVE  IInv'
    <3>1. Local(p) /\ pc[p] = "approved"
      BY <1>2, <2>7 DEF IInv, Dispatch
    <3>2. Dumped(row[p]) = row[p] /\ sent[p] = NoCommand
      BY <3>1 DEF Local, Decided
    <3>3. UNCHANGED <<scan, context, attempt, row, printed>>
      BY <2>7 DEF Dispatch
    <3>4. CASE Renders(row[p], address)
      <4>1. /\ sent' = [sent EXCEPT ![p] = Rendered(row[p])]
            /\ pc' = [pc EXCEPT ![p] = "running"]
            /\ UNCHANGED <<evidence, reply>>
        BY <2>7, <3>2, <3>4 DEF Dispatch
      <4>2. /\ pc \in [Proposals ->
                 {"idle", "asking", "refused", "error"} \cup Decided]
            /\ DOMAIN sent = Proposals
        BY <1>2 DEF IInv, TypeOK
      <4>3. UNCHANGED <<address, imports, findings>>
        BY <3>3 DEF scan
      <4>4. pc' \in [Proposals ->
               {"idle", "asking", "refused", "error"} \cup Decided]
        BY <4>1, <4>2 DEF Decided
      <4>5. DOMAIN sent' = Proposals
        BY <4>1, <4>2
      <4>6. TypeOK'
        BY <1>2, <3>3, <4>1, <4>3, <4>4, <4>5 DEF IInv, TypeOK
      <4>7. ASSUME NEW q \in Proposals, q # p
            PROVE  Local(q)'
        <5>1. pc'[q] = pc[q] /\ sent'[q] = sent[q]
          BY <4>1, <4>2, <4>7
        <5> QED BY <1>2, <3>3, <4>3, <5>1, LocalKept DEF IInv
      <4>8. Local(p)'
        <5>1. pc'[p] = "running" /\ sent'[p] = Rendered(row[p])
          BY <4>1, <4>2
        <5>2. Rendered(row[p]) # NoCommand
          <6>1. Rendered(row[p]).action_name \in Actions
            BY <3>4 DEF Renders, Rendered
          <6>2. NoCommand.action_name = "none"
            BY DEF NoCommand
          <6> QED BY <6>1, <6>2 DEF Actions
        <5>3. Rendered(row[p])' = Rendered(row[p])
          BY <3>3 DEF Rendered, Timeout
        <5> QED BY <3>1, <3>3, <4>3, <5>1, <5>2, <5>3 DEF Local, Decided
      <4> QED BY <4>6, <4>7, <4>8 DEF IInv
    <3>5. CASE ~Renders(row[p], address)
      <4>1. /\ evidence' = [evidence EXCEPT ![p] = Failure]
            /\ reply' = [reply EXCEPT ![p] = "unavailable"]
            /\ pc' = [pc EXCEPT ![p] = "done"]
            /\ UNCHANGED sent
        BY <2>7, <3>2, <3>5 DEF Dispatch
      <4>2. DOMAIN evidence' = Proposals /\ DOMAIN reply' = Proposals
            /\ DOMAIN printed' = Proposals
        BY <1>2, <3>3, <4>1 DEF IInv, TypeOK
      <4> QED BY <1>2, <3>1, <3>2, <3>3, <4>1, <4>2, MoveLocal DEF Decided
    <3> QED BY <3>4, <3>5
  <2>8. ASSUME NEW p \in Proposals, NEW status, NEW o, Finish(p, status, o)
        PROVE  IInv'
    <3>1. /\ pc[p] = "running" /\ pc' = [pc EXCEPT ![p] = "done"]
          /\ UNCHANGED <<scan, context, attempt, row, sent>>
      BY <2>8 DEF Finish
    <3>2. /\ DOMAIN evidence' = DOMAIN evidence
          /\ DOMAIN reply' = DOMAIN reply
          /\ DOMAIN printed' = DOMAIN printed
      BY <2>8 DEF Finish
    <3>3. DOMAIN evidence' = Proposals /\ DOMAIN reply' = Proposals
          /\ DOMAIN printed' = Proposals
      BY <1>2, <3>2 DEF IInv, TypeOK
    <3> QED BY <1>2, <3>1, <3>3, MoveLocal DEF Decided
  <2>9. ASSUME NEW p \in Proposals, Raise(p)
        PROVE  IInv'
    <3>1. /\ pc[p] = "running" /\ pc' = [pc EXCEPT ![p] = "done"]
          /\ UNCHANGED <<scan, context, attempt, row, sent, printed>>
      BY <2>9 DEF Raise
    <3>2. /\ DOMAIN evidence' = DOMAIN evidence
          /\ DOMAIN reply' = DOMAIN reply
      BY <2>9 DEF Raise
    <3>3. DOMAIN evidence' = Proposals /\ DOMAIN reply' = Proposals
          /\ DOMAIN printed' = Proposals
      BY <1>2, <3>1, <3>2 DEF IInv, TypeOK
    <3> QED BY <1>2, <3>1, <3>3, MoveLocal DEF Decided
  <2>10. CASE UNCHANGED vars
    <3>1. UNCHANGED <<address, imports, findings, pc, context, attempt, row,
                      sent, printed, evidence, reply>>
      BY <2>10 DEF vars, scan, run
    <3>2. TypeOK'
      BY <1>2, <3>1 DEF IInv, TypeOK
    <3>3. ASSUME NEW q \in Proposals
          PROVE  Local(q)'
      BY <1>2, <3>1, LocalKept DEF IInv
    <3> QED BY <3>2, <3>3 DEF IInv
  <2> QED
    BY <1>2, <2>1, <2>2, <2>4, <2>5, <2>6, <2>7, <2>8, <2>9, <2>10
       DEF Next, Provider
<1> QED BY <1>1, <1>2, PTL DEF Spec

-----------------------------------------------------------------------------
(* What follows, whatever the language model answers *)

\* A command in Kali goes to the port of a cited finding of the session.
THEOREM OnlySupported == Spec => []SentIsSupported
<1>1. ASSUME IInv
      PROVE  SentIsSupported
  <2> SUFFICES ASSUME NEW p \in Proposals, sent[p] # NoCommand
               PROVE  /\ sent[p].action_name \in Actions
                      /\ \E f \in row[p].finding_ids \cap findings :
                            f.port = sent[p].port
    BY DEF SentIsSupported
  <2>1. Local(p)
    BY <1>1 DEF IInv
  <2>2. /\ pc[p] \in Decided /\ sent[p] = Rendered(row[p])
        /\ Registered(row[p], findings)
        /\ row[p].arguments.port \in {f.port : f \in row[p].finding_ids}
    BY <2>1 DEF Local, Decided
  <2>3. /\ sent[p].action_name = row[p].action_name
        /\ sent[p].port = row[p].arguments.port
    BY <2>2 DEF Rendered
  <2>4. PICK f \in row[p].finding_ids : f.port = row[p].arguments.port
    BY <2>2
  <2>5. f \in findings /\ row[p].action_name \in Actions
    BY <2>2, <2>4 DEF Registered
  <2> QED BY <2>3, <2>4, <2>5
<1> QED BY <1>1, Invariance, PTL

\* What runs is the proposal as it was stored and shown.
THEOREM RunsAsShown == Spec => []SentAsShown
<1>1. IInv => SentAsShown
  BY DEF IInv, Local, SentAsShown
<1> QED BY <1>1, Invariance, PTL

\* A stored proposal stays valid while scans are imported.
THEOREM Approvable == Spec => []StaysApprovable
<1>1. IInv => StaysApprovable
  BY DEF IInv, Local, StaysApprovable, Decided
<1> QED BY <1>1, Invariance, PTL

\* While a request waits for the model, the checks to come take every answer in
\* the format sent with it, up to the port, and no answer that is not in the
\* format once its defaults are written out.
THEOREM FormatAgrees == Spec => []FormatMatchesChecks
<1>1. ASSUME IInv
      PROVE  FormatMatchesChecks
  <2>1. ASSUME NEW p \in Proposals
        PROVE  \A f \in context[p] : f.port \in ValidPorts
    BY <1>1 DEF IInv, TypeOK, Local
  <2> QED BY <2>1, FormatLemma DEF FormatMatchesChecks
<1> QED BY <1>1, Invariance, PTL

\* The renderer refuses an approved proposal for its address only.
THEOREM RendererAgrees == Spec => []RenderAgrees
<1>1. Init => RenderAgrees
  BY DEF Init, RenderAgrees
<1>2. ASSUME IInv, RenderAgrees, [Next]_vars
      PROVE  RenderAgrees'
  <2> SUFFICES ASSUME NEW q \in Proposals, pc'[q] = "done",
                      sent'[q] = NoCommand
               PROVE  address' = "scoped ula"
    BY DEF RenderAgrees
  <2>0. /\ pc \in [Proposals ->
              {"idle", "asking", "refused", "error"} \cup Decided]
        /\ DOMAIN sent = Proposals
        /\ address \in AddressForms /\ PrivateTarget(address)
        /\ Local(q)
    BY <1>2 DEF IInv, TypeOK
  <2>1. CASE UNCHANGED <<address, pc, sent>>
    BY <1>2, <2>1 DEF RenderAgrees
  <2>2. ASSUME NEW p \in Proposals, NEW v, v # "done",
               pc' = [pc EXCEPT ![p] = v], UNCHANGED <<address, sent>>
        PROVE  address' = "scoped ula"
    <3>1. pc[q] = "done"
      BY <2>0, <2>2
    <3> QED BY <1>2, <2>2, <3>1 DEF RenderAgrees
  <2>3. ASSUME NEW p \in Proposals, pc[p] = "running",
               pc' = [pc EXCEPT ![p] = "done"], UNCHANGED <<address, sent>>
        PROVE  address' = "scoped ula"
    <3>1. CASE q = p
      BY <2>0, <2>3, <3>1 DEF Local
    <3>2. CASE q # p
      BY <1>2, <2>0, <2>3, <3>2 DEF RenderAgrees
    <3> QED BY <3>1, <3>2
  <2>4. ASSUME NEW p \in Proposals, Dispatch(p)
        PROVE  address' = "scoped ula"
    <3>1. UNCHANGED address
      BY <2>4 DEF Dispatch, scan
    <3>2. CASE q = p
      <4>1. pc[p] = "approved" /\ Dumped(row[p]) = row[p]
            /\ Registered(row[p], findings)
        BY <2>0, <2>4, <3>2 DEF Dispatch, Local, Decided
      <4>2. CASE Renders(row[p], address)
        <5>1. pc' = [pc EXCEPT ![p] = "running"]
          BY <2>4, <4>1, <4>2 DEF Dispatch
        <5> QED BY <2>0, <3>2, <5>1
      <4>3. CASE ~Renders(row[p], address)
        <5>1. row[p].arguments.timeout_seconds = Absent
              \/ row[p].arguments.timeout_seconds \in 1..10
          BY <4>1 DEF Registered
        <5>2. Timeout(row[p]) <= 60
          <6>1. CASE \/ row[p].action_name # "check_tcp_connection"
                     \/ row[p].arguments.timeout_seconds = Absent
            BY <6>1 DEF Timeout
          <6>2. CASE /\ row[p].action_name = "check_tcp_connection"
                     /\ row[p].arguments.timeout_seconds # Absent
            <7>1. Timeout(row[p]) = row[p].arguments.timeout_seconds + 5
              BY <6>2 DEF Timeout
            <7> QED BY <5>1, <6>2, <7>1
          <6> QED BY <6>1, <6>2
        <5>3. ~PrivateAddress(address)
          BY <4>1, <4>3, <5>2 DEF Registered, Renders
        <5> QED BY <2>0, <3>1, <5>3 DEF PrivateAddress, PrivateTarget
      <4> QED BY <4>2, <4>3
    <3>3. CASE q # p
      <4>1. /\ \E v : pc' = [pc EXCEPT ![p] = v]
            /\ \/ UNCHANGED sent
               \/ \E c : sent' = [sent EXCEPT ![p] = c]
        BY <2>4 DEF Dispatch
      <4>2. pc[q] = "done" /\ sent[q] = NoCommand
        BY <2>0, <3>3, <4>1
      <4> QED BY <1>2, <3>1, <4>2 DEF RenderAgrees
    <3> QED BY <3>2, <3>3
  <2>5. ASSUME NEW p \in Proposals, NEW s, Settle(p, s)
        PROVE  address' = "scoped ula"
    <3>1. PICK r : Store(p, r)
      BY <2>5, SettleStores
    <3>2. UNCHANGED <<address, sent>>
      BY <2>5 DEF Settle, scan, run
    <3>3. \/ pc' = [pc EXCEPT ![p] = "proposed"]
          \/ pc' = [pc EXCEPT ![p] = "refused"]
      BY <3>1 DEF Store
    <3> QED BY <2>2, <3>2, <3>3
  <2>6. ASSUME NEW p \in Proposals, NEW a, Answer(p, a)
        PROVE  address' = "scoped ula"
    BY <2>1, <2>5, <2>6 DEF Answer, scan, run
  <2>7. ASSUME NEW p \in Proposals, Ask(p)
        PROVE  address' = "scoped ula"
    <3>1. \/ pc' = [pc EXCEPT ![p] = "error"]
          \/ pc' = [pc EXCEPT ![p] = "asking"]
      BY <2>7 DEF Ask
    <3> QED BY <2>2, <2>7, <3>1 DEF Ask, scan, run
  <2>8. ASSUME NEW p \in Proposals, Approve(p)
        PROVE  address' = "scoped ula"
    BY <2>2, <2>8 DEF Approve, scan, run
  <2>9. ASSUME NEW p \in Proposals, NEW status, NEW o, Finish(p, status, o)
        PROVE  address' = "scoped ula"
    BY <2>3, <2>9 DEF Finish, scan
  <2>10. ASSUME NEW p \in Proposals, Raise(p)
         PROVE  address' = "scoped ula"
    BY <2>3, <2>10 DEF Raise, scan
  <2>11. ASSUME NEW export \in Exports, Import(export)
         PROVE  address' = "scoped ula"
    BY <2>1, <2>11 DEF Import, run
  <2>12. ASSUME NEW p \in Proposals, Unavailable(p)
         PROVE  address' = "scoped ula"
    BY <2>5, <2>12 DEF Unavailable
  <2>13. CASE UNCHANGED vars
    BY <2>1, <2>13 DEF vars, scan, run
  <2> QED
    BY <1>2, <2>4, <2>6, <2>7, <2>8, <2>9, <2>10, <2>11, <2>12, <2>13
       DEF Next, Provider
<1> QED BY <1>1, <1>2, Invariance, PTL DEF Spec

\* A step that settles a request refuses it only without a known service.
LEMMA SettleRefuses ==
    ASSUME IInv, NEW p \in Proposals, NEW s, Settle(p, s), pc'[p] = "refused"
    PROVE  \A f \in context[p] : f.hint \notin Services
<1>1. PICK r : /\ Store(p, r)
               /\ ~Adoptable(s, context[p]) => r \in RuleSteps(context[p])
               /\ Adoptable(s, context[p]) => r = s
  BY DEF Settle
<1>2. pc'[p] = IF Adoptable(r, context[p]) THEN "proposed" ELSE "refused"
  BY <1>1 DEF Store, IInv, TypeOK
<1>3. r \in RuleSteps(context[p]) /\ ~Adoptable(r, context[p])
  BY <1>1, <1>2
<1>4. \A f \in context[p] : f.port \in ValidPorts
  BY DEF IInv, TypeOK, Local
<1>5. SUFFICES ASSUME NEW f \in context[p], f.hint \in Services
               PROVE  FALSE
  OBVIOUS
<1>6. PICK g \in context[p] : g.hint \in Services /\ r = RuleStep(g)
  BY <1>3, <1>5 DEF RuleSteps
<1> QED BY <1>3, <1>4, <1>6, RuleStepAdoptable

\* NO_SAFE_ACTION means that no finding has a known service.
THEOREM RulesFindStep == Spec => []FallbackFindsStep
<1>1. Init => FallbackFindsStep
  BY DEF Init, FallbackFindsStep
<1>2. ASSUME IInv, FallbackFindsStep, [Next]_vars
      PROVE  FallbackFindsStep'
  <2> SUFFICES ASSUME NEW q \in Proposals, pc'[q] = "refused"
               PROVE  \A f \in context'[q] : f.hint \notin Services
    BY DEF FallbackFindsStep
  <2>0. /\ pc \in [Proposals ->
              {"idle", "asking", "refused", "error"} \cup Decided]
        /\ DOMAIN context = Proposals
    BY <1>2 DEF IInv, TypeOK
  <2>1. CASE UNCHANGED <<pc, context>>
    BY <1>2, <2>1 DEF FallbackFindsStep
  <2>2. ASSUME NEW p \in Proposals, NEW v, v # "refused",
               pc' = [pc EXCEPT ![p] = v],
               UNCHANGED context
                   \/ context' = [context EXCEPT ![p] = findings]
        PROVE  \A f \in context'[q] : f.hint \notin Services
    <3>1. q # p
      BY <2>0, <2>2
    <3>2. pc[q] = "refused" /\ context'[q] = context[q]
      BY <2>0, <2>2, <3>1
    <3> QED BY <1>2, <3>2 DEF FallbackFindsStep
  <2>3. ASSUME NEW p \in Proposals, NEW s, Settle(p, s)
        PROVE  \A f \in context'[q] : f.hint \notin Services
    <3>1. UNCHANGED context
      BY <2>3 DEF Settle
    <3>2. CASE q = p
      BY <1>2, <2>3, <3>1, <3>2, SettleRefuses
    <3>3. CASE q # p
      <4>1. PICK r : Store(p, r)
        BY <2>3, SettleStores
      <4>2. pc'[q] = pc[q]
        BY <2>0, <3>3, <4>1 DEF Store
      <4> QED BY <1>2, <3>1, <4>2 DEF FallbackFindsStep
    <3> QED BY <3>2, <3>3
  <2>4. ASSUME NEW p \in Proposals, NEW a, Answer(p, a)
        PROVE  \A f \in context'[q] : f.hint \notin Services
    BY <2>1, <2>3, <2>4 DEF Answer
  <2>5. ASSUME NEW p \in Proposals, Unavailable(p)
        PROVE  \A f \in context'[q] : f.hint \notin Services
    BY <2>3, <2>5 DEF Unavailable
  <2>6. ASSUME NEW p \in Proposals, Ask(p)
        PROVE  \A f \in context'[q] : f.hint \notin Services
    <3>1. \/ pc' = [pc EXCEPT ![p] = "error"] /\ UNCHANGED context
          \/ /\ pc' = [pc EXCEPT ![p] = "asking"]
             /\ context' = [context EXCEPT ![p] = findings]
      BY <2>6 DEF Ask
    <3> QED BY <2>2, <3>1
  <2>7. ASSUME NEW p \in Proposals, Approve(p)
        PROVE  \A f \in context'[q] : f.hint \notin Services
    BY <2>2, <2>7 DEF Approve
  <2>8. ASSUME NEW p \in Proposals, Dispatch(p)
        PROVE  \A f \in context'[q] : f.hint \notin Services
    <3>1. /\ UNCHANGED context
          /\ \/ pc' = [pc EXCEPT ![p] = "running"]
             \/ pc' = [pc EXCEPT ![p] = "done"]
      BY <2>8 DEF Dispatch
    <3> QED BY <2>2, <3>1
  <2>9. ASSUME NEW p \in Proposals, NEW status, NEW o, Finish(p, status, o)
        PROVE  \A f \in context'[q] : f.hint \notin Services
    BY <2>2, <2>9 DEF Finish
  <2>10. ASSUME NEW p \in Proposals, Raise(p)
         PROVE  \A f \in context'[q] : f.hint \notin Services
    BY <2>2, <2>10 DEF Raise
  <2>11. ASSUME NEW export \in Exports, Import(export)
         PROVE  \A f \in context'[q] : f.hint \notin Services
    BY <2>1, <2>11 DEF Import
  <2>12. CASE UNCHANGED vars
    BY <2>1, <2>12 DEF vars
  <2> QED
    BY <1>2, <2>4, <2>5, <2>6, <2>7, <2>8, <2>9, <2>10, <2>11, <2>12
       DEF Next, Provider
<1> QED BY <1>1, <1>2, Invariance, PTL DEF Spec

\* What the three cuts keep of an output, when nothing is marked truncated.
LEMMA UntruncatedIsWhole ==
    ASSUME NEW o \in Outputs, ~Truncated(o), NEW name
    PROVE  /\ Fact(name, o) # "shortened"
           /\ Fact(name, o) = "none" => o.line = 0 \/ o.lower
<1>0. /\ o.length \in Nat /\ o.line \in Nat /\ o.width \in 1..4
      /\ o.line <= o.length
      /\ InspectedChars \in Nat /\ ActionChars \in Nat /\ CaptureBytes \in Nat
      /\ InspectedChars < ActionChars
      /\ 4 * (InspectedChars + 1) <= CaptureBytes
  BY OutputAssumption
<1>1. Kept(o) \in Nat /\ Kept(o) <= InspectedChars
  <2>1. Kept(o) \in Int
    <3> DEFINE w == o.width
    <3>1. CaptureBytes \div w \in Int
      BY <1>0
    <3> QED BY <1>0, <3>1 DEF Kept
  <2>2. Kept(o) <= ActionChars
    BY <1>0, <2>1 DEF Truncated
  <2>3. Kept(o) <= InspectedChars
    BY <1>0, <2>1, <2>2 DEF Truncated, Bounded
  <2>4. Kept(o) >= 0
    <3>1. CaptureBytes \div o.width >= 0
      BY <1>0
    <3> QED BY <1>0, <3>1 DEF Kept
  <2> QED BY <2>1, <2>3, <2>4
<1>2. Kept(o) = o.length
  <2>1. CaptureBytes \div o.width > InspectedChars
    <3>1. CASE o.width = 1
      BY <1>0, <3>1
    <3>2. CASE o.width = 2
      BY <1>0, <3>2
    <3>3. CASE o.width = 3
      BY <1>0, <3>3
    <3>4. CASE o.width = 4
      BY <1>0, <3>4
    <3> QED BY <1>0, <3>1, <3>2, <3>3, <3>4
  <2>2. CaptureBytes \div o.width \in Int
    BY <1>0
  <2> QED BY <1>0, <1>1, <2>1, <2>2 DEF Kept
<1>3. Bounded(Kept(o)) = o.length /\ o.length <= InspectedChars
  BY <1>0, <1>1, <1>2 DEF Bounded
<1> QED BY <1>0, <1>3 DEF Fact

\* Unmarked evidence misses nothing and shortens nothing.
THEOREM EvidenceComplete == Spec => []EvidenceIsWhole
<1>1. Init => EvidenceIsWhole
  BY DEF Init, EvidenceIsWhole, NoEvidence, Terminal
<1>2. ASSUME IInv, EvidenceIsWhole, [Next]_vars
      PROVE  EvidenceIsWhole'
  <2>0. DOMAIN evidence = Proposals /\ DOMAIN printed = Proposals
    BY <1>2 DEF IInv, TypeOK
  <2>1. CASE UNCHANGED <<evidence, printed>>
    BY <1>2, <2>1 DEF EvidenceIsWhole
  <2>2. ASSUME NEW p \in Proposals,
               evidence' = [evidence EXCEPT ![p] = Failure], UNCHANGED printed
        PROVE  EvidenceIsWhole'
    <3>1. Failure.fact = "dispatcher_error"
      BY DEF Failure
    <3>2. evidence'[p] = Failure
      BY <2>0, <2>2
    <3>3. ASSUME NEW q \in Proposals, q # p
          PROVE  evidence'[q] = evidence[q]
      BY <2>0, <2>2, <3>3
    <3> QED BY <1>2, <2>2, <3>1, <3>2, <3>3 DEF EvidenceIsWhole
  <2>3. ASSUME NEW p \in Proposals, NEW status \in Terminal, NEW o \in Outputs,
               Finish(p, status, o)
        PROVE  EvidenceIsWhole'
    <3> DEFINE name == sent[p].action_name
    <3>1. evidence'[p] = [status |-> status, fact |-> Fact(name, o),
                          truncated |-> Truncated(o)]
      BY <2>0, <2>3 DEF Finish
    <3>2. printed'[p] = o
      BY <2>0, <2>3 DEF Finish
    <3>3. ASSUME NEW q \in Proposals, q # p
          PROVE  evidence'[q] = evidence[q] /\ printed'[q] = printed[q]
      BY <2>0, <2>3, <3>3 DEF Finish
    <3>4. ~Truncated(o) => /\ Fact(name, o) # "shortened"
                           /\ Fact(name, o) = "none" => o.line = 0 \/ o.lower
      BY UntruncatedIsWhole
    <3>5. /\ evidence'[p].fact = Fact(name, o)
          /\ evidence'[p].truncated = Truncated(o)
      BY <3>1
    <3> HIDE DEF name
    <3>6. ASSUME NEW q \in Proposals
          PROVE  evidence'[q].status \in Terminal /\ ~evidence'[q].truncated =>
                   /\ evidence'[q].fact # "shortened"
                   /\ evidence'[q].fact = "none" =>
                        printed'[q].line = 0 \/ printed'[q].lower
      <4>1. CASE q = p
        BY <3>2, <3>4, <3>5, <4>1
      <4>2. CASE q # p
        BY <1>2, <3>3, <4>2 DEF EvidenceIsWhole
      <4> QED BY <4>1, <4>2
    <3> QED BY <3>6 DEF EvidenceIsWhole
  <2>4. ASSUME NEW p \in Proposals, NEW s, Settle(p, s)
        PROVE  EvidenceIsWhole'
    BY <2>1, <2>4 DEF Settle, run
  <2>5. ASSUME NEW p \in Proposals, NEW a, Answer(p, a)
        PROVE  EvidenceIsWhole'
    BY <2>1, <2>4, <2>5 DEF Answer, run
  <2>6. ASSUME NEW p \in Proposals, Unavailable(p)
        PROVE  EvidenceIsWhole'
    BY <2>4, <2>6 DEF Unavailable
  <2>7. ASSUME NEW p \in Proposals, Ask(p) \/ Approve(p)
        PROVE  EvidenceIsWhole'
    BY <2>1, <2>7 DEF Ask, Approve, run
  <2>8. ASSUME NEW p \in Proposals, Dispatch(p)
        PROVE  EvidenceIsWhole'
    BY <2>1, <2>2, <2>8 DEF Dispatch
  <2>9. ASSUME NEW p \in Proposals, Raise(p)
        PROVE  EvidenceIsWhole'
    BY <2>2, <2>9 DEF Raise
  <2>10. ASSUME NEW export \in Exports, Import(export)
         PROVE  EvidenceIsWhole'
    BY <2>1, <2>10 DEF Import, run
  <2>11. CASE UNCHANGED vars
    BY <2>1, <2>11 DEF vars, run
  <2> QED
    BY <1>2, <2>3, <2>5, <2>6, <2>7, <2>8, <2>9, <2>10, <2>11
       DEF Next, Provider
<1> QED BY <1>1, <1>2, Invariance, PTL DEF Spec

\* An erroneous reply belongs to a finished run whose command is the TLS one.
ErrorReply == \A p \in Proposals : reply[p] = "error" =>
    /\ pc[p] = "done"
    /\ printed[p].lower /\ sent[p].action_name = "inspect_tls_certificate"

\* A stored result is answered unless a TLS name came in lower case.
THEOREM RepliesFit == Spec => []ReplyFits
<1>1. Init => ErrorReply
  BY DEF Init, ErrorReply
<1>2. ASSUME IInv, ErrorReply, [Next]_vars
      PROVE  ErrorReply'
  <2>0. /\ pc \in [Proposals ->
              {"idle", "asking", "refused", "error"} \cup Decided]
        /\ DOMAIN reply = Proposals /\ DOMAIN printed = Proposals
        /\ DOMAIN sent = Proposals
    BY <1>2 DEF IInv, TypeOK
  <2>1. CASE UNCHANGED <<pc, sent, printed, reply>>
    BY <1>2, <2>1 DEF ErrorReply
  <2>2. ASSUME NEW p \in Proposals, NEW v, pc[p] # "done",
               pc' = [pc EXCEPT ![p] = v], UNCHANGED <<printed, reply>>,
               UNCHANGED sent \/ \E c : sent' = [sent EXCEPT ![p] = c]
        PROVE  ErrorReply'
    <3> SUFFICES ASSUME NEW q \in Proposals, reply'[q] = "error"
                 PROVE  /\ pc'[q] = "done"
                        /\ printed'[q].lower
                        /\ sent'[q].action_name = "inspect_tls_certificate"
      BY DEF ErrorReply
    <3>1. /\ pc[q] = "done" /\ printed[q].lower
          /\ sent[q].action_name = "inspect_tls_certificate"
      BY <1>2, <2>2 DEF ErrorReply
    <3>2. q # p
      BY <2>2, <3>1
    <3>3. pc'[q] = pc[q] /\ sent'[q] = sent[q]
      BY <2>0, <2>2, <3>2
    <3> QED BY <2>2, <3>1, <3>3
  <2>3. ASSUME NEW p \in Proposals, pc' = [pc EXCEPT ![p] = "done"],
               reply' = [reply EXCEPT ![p] = "unavailable"],
               UNCHANGED <<printed, sent>>
        PROVE  ErrorReply'
    <3> SUFFICES ASSUME NEW q \in Proposals, reply'[q] = "error"
                 PROVE  /\ pc'[q] = "done"
                        /\ printed'[q].lower
                        /\ sent'[q].action_name = "inspect_tls_certificate"
      BY DEF ErrorReply
    <3>1. q # p
      BY <2>0, <2>3
    <3>2. pc'[q] = pc[q] /\ reply'[q] = reply[q]
      BY <2>0, <2>3, <3>1
    <3> QED BY <1>2, <2>3, <3>2 DEF ErrorReply
  <2>4. ASSUME NEW p \in Proposals, NEW status, NEW o, Finish(p, status, o)
        PROVE  ErrorReply'
    <3> SUFFICES ASSUME NEW q \in Proposals, reply'[q] = "error"
                 PROVE  /\ pc'[q] = "done"
                        /\ printed'[q].lower
                        /\ sent'[q].action_name = "inspect_tls_certificate"
      BY DEF ErrorReply
    <3>1. /\ pc' = [pc EXCEPT ![p] = "done"] /\ UNCHANGED sent
          /\ printed' = [printed EXCEPT ![p] = o]
          /\ reply' = [reply EXCEPT ![p] =
               IF Fits(sent[p].action_name, o, Fact(sent[p].action_name, o))
               THEN "result" ELSE "error"]
      BY <2>4 DEF Finish
    <3>2. CASE q = p
      <4>1. ~Fits(sent[p].action_name, o, Fact(sent[p].action_name, o))
        BY <2>0, <3>1, <3>2
      <4>2. o.lower /\ sent[p].action_name = "inspect_tls_certificate"
        BY <4>1 DEF Fits
      <4>3. pc'[p] = "done" /\ printed'[p] = o
        BY <2>0, <3>1
      <4> QED BY <3>1, <3>2, <4>2, <4>3
    <3>3. CASE q # p
      <4>1. /\ pc'[q] = pc[q] /\ reply'[q] = reply[q]
            /\ printed'[q] = printed[q]
        BY <2>0, <3>1, <3>3
      <4> QED BY <1>2, <3>1, <4>1 DEF ErrorReply
    <3> QED BY <3>2, <3>3
  <2>5. ASSUME NEW p \in Proposals, pc[p] = "asking", NEW s, Settle(p, s)
        PROVE  ErrorReply'
    <3>1. PICK r : Store(p, r)
      BY <2>5, SettleStores
    <3>2. UNCHANGED <<sent, printed, reply>>
      BY <2>5 DEF Settle, run
    <3> QED BY <2>2, <2>5, <3>1, <3>2 DEF Store
  <2>6. ASSUME NEW p \in Proposals, NEW a, Answer(p, a)
        PROVE  ErrorReply'
    <3>1. CASE \E s : Settle(p, s)
      BY <2>5, <2>6, <3>1 DEF Answer
    <3>2. CASE UNCHANGED <<pc, run>>
      BY <2>1, <3>2 DEF run
    <3> QED BY <2>6, <3>1, <3>2 DEF Answer
  <2>7. ASSUME NEW p \in Proposals, Unavailable(p)
        PROVE  ErrorReply'
    BY <2>5, <2>7 DEF Unavailable
  <2>8. ASSUME NEW p \in Proposals, Ask(p)
        PROVE  ErrorReply'
    <3>1. /\ pc[p] # "done" /\ UNCHANGED <<sent, printed, reply>>
          /\ \E v : pc' = [pc EXCEPT ![p] = v]
      BY <2>8 DEF Ask, run
    <3> QED BY <2>2, <3>1
  <2>9. ASSUME NEW p \in Proposals, Approve(p)
        PROVE  ErrorReply'
    BY <2>2, <2>9 DEF Approve, run
  <2>10. ASSUME NEW p \in Proposals, Dispatch(p)
         PROVE  ErrorReply'
    <3>1. pc[p] # "done" /\ UNCHANGED printed
      BY <2>10 DEF Dispatch
    <3>2. CASE Renders(Dumped(row[p]), address)
      BY <2>2, <2>10, <3>1, <3>2 DEF Dispatch
    <3>3. CASE ~Renders(Dumped(row[p]), address)
      BY <2>3, <2>10, <3>1, <3>3 DEF Dispatch
    <3> QED BY <3>2, <3>3
  <2>11. ASSUME NEW p \in Proposals, Raise(p)
         PROVE  ErrorReply'
    BY <2>3, <2>11 DEF Raise
  <2>12. ASSUME NEW export \in Exports, Import(export)
         PROVE  ErrorReply'
    BY <2>1, <2>12 DEF Import, run
  <2>13. CASE UNCHANGED vars
    BY <2>1, <2>13 DEF vars, run
  <2> QED
    BY <1>2, <2>4, <2>6, <2>7, <2>8, <2>9, <2>10, <2>11, <2>12, <2>13
       DEF Next, Provider
<1>3. ErrorReply => ReplyFits
  BY DEF ErrorReply, ReplyFits
<1> QED BY <1>1, <1>2, <1>3, Invariance, PTL DEF Spec

-----------------------------------------------------------------------------
(* The questions *)

\* While the question of p is open no step takes an attempt back, and each of
\* the provider's steps closes it or uses up one of its Retries + 1 attempts.
CountsQuestion(p) ==
    /\ pc'[p] = "asking" =>
         /\ attempt'[p] \in {attempt[p], attempt[p] + 1}
         /\ attempt'[p] <= Retries + 1
    /\ Provider(p) => pc'[p] # "asking" \/ attempt'[p] = attempt[p] + 1
CountsQuestions ==
    \A p \in Proposals : pc[p] = "asking" => CountsQuestion(p)

Closes(p) ==
    /\ \E v : v # "asking" /\ pc' = [pc EXCEPT ![p] = v]
    /\ UNCHANGED attempt
PutsAgain(p) ==
    /\ attempt[p] < Retries + 1
    /\ attempt' = [attempt EXCEPT ![p] = @ + 1]
    /\ UNCHANGED pc

\* The provider settles the question or puts it again.
LEMMA SettleCloses ==
    ASSUME NEW p, NEW s, Settle(p, s)
    PROVE  Closes(p)
<1>1. PICK r : Store(p, r)
  BY DEF Settle
<1>2. pc' = [pc EXCEPT ![p] = IF Adoptable(r, context[p]) THEN "proposed"
                                ELSE "refused"]
  BY <1>1 DEF Store
<1>3. UNCHANGED attempt
  BY DEF Settle
<1> DEFINE v == IF Adoptable(r, context[p]) THEN "proposed" ELSE "refused"
<1>4. v # "asking" /\ pc' = [pc EXCEPT ![p] = v]
  BY <1>2
<1> HIDE DEF v
<1>5. \E w : w # "asking" /\ pc' = [pc EXCEPT ![p] = w]
  BY <1>4
<1> QED BY <1>3, <1>5 DEF Closes

LEMMA ProviderCounts ==
    ASSUME NEW p, Provider(p)
    PROVE  Closes(p) \/ PutsAgain(p)
<1>1. CASE Unavailable(p)
  BY <1>1, SettleCloses DEF Unavailable
<1>2. ASSUME NEW a, Answer(p, a)
      PROVE  Closes(p) \/ PutsAgain(p)
  <2>1. CASE StepValid(a, context[p])
    BY <1>2, <2>1, SettleCloses DEF Answer
  <2>2. CASE ~StepValid(a, context[p]) /\ attempt[p] < Retries + 1
    BY <1>2, <2>2 DEF Answer, PutsAgain
  <2>3. CASE ~StepValid(a, context[p]) /\ ~(attempt[p] < Retries + 1)
    BY <1>2, <2>3, SettleCloses DEF Answer
  <2> QED BY <2>1, <2>2, <2>3
<1> QED BY <1>1, <1>2 DEF Provider

\* The safety half of AskSettles: the retries of recommend_next_step end,
\* because no step gives an open question an attempt back, and none of the
\* provider's own steps leaves both the question open and the count as it was.
THEOREM QuestionsAreCounted == Spec => [][CountsQuestions]_vars
<1>1. ASSUME IInv, [Next]_vars
      PROVE  [CountsQuestions]_vars
  <2> SUFFICES ASSUME NEW p \in Proposals, pc[p] = "asking", Next
               PROVE  CountsQuestion(p)
    BY <1>1 DEF CountsQuestions
  <2>1. /\ pc \in [Proposals ->
              {"idle", "asking", "refused", "error"} \cup Decided]
        /\ attempt \in [Proposals -> 0..Retries + 1]
        /\ Retries \in Nat
    BY <1>1, RetryAssumption DEF IInv, TypeOK
  <2>2. attempt[p] \in 0..Retries + 1
    BY <2>1
  <2>3. ASSUME Provider(p)
        PROVE  \/ pc'[p] # "asking"
               \/ /\ attempt'[p] = attempt[p] + 1
                  /\ attempt'[p] <= Retries + 1
    <3>1. CASE Closes(p)
      BY <2>1, <3>1 DEF Closes
    <3>2. CASE PutsAgain(p)
      BY <2>1, <2>2, <3>2 DEF PutsAgain
    <3> QED BY <2>3, <3>1, <3>2, ProviderCounts
  <2>4. ASSUME ~Provider(p)
        PROVE  pc'[p] # "asking" \/ attempt'[p] = attempt[p]
    <3>1. ASSUME NEW q \in Proposals, Closes(q)
          PROVE  pc'[p] # "asking" \/ attempt'[p] = attempt[p]
      BY <3>1 DEF Closes
    <3>2. ASSUME NEW q \in Proposals, Provider(q)
          PROVE  pc'[p] # "asking" \/ attempt'[p] = attempt[p]
      <4>1. q # p
        BY <2>4, <3>2
      <4>2. CASE PutsAgain(q)
        BY <2>1, <4>1, <4>2 DEF PutsAgain
      <4> QED BY <3>1, <3>2, <4>2, ProviderCounts
    <3>3. ASSUME NEW q \in Proposals, Ask(q)
          PROVE  attempt'[p] = attempt[p]
      <4>1. q # p
        BY <3>3 DEF Ask
      <4> QED BY <2>1, <3>3, <4>1 DEF Ask
    <3>4. ASSUME NEW export, Import(export)
          PROVE  UNCHANGED attempt
      BY <3>4 DEF Import
    <3>5. ASSUME NEW q \in Proposals,
                 \/ Approve(q) \/ Dispatch(q) \/ Raise(q)
                 \/ \E status \in Terminal, o \in Outputs :
                       Finish(q, status, o)
          PROVE  UNCHANGED attempt
      BY <3>5 DEF Approve, Dispatch, Raise, Finish
    <3> QED BY <3>2, <3>3, <3>4, <3>5 DEF Next
  <2>5. attempt[p] <= Retries + 1 /\ attempt[p] \in Nat
    BY <2>1, <2>2
  <2>6. CASE Provider(p)
    BY <2>3, <2>6 DEF CountsQuestion
  <2>7. CASE ~Provider(p)
    BY <2>4, <2>5, <2>7 DEF CountsQuestion
  <2> QED BY <2>6, <2>7
<1> QED BY <1>1, Invariance, PTL DEF Spec

=============================================================================
