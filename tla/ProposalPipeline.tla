-------------------------- MODULE ProposalPipeline --------------------------
(* How scan evidence becomes a command in Kali and the command's output      *)
(* becomes evidence: import, recommendation, approval, dispatch, result.     *)
(* The model's answer is arbitrary; four validators written independently    *)
(* stand between it and Kali: the answer format (recommendation_schema), the *)
(* strict schema (ProposedStep), the registry and the Kali renderer.         *)
(* Sources: redpath/nmap_parser.py, session_api.py, action_registry.py,      *)
(* execution_api.py, execution_evidence.py, contracts.py,                    *)
(* redpath_ai/providers.py, schemas.py, redpath_kali/.                       *)
(*                                                                           *)
(* One session with one usable target. When a session or an approval ends is *)
(* in ActionExecution and SessionLifecycle, how wsl.exe is run in            *)
(* SetupTools. A row of proposals and the request that makes it share one    *)
(* name of Proposals: requests run side by side, each in its own worker.     *)
(* Abstracted: a finding's id is the finding (a fresh uuid for each import   *)
(* and port); texts of reasons and goals are present or the answer is        *)
(* Malformed; a number that is no integer is 0, which every check refuses    *)
(* alike; of an action's output only the line that evidence looks for.       *)
EXTENDS Integers

CONSTANTS
    Exports,        \* sets of <port> elements of an export of the target
    Written,        \* arguments a language model may write
    Proposals,      \* rows of the table proposals
    MaxImports,     \* bound on imports
    Retries,        \* OllamaProvider.invalid_output_retries
    InspectedChars, \* MAX_INSPECTED_OUTPUT_CHARS
    ActionChars,    \* MAX_ACTION_OUTPUT_CHARS
    CaptureBytes,   \* MAX_CAPTURE_BYTES
    Outputs         \* outputs a command may print

Actions == {"inspect_http_headers", "inspect_tls_certificate",
            "check_tcp_connection"}
ValidPorts == 1..65535
Absent == -1
Arguments == [target_id: {"ours", "other", "absent"}, port: Int,
              timeout_seconds: Int, extra: BOOLEAN]
Hints == {"http", "https", "ssl", "ssh", "other", "overlong"}
ASSUME ExportAssumption ==
    Exports \subseteq SUBSET [protocol: {"tcp", "udp", "sctp"}, port: Int,
                              state: {"open", "closed"}, hint: Hints]
ASSUME AnswerAssumption == Written \subseteq Arguments
ASSUME RetryAssumption == Retries \in {0, 1} /\ MaxImports \in Nat
\* An output has a length in characters of one width in bytes, and the line
\* that evidence looks for ends at a position, or (0) is not there.
ASSUME OutputAssumption ==
    /\ Outputs \subseteq [length: Nat, width: 1..4, line: Nat, lower: BOOLEAN]
    /\ \A o \in Outputs : o.line <= o.length
    /\ InspectedChars \in Nat /\ ActionChars \in Nat /\ CaptureBytes \in Nat
    /\ InspectedChars < ActionChars
    /\ 4 * (InspectedChars + 1) <= CaptureBytes

VARIABLES
    address,    \* the form of the registered target's address
    imports,    \* number of imports stored
    findings,   \* table findings
    pc,         \* how far each request and its proposal have come
    context,    \* the findings a request read
    attempt,    \* attempts of OllamaProvider.recommend_next_step
    row,        \* table proposals: name, arguments and finding ids
    sent,       \* history: the command that reached Kali
    printed,    \* history: what it printed
    evidence,   \* table action_results: status and evidence
    reply       \* response of the run route

scan == <<address, imports, findings>>
run == <<sent, printed, evidence, reply>>
vars == <<scan, pc, context, attempt, row, run>>

-----------------------------------------------------------------------------
(* The target's address, as the session API and the Kali renderer see it *)

AddressForms == {"ipv4", "ula", "scoped ula", "mapped", "public", "link local"}
PrivateTarget(a) == a \in {"ipv4", "ula", "scoped ula"}
\* Mutant: the renderer forgot the IPv6 range.
PrivateAddressIPv4(a) == a = "ipv4"
PrivateAddress(a) == a \in {"ipv4", "ula"}

-----------------------------------------------------------------------------
(* Answers of a language model *)

Unknown == [import |-> 0, protocol |-> "tcp", port |-> 1, hint |-> "other"]

NoArguments == [target_id |-> "absent", port |-> Absent,
                timeout_seconds |-> Absent, extra |-> FALSE]
ToTarget(port) == [target_id |-> "ours", port |-> port,
                   timeout_seconds |-> Absent, extra |-> FALSE]
WithTimeout(a, seconds) ==
    [target_id |-> a.target_id, port |-> a.port, timeout_seconds |-> seconds,
     extra |-> a.extra]

Malformed == [kind |-> "malformed", finding_ids |-> {}, action_name |-> "none",
              arguments |-> NoArguments, evidence_needed |-> FALSE]
MoreEvidence == [Malformed EXCEPT !.kind = "more_evidence",
                                  !.evidence_needed = TRUE]

\* What a model may answer about a context: right, or wrong in any field.  This
\* is the answer as ProposedStep reads it, which fills in the default of a field
\* that was left out before anything is checked.
Answers(ctx) ==
    [kind: {"action", "more_evidence"},
     finding_ids: SUBSET (ctx \cup {Unknown}),
     action_name: Actions \cup {"unlisted", "none"},
     arguments: Written \cup {NoArguments},
     evidence_needed: BOOLEAN]
    \cup {Malformed}

\* The fields that the model may have left out of the answer that reads as s.
Defaults == [finding_ids |-> {}, action_name |-> "none",
             arguments |-> NoArguments, evidence_needed |-> FALSE]
Omissible(s) == {field \in DOMAIN Defaults : s[field] = Defaults[field]}

\* Mutant: the format leaves the bounds of the timeout out.
OfferedUnbounded(s, missing, ctx) ==
    /\ missing = {}
    /\ s.finding_ids \subseteq ctx
    /\ ~s.arguments.extra
    /\ \/ /\ s.kind = "action" /\ ~s.evidence_needed
          /\ s.finding_ids # {}
          /\ s.action_name \in Actions
          /\ s.arguments.target_id = "ours"
          /\ s.arguments.port \in {f.port : f \in ctx}
          /\ \/ s.arguments.timeout_seconds = Absent
             \/ s.action_name = "check_tcp_connection"
       \/ /\ s.kind = "more_evidence" /\ s.evidence_needed
          /\ s.action_name = "none"
          /\ s.arguments = NoArguments

\* recommendation_schema: one shape for each action, one for more evidence; every
\* field is required.
Offered(s, missing, ctx) ==
    /\ missing = {}
    /\ s.finding_ids \subseteq ctx
    /\ ~s.arguments.extra
    /\ \/ /\ s.kind = "action" /\ ~s.evidence_needed
          /\ s.finding_ids # {}
          /\ s.action_name \in Actions
          /\ s.arguments.target_id = "ours"
          /\ s.arguments.port \in {f.port : f \in ctx}
          /\ \/ s.arguments.timeout_seconds = Absent
             \/ /\ s.action_name = "check_tcp_connection"
                /\ s.arguments.timeout_seconds \in 1..10
       \/ /\ s.kind = "more_evidence" /\ s.evidence_needed
          /\ s.action_name = "none"
          /\ s.arguments = NoArguments

\* ProposedStep.validate_kind_fields
WellFormed(s) ==
    \/ /\ s.kind = "action"
       /\ s.action_name # "none"
       /\ s.finding_ids # {}
       /\ ~s.evidence_needed
    \/ /\ s.kind = "more_evidence"
       /\ s.action_name = "none" /\ s.arguments = NoArguments
       /\ s.evidence_needed

\* _validate_argument, with the constraints of RECOMMENDATION_ACTIONS
ArgumentsValid(s) ==
    LET a == s.arguments IN
    /\ a.target_id = "ours"
    /\ a.port \in ValidPorts
    /\ a.port \in {f.port : f \in s.finding_ids}
    /\ a.timeout_seconds = Absent \/ a.timeout_seconds \in 1..10
    /\ a.timeout_seconds # Absent => s.action_name = "check_tcp_connection"
    /\ ~a.extra

\* Mutant: the port may be that of any finding, cited or not.
StepValidUncited(s, ctx) ==
    /\ WellFormed(s)
    /\ s.finding_ids \subseteq ctx
    /\ s.kind = "action" =>
         /\ s.action_name \in Actions
         /\ ArgumentsValid([s EXCEPT !.finding_ids = ctx])

\* ProposedStep.model_validate_json and validate_against
StepValid(s, ctx) ==
    /\ WellFormed(s)
    /\ s.finding_ids \subseteq ctx
    /\ s.kind = "action" => s.action_name \in Actions /\ ArgumentsValid(s)

CitesItsPort(s) ==
    s.kind = "action" => s.arguments.port \in {f.port : f \in s.finding_ids}

-----------------------------------------------------------------------------
(* The registry: what may be stored, approved and run *)

\* validate_untrusted_proposal, with the argument models
Registered(p, available) ==
    /\ p.action_name \in Actions
    /\ p.arguments.target_id = "ours"
    /\ p.arguments.port \in ValidPorts
    /\ p.arguments.timeout_seconds = Absent
       \/ /\ p.action_name = "check_tcp_connection"
          /\ p.arguments.timeout_seconds \in 1..10
    /\ ~p.arguments.extra
    /\ p.finding_ids # {}
    /\ p.finding_ids \subseteq available

\* Mutant: every dump adds a second of grace to the timeout.
DumpedWithGrace(p) ==
    [action_name |-> p.action_name, finding_ids |-> p.finding_ids,
     arguments |-> IF p.action_name = "check_tcp_connection"
                   THEN WithTimeout(p.arguments,
                            IF p.arguments.timeout_seconds = Absent THEN 5
                            ELSE p.arguments.timeout_seconds + 1)
                   ELSE p.arguments]

\* model_dump fills in the default timeout.
Dumped(p) ==
    [action_name |-> p.action_name, finding_ids |-> p.finding_ids,
     arguments |-> IF /\ p.action_name = "check_tcp_connection"
                      /\ p.arguments.timeout_seconds = Absent
                   THEN WithTimeout(p.arguments, 5)
                   ELSE p.arguments]

\* validate_provider_recommendation: only an action becomes a proposal.
Adoptable(s, ctx) ==
    /\ StepValid(s, ctx)
    /\ s.kind = "action"
    /\ Registered(s, ctx)

NoRow == [action_name |-> "none", finding_ids |-> {},
          arguments |-> NoArguments]

-----------------------------------------------------------------------------
(* The rule-based provider *)

Services == {"http", "https", "ssl", "ssh"}
ServiceAction(hint) ==
    IF hint = "http" THEN "inspect_http_headers"
    ELSE IF hint = "ssh" THEN "check_tcp_connection"
    ELSE "inspect_tls_certificate"

RuleStep(f) ==
    [kind |-> "action", finding_ids |-> {f},
     action_name |-> ServiceAction(f.hint), arguments |-> ToTarget(f.port),
     evidence_needed |-> FALSE]

\* Mutant: the rules do not know every service.
RuleStepsMissing(ctx) ==
    LET known == {f \in ctx : f.hint \in {"http", "ssh"}} IN
    IF known = {} THEN {MoreEvidence} ELSE {RuleStep(f) : f \in known}

\* The first finding by id with a known service; ids say nothing else.
RuleSteps(ctx) ==
    LET known == {f \in ctx : f.hint \in Services} IN
    IF known = {} THEN {MoreEvidence} ELSE {RuleStep(f) : f \in known}

-----------------------------------------------------------------------------
(* The Kali renderer, and the evidence taken from an output *)

\* render_fixed_action and the bound of run_in_kali; timeout is process_timeout.
Timeout(p) ==
    IF p.action_name # "check_tcp_connection" THEN 15
    ELSE IF p.arguments.timeout_seconds = Absent THEN 10
    ELSE p.arguments.timeout_seconds + 5
Rendered(p) == [action_name |-> p.action_name, port |-> p.arguments.port,
                timeout |-> Timeout(p)]
NoCommand == [action_name |-> "none", port |-> 0, timeout |-> 0]

Renders(p, form) ==
    /\ p.action_name \in Actions
    /\ ~p.arguments.extra
    /\ p.arguments.timeout_seconds = Absent
       \/ /\ p.action_name = "check_tcp_connection"
          /\ p.arguments.timeout_seconds \in 1..10
    /\ p.arguments.target_id = "ours"
    /\ PrivateAddress(form)
    /\ p.arguments.port \in ValidPorts
    /\ Timeout(p) <= 60

NoOutput == [length |-> 0, width |-> 1, line |-> 0, lower |-> FALSE]

\* _BoundedDrain.text, then _bounded
Kept(o) ==
    IF o.length * o.width <= CaptureBytes THEN o.length
    ELSE CaptureBytes \div o.width
Bounded(k) == IF k > ActionChars THEN ActionChars ELSE k

\* Mutant: only what _bounded cut counts as truncated.
TruncatedByBoundOnly(o) == Kept(o) > ActionChars

\* output_truncated
Truncated(o) == Kept(o) > ActionChars \/ Bounded(Kept(o)) > InspectedChars

\* structured_evidence: the TLS patterns end at the end of the text, so a value
\* that the cut shortens by a character is still read as a value.
Fact(name, o) ==
    LET text == Bounded(Kept(o))
        seen == IF text > InspectedChars THEN InspectedChars ELSE text
    IN  IF name = "check_tcp_connection" THEN "reachability"
        ELSE IF o.line = 0 \/ (name = "inspect_http_headers" /\ o.lower)
             THEN "none"
        ELSE IF o.line <= seen THEN "whole"
        ELSE IF /\ name = "inspect_tls_certificate"
                /\ seen > 0 /\ o.line = seen + 1
             THEN "shortened"
        ELSE "none"

NoEvidence == [status |-> "none", fact |-> "none", truncated |-> FALSE]
Failure == [status |-> "failed", fact |-> "dispatcher_error",
            truncated |-> FALSE]

\* ActionResultContract: the patterns ignore case, the contract does not.
Fits(name, o, fact) ==
    ~(name = "inspect_tls_certificate" /\ fact # "none" /\ o.lower)

-----------------------------------------------------------------------------
Init ==
    /\ address \in {a \in AddressForms : PrivateTarget(a)}
    /\ imports = 0 /\ findings = {}
    /\ pc = [p \in Proposals |-> "idle"]
    /\ context = [p \in Proposals |-> {}]
    /\ attempt = [p \in Proposals |-> 0]
    /\ row = [p \in Proposals |-> NoRow]
    /\ sent = [p \in Proposals |-> NoCommand]
    /\ printed = [p \in Proposals |-> NoOutput]
    /\ evidence = [p \in Proposals |-> NoEvidence]
    /\ reply = [p \in Proposals |-> "none"]

\* parse_nmap_xml_bytes: what an export of one host says
Parsed(export, n) ==
    {[import |-> n, protocol |-> e.protocol, port |-> e.port,
      hint |-> e.hint] :
        e \in {x \in export : /\ x.protocol \in {"tcp", "udp"}
                              /\ x.port \in ValidPorts
                              /\ x.state = "open"}}

\* Mutant: an import replaces the findings of the one before.
ImportReplaces(export) ==
    /\ imports < MaxImports
    /\ findings' = Parsed(export, imports + 1)
    /\ imports' = imports + 1
    /\ UNCHANGED <<address, pc, context, attempt, row, run>>

\* import_scan: two open elements of one port break uq_scan_port, and the
\* import with all its findings is rolled back; so is an export that is not of
\* the target alone.
Import(export) ==
    /\ imports < MaxImports
    /\ LET new == Parsed(export, imports + 1) IN
       /\ \A f, g \in new :
             f.protocol = g.protocol /\ f.port = g.port => f = g
       /\ findings' = findings \cup new
    /\ imports' = imports + 1
    /\ UNCHANGED <<address, pc, context, attempt, row, run>>

\* recommend_session_action up to the provider. A hint the model's schema
\* refuses raises outside the try: the request ends as a server error.
Ask(p) ==
    /\ pc[p] \in {"idle", "refused", "error"}
    /\ IF \E f \in findings : f.hint = "overlong"
       THEN /\ pc' = [pc EXCEPT ![p] = "error"]
            /\ UNCHANGED <<context, attempt>>
       ELSE /\ pc' = [pc EXCEPT ![p] = "asking"]
            /\ context' = [context EXCEPT ![p] = findings]
            /\ attempt' = [attempt EXCEPT ![p] = 1]
    /\ UNCHANGED <<scan, row, run>>

\* The provider returned s: what is no proposal is replaced by the rules'
\* answer, and an action is stored with its policy decision.
Store(p, s) ==
    /\ pc' = [pc EXCEPT ![p] = IF Adoptable(s, context[p]) THEN "proposed"
                               ELSE "refused"]
    /\ row' = [row EXCEPT ![p] = IF Adoptable(s, context[p]) THEN Dumped(s)
                                 ELSE NoRow]
Settle(p, s) ==
    /\ IF Adoptable(s, context[p]) THEN Store(p, s)
       ELSE \E r \in RuleSteps(context[p]) : Store(p, r)
    /\ UNCHANGED <<scan, context, attempt, run>>

\* Mutant: after the last attempt the provider starts over.
AnswerRestarting(p, a) ==
    /\ pc[p] = "asking"
    /\ IF StepValid(a, context[p]) THEN Settle(p, a)
       ELSE /\ attempt' = [attempt EXCEPT ![p] = IF @ < Retries + 1
                                                THEN @ + 1 ELSE 1]
            /\ UNCHANGED <<scan, pc, context, row, run>>

\* OllamaProvider: the model answered a. The same question is put again only
\* while attempts are left; then the rules answer.
Answer(p, a) ==
    /\ pc[p] = "asking"
    /\ IF StepValid(a, context[p]) THEN Settle(p, a)
       ELSE IF attempt[p] < Retries + 1
       THEN /\ attempt' = [attempt EXCEPT ![p] = @ + 1]
            /\ UNCHANGED <<scan, pc, context, row, run>>
       ELSE \E r \in RuleSteps(context[p]) : Settle(p, r)

\* OllamaProvider: no answer in time, or no connection: the rules at once.
Unavailable(p) ==
    /\ pc[p] = "asking"
    /\ \E r \in RuleSteps(context[p]) : Settle(p, r)

\* approve_proposal, as far as it depends on the proposal
Approve(p) ==
    /\ pc[p] = "proposed"
    /\ Registered(row[p], findings)
    /\ pc' = [pc EXCEPT ![p] = "approved"]
    /\ UNCHANGED <<scan, context, attempt, row, run>>

\* _run_approved_action up to the dispatcher: the stored row is validated, and
\* its dump is rendered; a refusal is recorded as a failure of the dispatcher.
Dispatch(p) ==
    /\ pc[p] = "approved"
    /\ Registered(row[p], findings)
    /\ LET action == Dumped(row[p]) IN
       IF Renders(action, address)
       THEN /\ sent' = [sent EXCEPT ![p] = Rendered(action)]
            /\ pc' = [pc EXCEPT ![p] = "running"]
            /\ UNCHANGED <<evidence, reply>>
       ELSE /\ evidence' = [evidence EXCEPT ![p] = Failure]
            /\ reply' = [reply EXCEPT ![p] = "unavailable"]
            /\ pc' = [pc EXCEPT ![p] = "done"]
            /\ UNCHANGED sent
    /\ UNCHANGED <<scan, context, attempt, row, printed>>

\* The command ended, failed, ran out of time, or wsl.exe could not be run:
\* the result is stored before the response is built from it.
Finish(p, status, o) ==
    /\ pc[p] = "running"
    /\ LET name == sent[p].action_name
           fact == Fact(name, o)
       IN  /\ evidence' = [evidence EXCEPT ![p] =
                 [status |-> status, fact |-> fact, truncated |-> Truncated(o)]]
           /\ reply' = [reply EXCEPT ![p] =
                 IF Fits(name, o, fact) THEN "result" ELSE "error"]
    /\ printed' = [printed EXCEPT ![p] = o]
    /\ pc' = [pc EXCEPT ![p] = "done"]
    /\ UNCHANGED <<scan, context, attempt, row, sent>>

\* dispatch raised
Raise(p) ==
    /\ pc[p] = "running"
    /\ evidence' = [evidence EXCEPT ![p] = Failure]
    /\ reply' = [reply EXCEPT ![p] = "unavailable"]
    /\ pc' = [pc EXCEPT ![p] = "done"]
    /\ UNCHANGED <<scan, context, attempt, row, sent, printed>>

Provider(p) ==
    /\ pc[p] = "asking"
    /\ Unavailable(p) \/ \E a \in Answers(context[p]) : Answer(p, a)
Terminal == {"completed", "failed", "timed_out"}
Next ==
    \/ \E export \in Exports : Import(export)
    \/ \E p \in Proposals :
          \/ Ask(p) \/ Provider(p) \/ Approve(p) \/ Dispatch(p) \/ Raise(p)
          \/ \E status \in Terminal, o \in Outputs : Finish(p, status, o)

Spec == Init /\ [][Next]_vars

\* The request to Ollama has a timeout, so the provider always returns.
FairSpec == Spec /\ \A p \in Proposals : WF_vars(Provider(p))

-----------------------------------------------------------------------------
Decided == {"proposed", "approved", "running", "done"}

\* Every finding was imported with a valid port, a request's findings are still
\* in the table, a stored row passes the registry again, and what ran was
\* rendered from its row (session_api, approval_api, execution_api).
TypeOK ==
    /\ address \in AddressForms /\ PrivateTarget(address)
    /\ imports \in 0..MaxImports
    /\ \A f \in findings : f.port \in ValidPorts
    /\ pc \in [Proposals ->
         {"idle", "asking", "refused", "error"} \cup Decided]
    /\ attempt \in [Proposals -> 0..Retries + 1]
    /\ DOMAIN row = Proposals /\ DOMAIN sent = Proposals
    /\ DOMAIN context = Proposals
    /\ DOMAIN printed = Proposals /\ DOMAIN evidence = Proposals
    /\ DOMAIN reply = Proposals
Local(p) ==
    /\ context[p] \subseteq findings
    /\ pc[p] \in Decided =>
         /\ Registered(row[p], findings)
         /\ Dumped(row[p]) = row[p]
         /\ row[p].arguments.port \in {f.port : f \in row[p].finding_ids}
    /\ sent[p] # NoCommand =>
         /\ pc[p] \in {"running", "done"}
         /\ sent[p] = Rendered(row[p])
    /\ pc[p] = "running" => sent[p] # NoCommand
IInv == TypeOK /\ \A p \in Proposals : Local(p)

\* What runs in Kali goes to a port that an imported scan of this target
\* reported open, the one a finding the proposal cites names, with a listed
\* action, whatever the language model wrote. The port is compared with the
\* cited findings in one of the four validators only
\* (ProposedStep._validate_argument).
SentIsSupported ==
    \A p \in Proposals : sent[p] # NoCommand =>
        /\ sent[p].action_name \in Actions
        /\ \E f \in row[p].finding_ids \cap findings : f.port = sent[p].port

\* The command is the one the user was shown and approved: validating the
\* stored proposal again, at approval and at the run, changes nothing in it
\* (model_dump fills in a default, action_protected_hash binds the dump).
SentAsShown ==
    \A p \in Proposals : sent[p] # NoCommand => sent[p] = Rendered(row[p])

\* A proposal that was stored can be approved and run: imports that came since
\* the provider was asked do not make it invalid (_validated_stored_proposal).
StaysApprovable ==
    \A p \in Proposals :
        pc[p] \in {"proposed", "approved"} => Registered(row[p], findings)

\* The registry and the renderer agree: a failure in the dispatcher before any
\* command was sent means a scoped IPv6 target, which the session API takes
\* and the renderer refuses (validate_private_target, _private_address).
RenderAgrees ==
    \A p \in Proposals :
        pc[p] = "done" /\ sent[p] = NoCommand => address = "scoped ula"

\* NO_SAFE_ACTION is answered only when no finding that was read has a service
\* the rules know, whatever the provider did (recommend_session_action).
FallbackFindsStep ==
    \A p \in Proposals :
        pc[p] = "refused" => \A f \in context[p] : f.hint \notin Services

\* The format and the checks are written twice: recommendation_schema, which
\* "lists only answers RedPath would accept", and validate_against. Every answer
\* in the format is accepted, unless its port is that of a finding it does not
\* cite; and the format excludes no step that the checks take: an answer that is
\* accepted is in the format as soon as no field is left to its default.
FormatMatchesChecks ==
    \A p \in Proposals : pc[p] = "asking" =>
        \A s \in Answers(context[p]) :
            /\ \A missing \in SUBSET Omissible(s) :
                  Offered(s, missing, context[p]) /\ CitesItsPort(s) =>
                      StepValid(s, context[p])
            /\ StepValid(s, context[p]) =>
                  Offered(s, {}, context[p]) /\ CitesItsPort(s)

\* Evidence that is not marked truncated is complete: a line that was printed
\* was read, and whole, through three cuts of which the first is in bytes and
\* leaves no mark (MAX_CAPTURE_BYTES, MAX_ACTION_OUTPUT_CHARS,
\* MAX_INSPECTED_OUTPUT_CHARS).
EvidenceIsWhole ==
    \A p \in Proposals :
        evidence[p].status \in Terminal /\ ~evidence[p].truncated =>
            /\ evidence[p].fact # "shortened"
            /\ evidence[p].fact = "none" =>
                 printed[p].line = 0 \/ printed[p].lower

\* A run whose result is stored is answered with it, unless the TLS tool wrote
\* a name in lower case: the response contract is stricter than what was read
\* (structured_evidence, ActionResultContract; _persist_result commits first).
ReplyFits ==
    \A p \in Proposals : reply[p] = "error" =>
        printed[p].lower /\ sent[p].action_name = "inspect_tls_certificate"

\* A request for a recommendation is answered, by the model or by the rules,
\* however often the model answers wrong (recommend_next_step).
AskSettles == \A p \in Proposals : pc[p] = "asking" ~> pc[p] # "asking"

=============================================================================
