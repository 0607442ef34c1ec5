------------------------------ MODULE Services ------------------------------
(***************************************************************************)
(* The components that promise safety only and share nothing but the       *)
(* daemon: a behaviour is of one of them, `part`, and the others keep      *)
(* their initial state.                                                    *)
(***************************************************************************)
EXTENDS Storage, Sequences

CONSTANTS
    \* of SignIn
    SignInRequests, SignInAddresses, SignInIdle, SignInAbsolute, SignInMaxDelay,
    SignInMaxTracked, SignInMaxTime, SignInMaxPasswords, SignInMaxSessions,
    SignInMaxBegun, SignInMaxRestarts,
    \* of TokenFile
    TokenHandlers, TokenCommands, TokenNames, TokenMaxSecrets, TokenMaxBegun,
    \* of StudioGate
    GatePieces, GateLongest,
    \* of Enqueue
    SendNames, SendRequests, SendMaxProjects, SendMaxQueues, SendMaxBegun,
    \* of Doors
    DoorNetworks, DoorLocal, DoorCalls, DoorMaxFaults, DoorMaxCalls, DoorMaxStarts,
    \* of Wire
    WireScripts, WireSessions, WireNegotiations, WireMaxDials,
    \* of Addresses
    AddressProjectNames, AddressDatabaseNames, AddressComputeNames, AddressComputes,
    AddressPorts, AddressMaxIds,
    \* of Tls
    CertClients, CertMaxVersion, CertMaxFaults,
    \* of SingleInstance
    LockProcs, LockPids, LockNobody, LockUser, LockRoot, LockFaults

ASSUME LockAbsence == LockNobody \notin LockProcs \cup LockPids
ASSUME SignInNumbers ==
    /\ SignInIdle \in Nat /\ SignInAbsolute \in Nat /\ SignInMaxDelay \in Nat
    /\ SignInMaxTime \in Nat /\ SignInMaxPasswords \in Nat /\ SignInMaxTracked \in Nat \ {0}
ASSUME AddressShape ==
    /\ AddressPorts \subseteq Nat /\ IsFiniteSet(AddressPorts)
    /\ AddressProjectNames \cup AddressDatabaseNames \cup AddressComputeNames
         \subseteq Seq(STRING) \ {<<>>}
    /\ \A n \in AddressProjectNames : AddressComputes[n] \in {"app", "worker"}
ASSUME TokenBound == TokenMaxSecrets \in Nat
ASSUME SendBound == SendMaxProjects \in Nat

VARIABLES
    part,  \* the component this behaviour is of
    signin_now, signin_password, signin_sessions, signin_tracked, signin_wait,
    signin_req, signin_begun, signin_restarts, signin_life, signin_streak,
    signin_dropped,
    tokens_file, tokens_torn, tokens_op, tokens_minted, tokens_begun, tokens_known,
    tokens_revoked, tokens_spoiled,
    gate_path, gate_method, gate_credential, gate_built, gate_answer,
    enqueue_project, enqueue_worker, enqueue_queue, enqueue_file, enqueue_removal,
    enqueue_req, enqueue_projects, enqueue_queues, enqueue_begun, enqueue_raced,
    doors_pc, doors_socketFile, doors_made, doors_todo, doors_proxyOpen,
    doors_proxyBound, doors_queueOpen, doors_queueBound, doors_router, doors_caddy,
    doors_hook, doors_call, doors_faults, doors_calls, doors_starts, doors_unbound,
    doors_early, doors_late, doors_first,
    wire_pc, wire_script, wire_got, wire_asked, wire_tls, wire_encrypted,
    wire_remote, wire_answers, wire_minting, wire_session, wire_left, wire_held,
    wire_out, wire_key, wire_dials, wire_refused,
    addresses_projects, addresses_rows, addresses_boxes, addresses_snapshot,
    addresses_copy, addresses_ids, addresses_shared,
    tls_disk, tls_version, tls_renewing, tls_turn, tls_rebuilding, tls_current,
    tls_accepting, tls_ids, tls_closed, tls_faults, tls_client, tls_due,
    lock_at, lock_written, lock_pc, lock_pid, lock_others, lock_seen, lock_attempt,
    lock_contended, lock_misread

\* The operator's logins and sessions.
Sign == INSTANCE SignIn WITH
    Requests <- SignInRequests, Addresses <- SignInAddresses, Idle <- SignInIdle,
    Absolute <- SignInAbsolute, MaxDelay <- SignInMaxDelay,
    MaxTracked <- SignInMaxTracked, MaxTime <- SignInMaxTime,
    MaxPasswords <- SignInMaxPasswords, MaxSessions <- SignInMaxSessions,
    MaxBegun <- SignInMaxBegun, MaxRestarts <- SignInMaxRestarts, now <- signin_now,
    password <- signin_password, sessions <- signin_sessions,
    tracked <- signin_tracked, wait <- signin_wait, req <- signin_req,
    begun <- signin_begun, restarts <- signin_restarts, life <- signin_life,
    streak <- signin_streak, dropped <- signin_dropped

\* Requests and commands at the file of API tokens.
Tokens == INSTANCE TokenFile WITH
    Handlers <- TokenHandlers, Commands <- TokenCommands, Names <- TokenNames,
    MaxSecrets <- TokenMaxSecrets, MaxBegun <- TokenMaxBegun, file <- tokens_file,
    torn <- tokens_torn,
    op <- tokens_op, minted <- tokens_minted, begun <- tokens_begun,
    known <- tokens_known, revoked <- tokens_revoked, spoiled <- tokens_spoiled

\* The gate before the daemon's routes.
Gate == INSTANCE StudioGate WITH
    Pieces <- GatePieces, Longest <- GateLongest, path <- gate_path, method <- gate_method,
    credential <- gate_credential, built <- gate_built, answer <- gate_answer

\* Workers that send while projects and queues go and come back.
Send == INSTANCE Enqueue WITH
    Names <- SendNames, Requests <- SendRequests, MaxProjects <- SendMaxProjects,
    MaxQueues <- SendMaxQueues, MaxBegun <- SendMaxBegun, project <- enqueue_project,
    worker <- enqueue_worker, queue <- enqueue_queue, file <- enqueue_file,
    removal <- enqueue_removal, req <- enqueue_req, projects <- enqueue_projects,
    queues <- enqueue_queues, begun <- enqueue_begun, raced <- enqueue_raced

\* A daemon that starts and stops while networks are made.
Door == INSTANCE Doors WITH
    Networks <- DoorNetworks, Local <- DoorLocal, Calls <- DoorCalls,
    MaxFaults <- DoorMaxFaults, MaxCalls <- DoorMaxCalls, MaxStarts <- DoorMaxStarts,
    pc <- doors_pc,
    socketFile <- doors_socketFile, made <- doors_made, todo <- doors_todo,
    proxyOpen <- doors_proxyOpen, proxyBound <- doors_proxyBound,
    queueOpen <- doors_queueOpen, queueBound <- doors_queueBound,
    router <- doors_router, caddy <- doors_caddy, hook <- doors_hook,
    call <- doors_call, faults <- doors_faults, calls <- doors_calls,
    starts <- doors_starts, unbound <- doors_unbound, early <- doors_early,
    late <- doors_late, first <- doors_first

\* What clients ask and backends say.
Frames == INSTANCE Wire WITH
    Scripts <- WireScripts, Sessions <- WireSessions, Negotiations <- WireNegotiations,
    MaxDials <- WireMaxDials, pc <- wire_pc, script <- wire_script, got <- wire_got,
    asked <- wire_asked, tls <- wire_tls, encrypted <- wire_encrypted,
    remote <- wire_remote, answers <- wire_answers, minting <- wire_minting,
    session <- wire_session, left <- wire_left, held <- wire_held, out <- wire_out,
    key <- wire_key, dials <- wire_dials, refused <- wire_refused

\* Every address of a project and its resources.
Address == INSTANCE Addresses WITH
    ProjectNames <- AddressProjectNames, DatabaseNames <- AddressDatabaseNames,
    ComputeNames <- AddressComputeNames, Computes <- AddressComputes,
    Ports <- AddressPorts, MaxIds <- AddressMaxIds, projects <- addresses_projects,
    rows <- addresses_rows, boxes <- addresses_boxes,
    snapshot <- addresses_snapshot, copy <- addresses_copy, ids <- addresses_ids,
    shared <- addresses_shared

\* Connections while a certificate is renewed.
Cert == INSTANCE Tls WITH
    Clients <- CertClients, MaxVersion <- CertMaxVersion, MaxFaults <- CertMaxFaults,
    disk <- tls_disk,
    version <- tls_version, renewing <- tls_renewing, turn <- tls_turn,
    rebuilding <- tls_rebuilding, current <- tls_current,
    accepting <- tls_accepting, ids <- tls_ids, closed <- tls_closed,
    faults <- tls_faults, client <- tls_client, due <- tls_due

\* Daemons of the box's users at one lock.
Lock == INSTANCE SingleInstance WITH
    Procs <- LockProcs, Pids <- LockPids, Nobody <- LockNobody, User <- LockUser,
    Root <- LockRoot, Faults <- LockFaults, at <- lock_at, written <- lock_written,
    pc <- lock_pc, pid <- lock_pid, others <- lock_others, seen <- lock_seen,
    attempt <- lock_attempt, contended <- lock_contended, misread <- lock_misread

signinVars ==
    <<signin_now, signin_password, signin_sessions, signin_tracked, signin_wait,
      signin_req, signin_begun, signin_restarts, signin_life, signin_streak,
      signin_dropped>>
tokensVars ==
    <<tokens_file, tokens_torn, tokens_op, tokens_minted, tokens_begun,
      tokens_known, tokens_revoked, tokens_spoiled>>
gateVars ==
    <<gate_path, gate_method, gate_credential, gate_built, gate_answer>>
enqueueVars ==
    <<enqueue_project, enqueue_worker, enqueue_queue, enqueue_file,
      enqueue_removal, enqueue_req, enqueue_projects, enqueue_queues,
      enqueue_begun, enqueue_raced>>
doorsVars ==
    <<doors_pc, doors_socketFile, doors_made, doors_todo, doors_proxyOpen,
      doors_proxyBound, doors_queueOpen, doors_queueBound, doors_router,
      doors_caddy, doors_hook, doors_call, doors_faults, doors_calls, doors_starts,
      doors_unbound, doors_early, doors_late, doors_first>>
wireVars ==
    <<wire_pc, wire_script, wire_got, wire_asked, wire_tls, wire_encrypted,
      wire_remote, wire_answers, wire_minting, wire_session, wire_left, wire_held,
      wire_out, wire_key, wire_dials, wire_refused>>
addressesVars ==
    <<addresses_projects, addresses_rows, addresses_boxes, addresses_snapshot,
      addresses_copy, addresses_ids, addresses_shared>>
tlsVars ==
    <<tls_disk, tls_version, tls_renewing, tls_turn, tls_rebuilding, tls_current,
      tls_accepting, tls_ids, tls_closed, tls_faults, tls_client, tls_due>>
lockVars ==
    <<lock_at, lock_written, lock_pc, lock_pid, lock_others, lock_seen, lock_attempt,
      lock_contended, lock_misread>>
everything == <<part, vars, signinVars, tokensVars, gateVars, enqueueVars, doorsVars,
                wireVars, addressesVars, tlsVars, lockVars>>

Parts == {"storage", "signin", "tokens", "gate", "enqueue", "doors", "wire", "addresses",
          "tls", "lock"}

EveryInit ==
    /\ part \in Parts
    /\ Init /\ Sign!Init /\ Tokens!Init /\ Gate!Init /\ Send!Init /\ Door!Init
    /\ Frames!Init /\ Address!Init /\ Cert!Init /\ Lock!Init

EveryNext ==
    \/ part = "storage" /\ Next
       /\ UNCHANGED <<part, signinVars, tokensVars, gateVars, enqueueVars, doorsVars,
                      wireVars, addressesVars, tlsVars, lockVars>>
    \/ part = "signin" /\ Sign!Next
       /\ UNCHANGED <<part, vars, tokensVars, gateVars, enqueueVars, doorsVars, wireVars,
                      addressesVars, tlsVars, lockVars>>
    \/ part = "tokens" /\ Tokens!Next
       /\ UNCHANGED <<part, vars, signinVars, gateVars, enqueueVars, doorsVars, wireVars,
                      addressesVars, tlsVars, lockVars>>
    \/ part = "gate" /\ Gate!Next
       /\ UNCHANGED <<part, vars, signinVars, tokensVars, enqueueVars, doorsVars, wireVars,
                      addressesVars, tlsVars, lockVars>>
    \/ part = "enqueue" /\ Send!Next
       /\ UNCHANGED <<part, vars, signinVars, tokensVars, gateVars, doorsVars, wireVars,
                      addressesVars, tlsVars, lockVars>>
    \/ part = "doors" /\ Door!Next
       /\ UNCHANGED <<part, vars, signinVars, tokensVars, gateVars, enqueueVars, wireVars,
                      addressesVars, tlsVars, lockVars>>
    \/ part = "wire" /\ Frames!Next
       /\ UNCHANGED <<part, vars, signinVars, tokensVars, gateVars, enqueueVars, doorsVars,
                      addressesVars, tlsVars, lockVars>>
    \/ part = "addresses" /\ Address!Next
       /\ UNCHANGED <<part, vars, signinVars, tokensVars, gateVars, enqueueVars, doorsVars,
                      wireVars, tlsVars, lockVars>>
    \/ part = "tls" /\ Cert!Next
       /\ UNCHANGED <<part, vars, signinVars, tokensVars, gateVars, enqueueVars, doorsVars,
                      wireVars, addressesVars, lockVars>>
    \/ part = "lock" /\ Lock!Next
       /\ UNCHANGED <<part, vars, signinVars, tokensVars, gateVars, enqueueVars, doorsVars,
                      wireVars, addressesVars, tlsVars>>

SpecServices == EveryInit /\ [][EveryNext]_everything

-----------------------------------------------------------------------------
\* A component's property, looked at where that component moves.
At(p, F) == part = p => F

\* What each component promises, stated at its module: the operator's sessions and the
\* throttle,
SignInsAreSound == At("signin", Sign!SignInsAreSound)
\* the file of tokens,
TokensAreSound == At("tokens", Tokens!TokensAreSound)
\* the gate before the daemon's routes,
GateIsSound == At("gate", Gate!GateIsSound)
\* the enqueue listener,
SendsAreSound == At("enqueue", Send!SendsAreSound)
\* the daemon's listeners,
DoorsAreSound == Door!DoorsAreSound
\* the framing of a startup,
FramingIsExact == At("wire", Frames!FramingIsExact)
\* the addresses of everything,
AddressesLead == At("addresses", Address!AddressesLead)
\* the certificate of the proxy,
TlsIsSound == At("tls", Cert!TlsIsSound)
\* and the daemon's lock.
LockIsSound == At("lock", Lock!LockIsSound)
=============================================================================
