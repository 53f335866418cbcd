----------------------------- MODULE MCSupport -----------------------------
(***************************************************************************)
(* Instances for Support: a first deployment and two candidates for its    *)
(* successor, one of which pins upgraded programs and one of which may be  *)
(* launched without asking for the attestation; sound configurations of    *)
(* either environment at the first, a middle and the last port and beyond. *)
(***************************************************************************)
EXTENDS Support

Candidate(lock, expected, deployment, attested) ==
  [lock |-> lock, expected |-> expected, deployment |-> deployment, attested |-> attested]

Candidates ==
  {Candidate(1, 1, 1, TRUE), Candidate(2, 1, 2, FALSE), Candidate(2, 2, 2, TRUE)}

MixedConfigurations ==
  { c \in [production : BOOLEAN, sound : BOOLEAN, port : {0, 2, 4},
           fallback : {"true", "false", "unset"}, network : {"mainnet-beta", "devnet"},
           origins : SUBSET {"site", "*"}, token : {"short", "long"},
           strict : BOOLEAN, genesis : BOOLEAN] :
      /\ ~c.sound \/ ~c.genesis => c.strict /\ c.origins = {"site"} }
============================================================================
