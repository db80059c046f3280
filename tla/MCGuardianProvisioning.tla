------------------------ MODULE MCGuardianProvisioning ------------------------
EXTENDS GuardianProvisioning, TLC

CONSTANTS i1, i2, t1, t2, c1, c2

\* The second issuer is not in the service's configuration.
MCIssuerOf == [t \in Tokens |-> i1]

\* An issuer takes four calls to provision, a token two.  Besides the fresh service the
\* run starts where the running service has provisioned i1, which is initialized, so that
\* the calls left are for tokens: six, for one token provisioned again and another, where
\* the service does not start again, and five where it may.
Provisioned ==
  /\ up = TRUE /\ generated = 2
  /\ \/ startups = MaxStartups /\ sent = 0
     \/ startups = 1 /\ sent = 1
  /\ management = 1 /\ service = 2
  /\ keystore = [t \in Tokens |-> NoKey]
  /\ endpoints = {i1}
  /\ held = [i \in TokenIssuers |-> IF i = i1 THEN management ELSE NoKey]
  /\ generation = [t \in Tokens |-> NoKey]
  /\ plan = [c \in Clients |-> <<>>]
  /\ subject = [c \in Clients |-> NoContract]
  /\ metadata = [c \in Clients |-> FALSE]
  /\ waiting = [c \in Clients |-> 0]
  /\ calls = {} /\ answers = {}
  /\ asked = [t \in Tokens |-> 0]

MCSpec == (ProvisioningInit \/ Provisioned) /\ [][ProvisioningNext]_provisioningVars

\* The clients are alike.
Symmetry == Permutations(Clients)
=============================================================================
