--------------------------- MODULE IdentityProofs ---------------------------
(***************************************************************************)
(* Crashes at any step of any number of launches neither break the identity *)
(* nor make the client forget it while writes go through, and files that    *)
(* belong together are never touched again, whether they do or not.         *)
(*                                                                          *)
(* The argument: gs_init saves the key before the certificate, so a usable  *)
(* certificate file implies the key file that goes with it; a launch that   *)
(* generates therefore starts from an unusable certificate file, and no     *)
(* launch generates after one has been saved whole.  Where writes fail this *)
(* is lost, but a launch that generates has found one file unusable, and    *)
(* its new key goes with no certificate that is already on disk.            *)
(***************************************************************************)
EXTENDS Identity, TLAPS

Generating == { "generate", "openKey", "writeKey", "openCert", "writeCert" }
Saving     == { "openKey", "writeKey", "openCert", "writeCert" }
Generated  == Saving \union { "ready" }

\* While an identity is made and saved, the files do not belong together.
NoMatchYet ==
    /\ { keyFile, certFile } \subseteq used \union { None }
    /\ proc \in Generated => key \in used
    /\ proc \in Saving => cert = key /\ certFile # key
    /\ proc \in Generating => keyFile = None \/ keyFile # certFile

\* The certificate file is the last to become usable.
CertLast ==
    /\ certFile # None => keyFile = certFile
    /\ proc \in Generating => certFile = None

\* What the process holds, and what of it is on disk already.
HeldAndSaved ==
    /\ proc \in Generated => key \in Identities /\ cert = key
    /\ proc \in { "openCert", "writeCert", "ready" } => keyFile = key
    /\ proc = "ready" => certFile = cert

\* The server knows the identity on disk and no other.
PairedIsSaved == paired # {} => certFile # None /\ paired = { certFile }

Sound == CertLast /\ HeldAndSaved /\ PairedIsSaved

IInv == TypeOK /\ NoMatchYet /\ (spoilt \/ Sound)

------------------------------------------------------------------------------

\* The invariant holds before the first launch (placeholders on disk).
LEMMA InitIInv == Init => IInv
  BY DEF Init, IInv, TypeOK, Places, NoMatchYet, Sound, CertLast, HeldAndSaved,
         PairedIsSaved, Generating, Saving, Generated

\* Every step of gs_init (gamestream.c:236-333), a crash included, preserves it.
LEMMA IInvStep == ASSUME IInv, [Next]_vars PROVE IInv'
  <1> USE IdentityAssumption DEF IInv, TypeOK, Places, NoMatchYet, Sound,
          CertLast, HeldAndSaved, PairedIsSaved, Generating, Saving, Generated
  <1>1. CASE Launch
    BY <1>1 DEF Launch
  <1>2. CASE Load
    BY <1>2 DEF Load, Loadable
  <1>3. CASE Generate
    BY <1>3 DEF Generate, NewCert
  <1>4. CASE OpenKey
    BY <1>4 DEF OpenKey
  <1>5. CASE WriteKey
    BY <1>5 DEF WriteKey
  <1>6. CASE OpenCert
    BY <1>6 DEF OpenCert
  <1>7. CASE WriteCert
    BY <1>7 DEF WriteCert
  <1>8. CASE Pair
    BY <1>8 DEF Pair
  <1>9. CASE Stop
    BY <1>9 DEF Stop
  <1>10. CASE UNCHANGED vars
    BY <1>10 DEF vars
  <1> QED
    BY <1>1, <1>2, <1>3, <1>4, <1>5, <1>6, <1>7, <1>8, <1>9, <1>10 DEF Next

\* The invariant holds of every behaviour.
THEOREM Inductive == Spec => []IInv
  <1>1. IInv /\ [Next]_vars => IInv'
    BY IInvStep
  <1> QED
    BY <1>1, InitIInv, PTL DEF Spec

\* Type correctness of the identity's state.
THEOREM TypeCorrect == Spec => []TypeOK
  <1>1. IInv => TypeOK
    BY DEF IInv
  <1> QED
    BY <1>1, Inductive, PTL

\* A process runs with a key and a certificate that belong together
\* (gamestream.c:255-266).
THEOREM IdentityIsWhole == Spec => []LoadedMatches
  <1>1. IInv => LoadedMatches
    BY DEF IInv, Sound, HeldAndSaved, Generated, Saving, LoadedMatches
  <1> QED
    BY <1>1, Inductive, PTL

\* The server remembers the client across launches and crashes
\* (gamestream.c:214).
THEOREM ServerRemembers == Spec => []RemembersAcrossLaunches
  <1>1. IInv => RemembersAcrossLaunches
    BY DEF IInv, Sound, HeldAndSaved, PairedIsSaved, RemembersAcrossLaunches
  <1> QED
    BY <1>1, Inductive, PTL

\* No step touches files that belong together (gamestream.c:254-265, 328-329).
THEOREM SavedIsKept == Spec => MatchIsKept
  <1>1. IInv /\ [Next]_vars
        => [ keyFile # None /\ keyFile = certFile => UNCHANGED files ]_files
    BY IdentityAssumption
       DEF IInv, NoMatchYet, Generating, files, vars, Next, Launch, Load,
           Generate, OpenKey, WriteKey, OpenCert, WriteCert, Pair, Stop
  <1> QED
    BY <1>1, Inductive, PTL DEF Spec, MatchIsKept

\* Both files parse and no launch is writing: whether they belong together is
\* not looked at any more (gamestream.c:254-265).
Settled == Loadable /\ proc \in { "off", "load", "ready" }

\* Such files are never written again, be they right or wrong
\* (gamestream.c:254-265): SavedIsKept has a converse.
THEOREM SettledStays == Spec => [][Settled => Settled' /\ UNCHANGED files]_vars
  <1>1. [Next]_vars => [Settled => Settled' /\ UNCHANGED files]_vars
    BY DEF Settled, Loadable, files, vars, Next, Launch, Load, Generate,
           OpenKey, WriteKey, OpenCert, WriteCert, Pair, Stop
  <1> QED
    BY <1>1, PTL DEF Spec

\* The files hold the key of one identity and the certificate of another, and
\* no process runs that still has both parts of its own.
Mixed ==
    /\ Loadable /\ keyFile # certFile
    /\ \/ proc \in { "off", "load" }
       \/ proc = "ready" /\ key # cert

\* A failed write can leave that (gamestream.c:228-233), and then no later
\* launch gets out of it: "saved identity corrupt, regenerating"
\* (gamestream.c:266) does not see it.
THEOREM MixedIsForGood == Spec => [](Mixed => []Mixed)
  <1>1. Mixed /\ [Next]_vars => Mixed'
    BY DEF Mixed, Loadable, vars, Next, Launch, Load, Generate, OpenKey,
           WriteKey, OpenCert, WriteCert, Pair, Stop
  <1> QED
    BY <1>1, PTL DEF Spec

==============================================================================
