------------------------------ MODULE Identity ------------------------------
(***************************************************************************)
(* The client's identity: the RSA key and the self-signed certificate that  *)
(* gs_init (gamestream.c:214-333) loads from two files or generates and     *)
(* saves, over any number of launches that may crash at any step; and the   *)
(* server's memory of the certificates it has paired with.                  *)
(*                                                                          *)
(* A key and the certificate made from it carry the same identity.  A file  *)
(* that is absent, empty, cut short or a placeholder holds None: gs_init    *)
(* treats all of them alike.                                                *)
(***************************************************************************)
CONSTANTS
    Identities,     \* what the key generator may produce
    None            \* what an unusable file holds

ASSUME IdentityAssumption == None \notin Identities

VARIABLES
    proc,       \* where the process is
    key,        \* s_client_key and s_key_pem
    cert,       \* s_client_cert and s_cert_pem
    keyFile,    \* client_key.pem
    certFile,   \* client_cert.pem
    used,       \* identities generated so far: none is generated twice
    paired,     \* certificates the server has paired with
    spoilt      \* ghost: some write has failed

vars == << proc, key, cert, keyFile, certFile, used, paired, spoilt >>
files == << keyFile, certFile >>

Places == { "off", "load", "generate", "openKey", "writeKey", "openCert",
            "writeCert", "ready" }

TypeOK ==
    /\ proc \in Places
    /\ { key, cert, keyFile, certFile } \subseteq Identities \union { None }
    /\ used \subseteq Identities
    /\ paired \subseteq Identities
    /\ spoilt \in BOOLEAN

\* The package installs placeholders that do not parse.
Init ==
    /\ proc = "off"
    /\ key = None /\ cert = None
    /\ keyFile = None /\ certFile = None
    /\ used = {} /\ paired = {}
    /\ spoilt = FALSE

(***************************************************************************)
(* gs_init                                                                  *)
(***************************************************************************)

Launch ==
    /\ proc = "off"
    /\ proc' = "load"
    /\ UNCHANGED << key, cert, keyFile, certFile, used, paired, spoilt >>

\* Mutant: the key alone decides.
Loadable_KeyOnly == keyFile # None

\* Mutant: every saved identity is taken for corrupt.
Loadable_Never == FALSE

\* Both files are there and both parse.  That they belong together is not
\* looked at.
Loadable == keyFile # None /\ certFile # None

Load ==
    /\ proc = "load"
    /\ \/ /\ Loadable
          /\ key' = keyFile /\ cert' = certFile
          /\ proc' = "ready"
       \/ /\ ~Loadable
          /\ proc' = "generate"
          /\ UNCHANGED << key, cert >>
    /\ UNCHANGED << keyFile, certFile, used, paired, spoilt >>

\* Mutant: the certificate's place is given the old certificate.
NewCert_Kept(id) == cert

\* The certificate is made from the new key.
NewCert(id) == id

\* A failure ends main with an error.
Generate ==
    /\ proc = "generate"
    /\ \/ \E id \in Identities \ used :
            /\ key' = id
            /\ cert' = NewCert(id)
            /\ used' = used \union { id }
            /\ proc' = "openKey"
       \/ /\ proc' = "off"
          /\ key' = None /\ cert' = None
          /\ UNCHANGED used
    /\ UNCHANGED << keyFile, certFile, paired, spoilt >>

\* save_pem_file, for the key: opening truncates the file ...
OpenKey ==
    /\ proc = "openKey"
    /\ \/ proc' = "writeKey" /\ keyFile' = None /\ UNCHANGED spoilt
       \/ proc' = "openCert" /\ UNCHANGED keyFile /\ spoilt' = TRUE
    /\ UNCHANGED << key, cert, certFile, used, paired >>

\* ... and closing it leaves what was written, the result unlooked at.
WriteKey ==
    /\ proc = "writeKey"
    /\ proc' = "openCert"
    /\ \/ keyFile' = key /\ UNCHANGED spoilt
       \/ UNCHANGED keyFile /\ spoilt' = TRUE
    /\ UNCHANGED << key, cert, certFile, used, paired >>

\* save_pem_file again, for the certificate.
OpenCert ==
    /\ proc = "openCert"
    /\ \/ proc' = "writeCert" /\ certFile' = None /\ UNCHANGED spoilt
       \/ proc' = "ready" /\ UNCHANGED certFile /\ spoilt' = TRUE
    /\ UNCHANGED << key, cert, keyFile, used, paired >>

WriteCert ==
    /\ proc = "writeCert"
    /\ proc' = "ready"
    /\ \/ certFile' = cert /\ UNCHANGED spoilt
       \/ UNCHANGED certFile /\ spoilt' = TRUE
    /\ UNCHANGED << key, cert, keyFile, used, paired >>

(***************************************************************************)
(* What follows gs_init, and the end of the process.                        *)
(***************************************************************************)

\* gs_pair: the server checks that the client signs with the key of the
\* certificate it presents, and remembers the certificate.
Pair ==
    /\ proc = "ready"
    /\ key = cert
    /\ paired' = paired \union { cert }
    /\ UNCHANGED << proc, key, cert, keyFile, certFile, used, spoilt >>

\* The process ends, in its own time or in the middle of gs_init.
Stop ==
    /\ proc # "off"
    /\ proc' = "off"
    /\ key' = None /\ cert' = None
    /\ UNCHANGED << keyFile, certFile, used, paired, spoilt >>

Next == \/ Launch \/ Load \/ Generate \/ OpenKey \/ WriteKey \/ OpenCert
        \/ WriteCert \/ Pair \/ Stop

Spec == Init /\ [][Next]_vars

(***************************************************************************)
(* Properties.                                                              *)
(***************************************************************************)

\* As long as every write has gone through, the identity a process runs with is
\* whole, its certificate made from its key, whatever crashed before: "saved
\* identity corrupt, regenerating" (gamestream.c:266) is all that looks.
LoadedMatches == ~spoilt /\ proc = "ready" => key = cert

\* "Persistent identity so the server remembers us across launches"
\* (gamestream.c:214): as long as every write has gone through, every launch
\* that gets through gs_init after the first pairing, whatever crashed before
\* it, presents a certificate the server knows.
RemembersAcrossLaunches ==
    ~spoilt /\ proc = "ready" /\ paired # {} => cert \in paired

\* Whatever was written wrong before, once the two files belong together no
\* later step overwrites them, in whole or by half (gamestream.c:254-265).
MatchIsKept ==
    [][ keyFile # None /\ keyFile = certFile => UNCHANGED files ]_files

==============================================================================
