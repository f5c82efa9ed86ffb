------------------------------- MODULE Install -------------------------------
(***************************************************************************)
(* The tools that put the client on the console (install_net.c, reinstall.c,*)
(* update_app.c, moonlight-ps5/src/install_app.c), run one after another in *)
(* any order over the same two directories, each of which may fail or be    *)
(* killed at any step; and the installed application.                       *)
(*                                                                          *)
(* A tool is a list of steps.  A file holds some amount of one item: 2 is   *)
(* all of it, 1 a part, 0 an empty file.                                    *)
(*                                                                          *)
(* External: the file system, the HTTP server on the host, the system's     *)
(* installer and what starts an application.                                *)
(***************************************************************************)
EXTENDS Naturals, Sequences

CONSTANTS
    Tools,          \* the tools that are run
    MaxRuns,        \* bound: runs of a tool
    Faults          \* may the network, the host, the disk and the system fail?

Fetchers == { "install_net", "reinstall", "update_app" }

ASSUME InstallAssumption ==
    /\ Tools \subseteq Fetchers \union { "install_app" }
    /\ MaxRuns \in Nat
    /\ Faults \in BOOLEAN

VARIABLES
    tool,       \* the tool that runs, or ran last
    step,       \* its next step
    status,     \* what it does, or how it ended
    total,      \* bytes the step has counted
    harm,       \* ghost: what has gone wrong in this run and did not end it:
                \* bytes it has counted are "lost", a file was "cut" short, the
                \* "wrong" one was sent, an optional one "skipped"
    fs,         \* what each file holds
    dirs,       \* directories that are there
    registered, \* the system knows the application
    runs        \* tools started so far

vars == << tool, step, status, total, harm, fs, dirs, registered, runs >>

All == 2
Nothing == [ of |-> "nothing", size |-> 0 ]

\* Each file's directory.  The identity is one file for gs_init's two.
DirOf ==
    [ eboot    |-> "app",    fself    |-> "app",    elf |-> "app",
      identity |-> "app",    sysParam |-> "appSce",
      usrParam |-> "usrSce", icon     |-> "usrSce" ]
Files == DOMAIN DirOf
ParentOf == [ appSce |-> "app", usrSce |-> "usr" ]
Dirs == { "app", "usr" } \union DOMAIN ParentOf

Init ==
    /\ tool = "none" /\ step = 0 /\ status = "idle" /\ total = 0 /\ harm = {}
    /\ fs = [ f \in Files |-> Nothing ]
    /\ dirs = {} /\ registered = FALSE /\ runs = 0

(***************************************************************************)
(* The tools.                                                               *)
(***************************************************************************)

\* Each kind of step with what it works on.  "must" tells whether the tool
\* ends when the step fails.
Remove(f)             == [ op |-> "rm", on |-> f ]
RemoveDir(d)          == [ op |-> "rmdir", on |-> d ]
MakeDir(d)            == [ op |-> "mkdir", on |-> d ]
FetchTo(f, item, must) == [ op |-> "fetch", on |-> f, of |-> item, must |-> must ]
WriteTo(f, item, must) == [ op |-> "write", on |-> f, of |-> item, must |-> must ]
Register              == [ op |-> "register" ]

\* Mutant: a directory of another name is made.
MakeDirs_Temp == << MakeDir("app"), MakeDir("tmp") >>

\* The make_dir calls of the installers
MakeDirs == << MakeDir("app"), MakeDir("appSce"), MakeDir("usr"),
               MakeDir("usrSce") >>
Params == << WriteTo("usrParam", "param", FALSE),
             WriteTo("sysParam", "param", FALSE) >>

\* main of install_net.c
InstallNet ==
    MakeDirs \o << FetchTo("eboot", "eboot.bin", TRUE),
                   FetchTo("icon", "icon0.png", FALSE) >>
             \o Params \o << Register >>

\* main of install_app.c, which carries eboot.bin in itself
InstallApp ==
    MakeDirs \o << WriteTo("eboot", "eboot.bin", TRUE) >>
             \o Params \o << Register >>

\* Mutant: the wipe takes the identity with it.
Wipe_Identity ==
    << Remove("eboot"), Remove("fself"), Remove("elf"), Remove("identity"),
       Remove("sysParam"), RemoveDir("appSce"), RemoveDir("app"),
       Remove("usrParam"), Remove("icon"), RemoveDir("usrSce"),
       RemoveDir("usr") >>

\* What main of reinstall.c removes first
Wipe ==
    << Remove("eboot"), Remove("fself"), Remove("elf"), Remove("sysParam"),
       RemoveDir("appSce"), RemoveDir("app"), Remove("usrParam"),
       Remove("icon"), RemoveDir("usrSce"), RemoveDir("usr") >>

\* main of reinstall.c
Reinstall ==
    Wipe \o MakeDirs
         \o << FetchTo("eboot", "launcher_eboot.bin", TRUE),
               FetchTo("fself", "moonlight.fself", TRUE),
               FetchTo("icon", "icon0.png", FALSE) >>
         \o Params \o << Register >>

\* Mutant: the updater fetches the client under the name reinstall.c uses.
UpdateApp_Fself ==
    << FetchTo("eboot", "launcher_eboot.bin", TRUE),
       FetchTo("fself", "moonlight.fself", TRUE) >>

\* main of update_app.c
UpdateApp ==
    << FetchTo("eboot", "launcher_eboot.bin", TRUE),
       FetchTo("elf", "moonlight-ps5.elf", TRUE) >>

Program(t) ==
    CASE t = "install_net" -> InstallNet
      [] t = "install_app" -> InstallApp
      [] t = "reinstall"   -> Reinstall
      [] t = "update_app"  -> UpdateApp

Running == status \in { "running", "open" }

Start ==
    /\ ~Running
    /\ runs < MaxRuns
    /\ tool' \in Tools
    /\ runs' = runs + 1
    /\ step' = 1 /\ status' = "running" /\ total' = 0 /\ harm' = {}
    /\ UNCHANGED << fs, dirs, registered >>

Now == Program(tool)[step]
At(ops) == status = "running" /\ Now.op \in ops

\* The step is over: on to the next, or the tool has succeeded.
Onward ==
    /\ total' = 0
    /\ \/ step < Len(Program(tool)) /\ step' = step + 1 /\ status' = "running"
       \/ step = Len(Program(tool)) /\ step' = step /\ status' = "done"
    /\ UNCHANGED << tool, runs >>

Advance == Onward /\ UNCHANGED harm

Abandon ==
    /\ status' = "failed" /\ total' = 0
    /\ UNCHANGED << tool, step, harm, runs >>

(***************************************************************************)
(* Steps on files and directories.                                          *)
(***************************************************************************)

\* unlink, whose failure is not looked at
RemoveFile ==
    /\ At({ "rm" })
    /\ \/ fs' = [ fs EXCEPT ![Now.on] = Nothing ]
       \/ Faults /\ UNCHANGED fs
    /\ Advance
    /\ UNCHANGED << dirs, registered >>

Empty(d) == /\ \A f \in Files : DirOf[f] = d => fs[f] = Nothing
            /\ \A s \in dirs \intersect DOMAIN ParentOf : ParentOf[s] # d

\* rmdir, which only removes an empty directory
RemoveDirectory ==
    /\ At({ "rmdir" })
    /\ dirs' = IF Empty(Now.on) THEN dirs \ { Now.on } ELSE dirs
    /\ Advance
    /\ UNCHANGED << fs, registered >>

\* mkdir, whose failure is only printed
MakeDirectory ==
    /\ At({ "mkdir" })
    /\ \/ /\ Now.on \in DOMAIN ParentOf => ParentOf[Now.on] \in dirs
          /\ dirs' = dirs \union { Now.on }
       \/ /\ Faults \/ (Now.on \in DOMAIN ParentOf /\ ParentOf[Now.on] \notin dirs)
          /\ UNCHANGED dirs
    /\ Advance
    /\ UNCHANGED << fs, registered >>

\* Opening a file for writing empties it.  What arrives may be the host's page
\* for a missing file: nobody reads the status line.
OpenFile ==
    /\ At({ "fetch", "write" })
    /\ DirOf[Now.on] \in dirs
    /\ \E item \in { Now.of } \union
                   (IF Faults /\ Now.op = "fetch" THEN { "error page" } ELSE {}) :
         /\ fs' = [ fs EXCEPT ![Now.on] = [ of |-> item, size |-> 0 ] ]
         /\ harm' = harm \union (IF item = Now.of THEN {} ELSE { "wrong" })
    /\ status' = "open" /\ total' = 0
    /\ UNCHANGED << tool, step, dirs, registered, runs >>

\* The server cannot be reached, or the file cannot be opened.
OpenFails ==
    /\ At({ "fetch", "write" })
    /\ Faults \/ DirOf[Now.on] \notin dirs
    /\ IF Now.must THEN Abandon
       ELSE Onward /\ harm' = harm \union { "skipped" }
    /\ UNCHANGED << fs, dirs, registered >>

\* A chunk is received and handed to fwrite, which may write less; the chunk
\* is counted all the same.
Chunk ==
    /\ status = "open" /\ total < All
    /\ total' = total + 1
    /\ \/ fs' = [ fs EXCEPT ![Now.on].size = fs[Now.on].size + 1 ] /\ UNCHANGED harm
       \/ Faults /\ UNCHANGED fs /\ harm' = harm \union { "lost" }
    /\ UNCHANGED << tool, step, status, dirs, registered, runs >>

\* Mutant: an empty download is no failure.
GiveUp_Negative(n) == FALSE

\* n <= 0, for what http_fetch counted
GiveUp(n) == n = 0

\* The server has sent all it has, or closes early: http_fetch returns the
\* bytes it has counted.  write_file compares what fwrite wrote instead, but
\* does not look at fclose, which may fail to write the rest.
CloseFile ==
    /\ status = "open"
    /\ total = All \/ (Faults /\ Now.op = "fetch")
    /\ LET bad == IF Now.op = "fetch" THEN GiveUp(total) ELSE fs[Now.on].size < All
       IN  IF Now.must /\ bad THEN Abandon /\ UNCHANGED fs
           ELSE /\ Onward
                /\ \/ /\ harm' = harm \union (IF total < All THEN { "cut" } ELSE {})
                      /\ UNCHANGED fs
                   \/ /\ Faults /\ fs[Now.on].size > 0
                      /\ harm' = harm \union { "lost" }
                      /\ fs' = [ fs EXCEPT ![Now.on].size = fs[Now.on].size - 1 ]
    /\ UNCHANGED << dirs, registered >>

\* sceAppInstUtilInitialize and sceAppInstUtilAppInstallTitleDir
RegisterTitle ==
    /\ At({ "register" })
    /\ \/ registered' = TRUE /\ Advance
       \/ Faults /\ UNCHANGED registered /\ Abandon
    /\ UNCHANGED << fs, dirs >>

\* The payload is killed.
Kill ==
    /\ Running
    /\ Abandon
    /\ UNCHANGED << fs, dirs, registered >>

(***************************************************************************)
(* The application.                                                         *)
(***************************************************************************)

Holds(f, item) == fs[f] = [ of |-> item, size |-> All ]

\* eboot.bin has the program it starts: it is the client itself, or the launcher
\* beside the moonlight-ps5.elf it asks the system to load.  (That the system
\* loads it is not said: HANDOFF.md:78-81 gives the launcher up because it does
\* not.)
EbootComplete ==
    \/ Holds("eboot", "eboot.bin")
    \/ Holds("eboot", "launcher_eboot.bin") /\ Holds("elf", "moonlight-ps5.elf")

\* What the installers give the system to start the client from the homescreen.
Startable ==
    /\ registered
    /\ Holds("eboot", "eboot.bin")
    /\ Holds("usrParam", "param") /\ Holds("sysParam", "param")

\* The first run of the client saves its identity beside itself.
Play ==
    /\ ~Running
    /\ registered /\ Holds("eboot", "eboot.bin")
    /\ ~Holds("identity", "identity")
    /\ fs' = [ fs EXCEPT !["identity"] = [ of |-> "identity", size |-> All ] ]
    /\ UNCHANGED << tool, step, status, total, harm, dirs, registered, runs >>

\* After the last run the console may be left alone.
Over == ~Running /\ runs = MaxRuns /\ UNCHANGED vars

Next == \/ Start \/ RemoveFile \/ RemoveDirectory \/ MakeDirectory \/ OpenFile
        \/ OpenFails \/ Chunk \/ CloseFile \/ RegisterTitle \/ Kill \/ Play
        \/ Over

Spec == Init /\ [][Next]_vars

(***************************************************************************)
(* Properties.                                                              *)
(***************************************************************************)

Items == { "eboot.bin", "launcher_eboot.bin", "moonlight-ps5.elf",
           "moonlight.fself", "icon0.png", "param", "identity", "error page",
           "nothing" }

Harms == { "lost", "cut", "wrong", "skipped" }

TypeOK ==
    /\ tool \in Tools \union { "none" }
    /\ step \in Nat
    /\ status \in { "idle", "running", "open", "done", "failed" }
    /\ total \in 0 .. All /\ harm \subseteq Harms
    /\ fs \in [ Files -> [ of : Items, size : 0 .. All ] ]
    /\ dirs \subseteq Dirs
    /\ registered \in BOOLEAN
    /\ runs \in 0 .. MaxRuns

\* "DO NOT delete" the pairing certificates (HANDOFF.md:156): no tool, run to
\* its end or killed, takes the identity away or removes its directory.
IdentityKept ==
    [][ Holds("identity", "identity") =>
            UNCHANGED fs["identity"] /\ "app" \in dirs' ]_<< fs, dirs >>

\* A tool that reports success has left something in every file it must
\* write, never an empty one (install_net.c:123, update_app.c:54, 59), unless
\* its own writes fell short unnoticed (install_net.c:82-83).
SuccessLeavesBytes ==
    status = "done" /\ "lost" \notin harm =>
        \A i \in 1 .. Len(Program(tool)) :
            /\ Program(tool)[i].op \in { "fetch", "write" }
            /\ Program(tool)[i].must
            => fs[Program(tool)[i].on].size > 0

\* However often tools have failed or were killed half-way before it, leaving a
\* launcher without its client (update_app.c:52), half a file or no directory,
\* one further run repairs the installation, if it reports success and the host
\* and the disk did it no harm: an installer (install_net.c:111-146,
\* install_app.c:66-107) leaves the client, its parameters and the registration
\* it needs to be started, update_app.c, which never registers, an eboot.bin
\* with its program.  So nothing that was on the disk can spoil a success.
RerunRepairs ==
    status = "done" /\ harm = {} =>
        /\ tool \in { "install_net", "install_app" } => Startable
        /\ tool = "update_app" => EbootComplete

\* "Done! Moonlight PS5 reinstalled" (reinstall.c:128): a tool that reports
\* success leaves an eboot.bin with the program it starts.
SuccessIsComplete == status = "done" => EbootComplete

==============================================================================
