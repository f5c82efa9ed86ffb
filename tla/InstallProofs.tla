---------------------------- MODULE InstallProofs ----------------------------
(***************************************************************************)
(* For any number of runs of any of the tools: the identity survives them,  *)
(* and what a success says about the files.                                 *)
(*                                                                          *)
(* The argument: no tool names the identity in a step, and while it is      *)
(* there rmdir cannot remove its directory; and what a tool has written it  *)
(* leaves alone afterwards.  Both are facts about the tools' lists of       *)
(* steps, shown piece by piece of which the lists are put together.  No     *)
(* step takes a registration back.                                          *)
(***************************************************************************)
EXTENDS Install, SequenceTheorems, TLAPS

\* What the tools may touch.
Spared == Files \ { "identity" }

\* Steps that do not name the identity.
SparingStep ==
    [ op : { "rm" }, on : Spared ]
    \union [ op : { "rmdir", "mkdir" }, on : Dirs ]
    \union [ op : { "fetch", "write" }, on : Spared, of : Items, must : BOOLEAN ]
    \union [ op : { "register" } ]

\* The names, written out.
LEMMA NamesOfFiles ==
    /\ Spared = { "eboot", "fself", "elf", "sysParam", "usrParam", "icon" }
    /\ Dirs = { "app", "usr", "appSce", "usrSce" }
    /\ \A f \in Files : f = "identity" \/ f \in Spared
  BY DEF Spared, Files, Dirs, DirOf, ParentOf

\* What the tools' lists are put together from.
LEMMA Pieces ==
    /\ MakeDirs \in Seq(SparingStep)
    /\ Params \in Seq(SparingStep)
    /\ Wipe \in Seq(SparingStep)
    /\ UpdateApp \in Seq(SparingStep)
    /\ << Register >> \in Seq(SparingStep) /\ Len(<< Register >>) > 0
    /\ Len(UpdateApp) > 0
    /\ << FetchTo("eboot", "eboot.bin", TRUE),
          FetchTo("icon", "icon0.png", FALSE) >> \in Seq(SparingStep)
    /\ << WriteTo("eboot", "eboot.bin", TRUE) >> \in Seq(SparingStep)
    /\ << FetchTo("eboot", "launcher_eboot.bin", TRUE),
          FetchTo("fself", "moonlight.fself", TRUE),
          FetchTo("icon", "icon0.png", FALSE) >> \in Seq(SparingStep)
  <1>1. \A f \in Spared : Remove(f) \in SparingStep
    BY DEF SparingStep, Remove
  <1>2. \A d \in Dirs : RemoveDir(d) \in SparingStep /\ MakeDir(d) \in SparingStep
    BY DEF SparingStep, RemoveDir, MakeDir
  <1>3. << Register >> \in Seq(SparingStep)
    BY DEF SparingStep, Register
  <1>4. MakeDirs \in Seq(SparingStep)
    BY <1>2, NamesOfFiles DEF MakeDirs
  <1>5. Params \in Seq(SparingStep)
    BY NamesOfFiles DEF Params, WriteTo, SparingStep, Items
  <1>6. Wipe \in Seq(SparingStep)
    BY <1>1, <1>2, NamesOfFiles DEF Wipe
  <1>7. UpdateApp \in Seq(SparingStep)
    BY NamesOfFiles DEF UpdateApp, FetchTo, SparingStep, Items
  <1>8. /\ << FetchTo("eboot", "eboot.bin", TRUE),
              FetchTo("icon", "icon0.png", FALSE) >> \in Seq(SparingStep)
        /\ << WriteTo("eboot", "eboot.bin", TRUE) >> \in Seq(SparingStep)
        /\ << FetchTo("eboot", "launcher_eboot.bin", TRUE),
              FetchTo("fself", "moonlight.fself", TRUE),
              FetchTo("icon", "icon0.png", FALSE) >> \in Seq(SparingStep)
    BY NamesOfFiles DEF SparingStep, FetchTo, WriteTo, Items
  <1>9. Len(UpdateApp) > 0 /\ Len(<< Register >>) > 0
    BY DEF UpdateApp
  <1> QED
    BY <1>3, <1>4, <1>5, <1>6, <1>7, <1>8, <1>9

\* No tool names the identity in any of its steps.
LEMMA ProgramsSpare ==
  ASSUME NEW t \in Tools
  PROVE  Program(t) \in Seq(SparingStep) /\ Len(Program(t)) > 0
  <1>1. \A p, q \in Seq(SparingStep) :
          p \o q \in Seq(SparingStep) /\ (Len(q) > 0 => Len(p \o q) > 0)
    OBVIOUS
  <1>2. InstallNet \in Seq(SparingStep) /\ Len(InstallNet) > 0
    BY <1>1, Pieces DEF InstallNet
  <1>3. InstallApp \in Seq(SparingStep) /\ Len(InstallApp) > 0
    BY <1>1, Pieces DEF InstallApp
  <1>4. Reinstall \in Seq(SparingStep) /\ Len(Reinstall) > 0
    BY <1>1, Pieces DEF Reinstall
  <1>5. t \in { "install_net", "reinstall", "update_app", "install_app" }
    BY InstallAssumption DEF Fetchers
  <1> QED
    BY <1>2, <1>3, <1>4, <1>5, Pieces DEF Program

\* A step that writes a file.
Writes(s) == s.op \in { "fetch", "write" }

\* The files a list of steps writes, and those it works on at all.
WrittenBy(p) == { p[i].on : i \in { k \in 1 .. Len(p) : Writes(p[k]) } }
Touched(p) == { p[i].on : i \in { k \in 1 .. Len(p) :
                                    p[k].op \in { "rm", "fetch", "write" } } }

\* What a list of steps writes it leaves alone afterwards.
Once(p) ==
    \A i, j \in 1 .. Len(p) :
        /\ i < j /\ Writes(p[i])
        /\ p[j].op \in { "rm", "fetch", "write" }
        => p[j].on # p[i].on

\* Two lists do so one after the other when the second leaves alone what the
\* first writes.
LEMMA Joined ==
  ASSUME NEW p \in Seq(SparingStep), NEW q \in Seq(SparingStep),
         Once(p), Once(q), WrittenBy(p) \intersect Touched(q) = {}
  PROVE  /\ Once(p \o q)
         /\ WrittenBy(p \o q) \subseteq WrittenBy(p) \union WrittenBy(q)
  <1>1. /\ Len(p) \in Nat /\ Len(q) \in Nat
        /\ Len(p \o q) = Len(p) + Len(q)
        /\ \A i \in 1 .. Len(p \o q) :
             \/ i \in 1 .. Len(p) /\ (p \o q)[i] = p[i]
             \/ /\ i > Len(p) /\ i - Len(p) \in 1 .. Len(q)
                /\ (p \o q)[i] = q[i - Len(p)]
    OBVIOUS
  <1>2. ASSUME NEW i \in 1 .. Len(p), NEW j \in 1 .. Len(q), Writes(p[i]),
               q[j].op \in { "rm", "fetch", "write" }
        PROVE  q[j].on # p[i].on
    <2>1. p[i].on \in WrittenBy(p) /\ q[j].on \in Touched(q)
      BY <1>2 DEF WrittenBy, Touched
    <2> QED
      BY <2>1
  <1>3. ASSUME NEW i \in 1 .. Len(p \o q), NEW j \in 1 .. Len(p \o q), i < j,
               Writes((p \o q)[i]),
               (p \o q)[j].op \in { "rm", "fetch", "write" }
        PROVE  (p \o q)[j].on # (p \o q)[i].on
    <2>1. CASE i \in 1 .. Len(p) /\ j \in 1 .. Len(p)
      <3>1. (p \o q)[i] = p[i] /\ (p \o q)[j] = p[j]
        BY <1>1, <2>1
      <3> QED
        BY <1>3, <2>1, <3>1 DEF Once
    <2>2. CASE i \in 1 .. Len(p) /\ j > Len(p)
      <3>1. /\ (p \o q)[i] = p[i] /\ (p \o q)[j] = q[j - Len(p)]
            /\ j - Len(p) \in 1 .. Len(q)
        BY <1>1, <2>2
      <3> QED
        BY <1>2, <1>3, <2>2, <3>1
    <2>3. CASE i > Len(p) /\ j > Len(p)
      <3>1. /\ (p \o q)[i] = q[i - Len(p)] /\ (p \o q)[j] = q[j - Len(p)]
            /\ i - Len(p) \in 1 .. Len(q) /\ j - Len(p) \in 1 .. Len(q)
            /\ i - Len(p) < j - Len(p)
        BY <1>1, <1>3, <2>3
      <3> QED
        BY <1>3, <3>1 DEF Once
    <2> QED
      BY <1>1, <1>3, <2>1, <2>2, <2>3
  <1>4. Once(p \o q)
    BY <1>3 DEF Once
  <1>5. WrittenBy(p \o q) \subseteq WrittenBy(p) \union WrittenBy(q)
    <2> SUFFICES ASSUME NEW i \in 1 .. Len(p \o q), Writes((p \o q)[i])
                 PROVE  (p \o q)[i].on \in WrittenBy(p) \union WrittenBy(q)
      BY DEF WrittenBy
    <2> QED
      BY <1>1 DEF WrittenBy
  <1> QED
    BY <1>4, <1>5

\* The middle parts of the lists, in which they differ.
FetchNet == << FetchTo("eboot", "eboot.bin", TRUE),
               FetchTo("icon", "icon0.png", FALSE) >>
WriteApp == << WriteTo("eboot", "eboot.bin", TRUE) >>
FetchAgain == << FetchTo("eboot", "launcher_eboot.bin", TRUE),
                 FetchTo("fself", "moonlight.fself", TRUE),
                 FetchTo("icon", "icon0.png", FALSE) >>

\* Each piece leaves alone what it writes; what it writes at all.
LEMMA PiecesOnce ==
    /\ Once(MakeDirs) /\ WrittenBy(MakeDirs) = {}
    /\ Once(Params) /\ WrittenBy(Params) = { "usrParam", "sysParam" }
    /\ Touched(Params) = { "usrParam", "sysParam" }
    /\ Once(Wipe) /\ WrittenBy(Wipe) = {}
    /\ Once(<< Register >>) /\ WrittenBy(<< Register >>) = {}
    /\ Touched(<< Register >>) = {}
    /\ Once(FetchNet) /\ WrittenBy(FetchNet) = { "eboot", "icon" }
    /\ Once(WriteApp) /\ WrittenBy(WriteApp) = { "eboot" }
    /\ Once(FetchAgain) /\ WrittenBy(FetchAgain) = { "eboot", "fself", "icon" }
    /\ Once(UpdateApp)
  <1> USE DEF Once, Writes, WrittenBy, Touched
  <1>1. Once(MakeDirs) /\ WrittenBy(MakeDirs) = {}
    BY DEF MakeDirs, MakeDir
  <1>2. Once(Params) /\ WrittenBy(Params) = { "usrParam", "sysParam" }
    BY DEF Params, WriteTo
  <1>3. Touched(Params) = { "usrParam", "sysParam" }
    BY DEF Params, WriteTo
  <1>4. Once(Wipe) /\ WrittenBy(Wipe) = {}
    BY DEF Wipe, Remove, RemoveDir
  <1>5. /\ Once(<< Register >>) /\ WrittenBy(<< Register >>) = {}
        /\ Touched(<< Register >>) = {}
    BY DEF Register
  <1>6. Once(FetchNet) /\ WrittenBy(FetchNet) = { "eboot", "icon" }
    BY DEF FetchNet, FetchTo
  <1>7. Once(WriteApp) /\ WrittenBy(WriteApp) = { "eboot" }
    BY DEF WriteApp, WriteTo
  <1>8. Once(FetchAgain) /\ WrittenBy(FetchAgain) = { "eboot", "fself", "icon" }
    BY DEF FetchAgain, FetchTo
  <1>9. Once(UpdateApp)
    BY DEF UpdateApp, FetchTo
  <1> QED
    BY <1>1, <1>2, <1>3, <1>4, <1>5, <1>6, <1>7, <1>8, <1>9

\* A step is among those of a list.
Among(p, s) == \E i \in 1 .. Len(p) : p[i] = s

LEMMA AmongJoined ==
  ASSUME NEW p \in Seq(SparingStep), NEW q \in Seq(SparingStep), NEW s,
         Among(p, s) \/ Among(q, s)
  PROVE  p \o q \in Seq(SparingStep) /\ Among(p \o q, s)
  <1>1. /\ p \o q \in Seq(SparingStep) /\ Len(p \o q) = Len(p) + Len(q)
        /\ \A i \in 1 .. Len(p) + Len(q) :
             (p \o q)[i] = IF i <= Len(p) THEN p[i] ELSE q[i - Len(p)]
    BY ConcatProperties
  <1>2. Len(p) \in Nat /\ Len(q) \in Nat
    OBVIOUS
  <1>3. CASE Among(p, s)
    BY <1>1, <1>2, <1>3 DEF Among
  <1>4. CASE Among(q, s)
    <2>1. PICK i \in 1 .. Len(q) : q[i] = s
      BY <1>4 DEF Among
    <2>2. /\ Len(p) + i \in 1 .. Len(p) + Len(q)
          /\ ~(Len(p) + i <= Len(p)) /\ (Len(p) + i) - Len(p) = i
      BY <1>2
    <2>3. (p \o q)[Len(p) + i] = q[i]
      BY <1>1, <2>2
    <2> QED
      BY <1>1, <2>1, <2>2, <2>3 DEF Among
  <1> QED
    BY <1>3, <1>4

\* The installers write the client itself as eboot.bin and both parameter files,
\* and register it; update_app.c writes the launcher and the client beside it.
LEMMA Delivers ==
    /\ Among(InstallNet, FetchTo("eboot", "eboot.bin", TRUE))
    /\ Among(InstallApp, WriteTo("eboot", "eboot.bin", TRUE))
    /\ \A p \in { InstallNet, InstallApp } :
          /\ Among(p, WriteTo("usrParam", "param", FALSE))
          /\ Among(p, WriteTo("sysParam", "param", FALSE))
          /\ Among(p, Register)
    /\ Among(UpdateApp, FetchTo("eboot", "launcher_eboot.bin", TRUE))
    /\ Among(UpdateApp, FetchTo("elf", "moonlight-ps5.elf", TRUE))
  <1>1. ASSUME NEW q \in Seq(SparingStep), NEW s,
               Among(q, s) \/ Among(Params, s) \/ Among(<< Register >>, s)
        PROVE  Among(MakeDirs \o q \o Params \o << Register >>, s)
    <2>1. MakeDirs \o q \in Seq(SparingStep)
          /\ (Among(q, s) => Among(MakeDirs \o q, s))
      BY Pieces, AmongJoined
    <2> DEFINE p == MakeDirs \o q
               r == p \o Params
    <2>2. p \in Seq(SparingStep) /\ r \in Seq(SparingStep)
      BY <2>1, Pieces
    <2>3. Among(q, s) => Among(p, s)
      BY <2>1
    <2> HIDE DEF p
    <2>4. Among(p, s) \/ Among(Params, s) => Among(r, s)
      BY <2>2, Pieces, AmongJoined
    <2> HIDE DEF r
    <2>5. Among(r, s) \/ Among(<< Register >>, s) => Among(r \o << Register >>, s)
      BY <2>2, Pieces, AmongJoined
    <2> QED
      BY <1>1, <2>3, <2>4, <2>5 DEF p, r
  <1>2. /\ Among(FetchNet, FetchTo("eboot", "eboot.bin", TRUE))
        /\ Among(WriteApp, WriteTo("eboot", "eboot.bin", TRUE))
        /\ Among(Params, WriteTo("usrParam", "param", FALSE))
        /\ Among(Params, WriteTo("sysParam", "param", FALSE))
        /\ Among(<< Register >>, Register)
    <2>1. /\ 1 \in 1 .. Len(FetchNet)
          /\ FetchNet[1] = FetchTo("eboot", "eboot.bin", TRUE)
      BY DEF FetchNet
    <2>2. /\ 1 \in 1 .. Len(WriteApp)
          /\ WriteApp[1] = WriteTo("eboot", "eboot.bin", TRUE)
      BY DEF WriteApp
    <2>3. /\ 1 \in 1 .. Len(Params) /\ 2 \in 1 .. Len(Params)
          /\ Params[1] = WriteTo("usrParam", "param", FALSE)
          /\ Params[2] = WriteTo("sysParam", "param", FALSE)
      BY DEF Params
    <2>4. 1 \in 1 .. Len(<< Register >>) /\ << Register >>[1] = Register
      OBVIOUS
    <2> QED
      BY <2>1, <2>2, <2>3, <2>4 DEF Among
  <1>3. FetchNet \in Seq(SparingStep) /\ WriteApp \in Seq(SparingStep)
    BY Pieces DEF FetchNet, WriteApp
  <1>4. /\ InstallNet = MakeDirs \o FetchNet \o Params \o << Register >>
        /\ InstallApp = MakeDirs \o WriteApp \o Params \o << Register >>
    BY DEF InstallNet, FetchNet, InstallApp, WriteApp
  <1>5. /\ Among(UpdateApp, FetchTo("eboot", "launcher_eboot.bin", TRUE))
        /\ Among(UpdateApp, FetchTo("elf", "moonlight-ps5.elf", TRUE))
    <2>1. /\ 1 \in 1 .. Len(UpdateApp) /\ 2 \in 1 .. Len(UpdateApp)
          /\ UpdateApp[1] = FetchTo("eboot", "launcher_eboot.bin", TRUE)
          /\ UpdateApp[2] = FetchTo("elf", "moonlight-ps5.elf", TRUE)
      BY DEF UpdateApp
    <2> QED
      BY <2>1 DEF Among
  <1> QED
    BY <1>1, <1>2, <1>3, <1>4, <1>5

\* No tool touches a file again that it has written.
LEMMA ProgramsOnce ==
  ASSUME NEW t \in Tools
  PROVE  Once(Program(t))
  <1>1. ASSUME NEW p \in Seq(SparingStep), Once(p),
               WrittenBy(p) \subseteq { "eboot", "fself", "icon" }
        PROVE  Once(p \o Params \o << Register >>)
    <2>1. WrittenBy(p) \intersect Touched(Params) = {}
      BY <1>1, PiecesOnce
    <2>2. /\ Once(p \o Params)
          /\ WrittenBy(p \o Params) \subseteq WrittenBy(p) \union WrittenBy(Params)
      BY <1>1, <2>1, Pieces, PiecesOnce, Joined
    <2>3. p \o Params \in Seq(SparingStep)
      BY Pieces
    <2>4. WrittenBy(p \o Params) \intersect Touched(<< Register >>) = {}
      BY PiecesOnce
    <2> QED
      BY <2>2, <2>3, <2>4, Pieces, PiecesOnce, Joined
  <1>2. FetchNet \in Seq(SparingStep) /\ WriteApp \in Seq(SparingStep)
        /\ FetchAgain \in Seq(SparingStep)
    BY Pieces DEF FetchNet, WriteApp, FetchAgain
  <1>3. Once(InstallNet)
    <2>1. /\ Once(MakeDirs \o FetchNet)
          /\ WrittenBy(MakeDirs \o FetchNet) \subseteq { "eboot", "fself", "icon" }
          /\ MakeDirs \o FetchNet \in Seq(SparingStep)
      <3>1. WrittenBy(MakeDirs) \intersect Touched(FetchNet) = {}
        BY PiecesOnce
      <3>2. /\ Once(MakeDirs \o FetchNet)
            /\ WrittenBy(MakeDirs \o FetchNet)
                 \subseteq WrittenBy(MakeDirs) \union WrittenBy(FetchNet)
        BY <1>2, <3>1, Pieces, PiecesOnce, Joined
      <3>3. MakeDirs \o FetchNet \in Seq(SparingStep)
        BY <1>2, Pieces
      <3> QED
        BY <3>2, <3>3, PiecesOnce
    <2> QED
      BY <1>1, <2>1 DEF InstallNet, FetchNet
  <1>4. Once(InstallApp)
    <2>1. /\ Once(MakeDirs \o WriteApp)
          /\ WrittenBy(MakeDirs \o WriteApp) \subseteq { "eboot", "fself", "icon" }
          /\ MakeDirs \o WriteApp \in Seq(SparingStep)
      <3>1. WrittenBy(MakeDirs) \intersect Touched(WriteApp) = {}
        BY PiecesOnce
      <3>2. /\ Once(MakeDirs \o WriteApp)
            /\ WrittenBy(MakeDirs \o WriteApp)
                 \subseteq WrittenBy(MakeDirs) \union WrittenBy(WriteApp)
        BY <1>2, <3>1, Pieces, PiecesOnce, Joined
      <3>3. MakeDirs \o WriteApp \in Seq(SparingStep)
        BY <1>2, Pieces
      <3> QED
        BY <3>2, <3>3, PiecesOnce
    <2> QED
      BY <1>1, <2>1 DEF InstallApp, WriteApp
  <1>5. Once(Reinstall)
    <2>1. /\ Once(Wipe \o MakeDirs) /\ WrittenBy(Wipe \o MakeDirs) = {}
          /\ Wipe \o MakeDirs \in Seq(SparingStep)
      BY Pieces, PiecesOnce, Joined
    <2>2. /\ Once(Wipe \o MakeDirs \o FetchAgain)
          /\ WrittenBy(Wipe \o MakeDirs \o FetchAgain) \subseteq { "eboot", "fself", "icon" }
          /\ Wipe \o MakeDirs \o FetchAgain \in Seq(SparingStep)
      <3>1. WrittenBy(Wipe \o MakeDirs) \intersect Touched(FetchAgain) = {}
        BY <2>1
      <3>2. /\ Once(Wipe \o MakeDirs \o FetchAgain)
            /\ WrittenBy(Wipe \o MakeDirs \o FetchAgain)
                 \subseteq WrittenBy(Wipe \o MakeDirs) \union WrittenBy(FetchAgain)
        BY <1>2, <2>1, <3>1, PiecesOnce, Joined
      <3>3. Wipe \o MakeDirs \o FetchAgain \in Seq(SparingStep)
        BY <1>2, <2>1
      <3> QED
        BY <2>1, <3>2, <3>3, PiecesOnce
    <2> QED
      BY <1>1, <2>2 DEF Reinstall, FetchAgain
  <1>6. t \in { "install_net", "reinstall", "update_app", "install_app" }
    BY InstallAssumption DEF Fetchers
  <1> QED
    BY <1>3, <1>4, <1>5, <1>6, PiecesOnce DEF Program

(***************************************************************************)
(* The inductive invariant.                                                 *)
(***************************************************************************)

\* A tool that runs is at one of its steps.
AtStep == Running => tool \in Tools /\ step \in 1 .. Len(Program(tool))

\* A file that is being written has a directory and holds no more than was
\* counted.
OpenCounted ==
    status = "open" => /\ Now.op \in { "fetch", "write" }
                       /\ DirOf[Now.on] \in dirs
                       /\ fs[Now.on].size <= total

\* A file that is there has a directory.
HasDirectory == \A f \in Files : fs[f] # Nothing => DirOf[f] \in dirs

\* What a step writes is there: some of what it must when no byte was lost, all
\* of it when nothing went wrong.
Written(s) ==
    /\ s.must /\ "lost" \notin harm => fs[s.on].size > 0
    /\ harm = {} => Holds(s.on, s.of)

\* What a step is for.
Achieved(s) == /\ Writes(s) => Written(s)
               /\ s = Register => registered

\* A tool that has not failed has achieved what its steps were for so far.
SoFar ==
    status \in { "running", "open", "done" } =>
        /\ tool \in Tools
        /\ \A i \in 1 .. Len(Program(tool)) :
             i < step \/ status = "done" => Achieved(Program(tool)[i])

\* Unless harm was done to it, an open file holds what was counted of what was
\* asked for.
OpenFaithful ==
    status = "open" => /\ "lost" \notin harm => fs[Now.on].size = total
                       /\ "wrong" \notin harm => fs[Now.on].of = Now.of

\* What the steps keep by themselves.
Sane == TypeOK /\ AtStep /\ OpenCounted /\ HasDirectory

\* The inductive invariant of the tools.
IInv == Sane /\ SoFar /\ OpenFaithful

\* Before the first tool there is nothing.
LEMMA InitSane == Init => Sane
  <1> SUFFICES ASSUME Init PROVE Sane
    OBVIOUS
  <1>1. Nothing \in [ of : Items, size : 0 .. All ]
    BY DEF Nothing, Items, All
  <1>2. fs \in [ Files -> [ of : Items, size : 0 .. All ] ]
    BY <1>1 DEF Init
  <1>3. registered \in BOOLEAN
    BY Zenon DEF Init
  <1>4. TypeOK
    BY <1>2, <1>3, InstallAssumption DEF Init, TypeOK, All
  <1> QED
    BY <1>4 DEF Init, Sane, AtStep, OpenCounted, HasDirectory, Running

\* The step a running tool is at.
LEMMA NowIsSparing ==
  ASSUME AtStep, Running
  PROVE  Now \in SparingStep
  BY ProgramsSpare DEF AtStep, Now

\* What such a step works on.
LEMMA NowOn ==
  ASSUME Now \in SparingStep
  PROVE  /\ Now.op \in { "rm", "fetch", "write" } => Now.on \in Spared
         /\ Now.op \in { "rmdir", "mkdir" } => Now.on \in Dirs
         /\ Now.op \in { "fetch", "write" } => Now.of \in Items
  BY DEF SparingStep

\* After a step the tool is at another of its steps, not yet open, or has ended.
LEMMA Onwards ==
  ASSUME Sane, Running, Onward \/ Abandon
  PROVE  /\ AtStep'
         /\ status' \in { "running", "done", "failed" }
         /\ tool' \in Tools \union { "none" } /\ step' \in Nat
         /\ total' \in 0 .. All /\ runs' \in 0 .. MaxRuns
  <1>1. tool \in Tools /\ step \in 1 .. Len(Program(tool)) /\ Len(Program(tool)) \in Nat
    BY ProgramsSpare DEF Sane, AtStep
  <1> QED
    BY <1>1 DEF Sane, TypeOK, AtStep, Running, Onward, Abandon, All

\* Ending a step closes its file: what is left to show is what it did.
LEMMA StepEnds ==
  ASSUME Sane, Running, Onward \/ Abandon,
         fs' \in [ Files -> [ of : Items, size : 0 .. All ] ],
         dirs' \subseteq Dirs, registered' \in BOOLEAN,
         harm' \subseteq Harms,
         HasDirectory'
  PROVE  Sane'
  <1>1. status' # "open"
    BY Onwards
  <1>2. TypeOK'
    BY Onwards DEF TypeOK
  <1> QED
    BY <1>1, <1>2, Onwards DEF Sane, OpenCounted

\* A saved identity and its directory stay.
Kept == Holds("identity", "identity") =>
            fs'["identity"] = fs["identity"] /\ "app" \in dirs'

\* Every step keeps that, a saved identity and its directory.
LEMMA StepSane == Sane /\ [Next]_vars => Sane' /\ Kept
  <1> SUFFICES ASSUME Sane, [Next]_vars PROVE Sane' /\ Kept
    OBVIOUS
  <1> USE DEF Sane, Harms
  <1>f. DirOf["identity"] = "app" /\ "identity" \in Files
        /\ "identity" \notin Spared /\ Spared \subseteq Files
    BY DEF Files, DirOf, Spared
  <1>h. Holds("identity", "identity") => "app" \in dirs
    BY <1>f DEF HasDirectory, Holds, Nothing, All
  <1>s. Running => Now \in SparingStep
    BY NowIsSparing
  <1>1. CASE Start
    <2>1. tool' \in Tools /\ step' = 1 /\ 1 \in 1 .. Len(Program(tool'))
      BY <1>1, ProgramsSpare DEF Start
    <2>2. TypeOK'
      <3>1. runs' \in 0 .. MaxRuns
        BY <1>1, InstallAssumption DEF Start, TypeOK
      <3> QED
        BY <1>1, <2>1, <3>1 DEF Start, TypeOK, All
    <2>3. AtStep' /\ OpenCounted'
      BY <1>1, <2>1 DEF Start, AtStep, OpenCounted
    <2> QED
      BY <1>1, <1>h, <2>2, <2>3 DEF Start, HasDirectory, Kept
  <1>2. CASE RemoveFile
    <2>1. Running /\ Now.on \in Spared
      BY <1>2, <1>s, NowOn DEF RemoveFile, At, Running
    <2>2. Kept
      BY <1>2, <2>1, <1>f, <1>h DEF RemoveFile, Kept, TypeOK
    <2>3. fs' \in [ Files -> [ of : Items, size : 0 .. All ] ]
      <3>1. Nothing \in [ of : Items, size : 0 .. All ]
        BY DEF Nothing, Items, All
      <3> QED
        BY <1>2, <3>1 DEF RemoveFile, TypeOK
    <2>4. HasDirectory'
      BY <1>2, <2>1, <1>f DEF RemoveFile, HasDirectory, TypeOK
    <2> QED
      BY <1>2, <2>1, <2>2, <2>3, <2>4, StepEnds DEF RemoveFile, Advance, TypeOK
  <1>3. CASE RemoveDirectory
    <2>1. Running /\ Now.on \in Dirs
      BY <1>3, <1>s, NowOn DEF RemoveDirectory, At, Running
    <2>2. HasDirectory'
      BY <1>3 DEF RemoveDirectory, HasDirectory, Empty
    <2>3. Kept
      BY <1>3, <1>f, <1>h, <2>2 DEF RemoveDirectory, Kept, HasDirectory, Holds, Nothing, All
    <2> QED
      BY <1>3, <2>1, <2>2, <2>3, StepEnds DEF RemoveDirectory, Advance, TypeOK
  <1>4. CASE MakeDirectory
    <2>1. Running /\ Now.on \in Dirs
      BY <1>4, <1>s, NowOn DEF MakeDirectory, At, Running
    <2>2. dirs \subseteq dirs' /\ dirs' \subseteq Dirs
      BY <1>4, <2>1 DEF MakeDirectory, TypeOK
    <2>3. HasDirectory' /\ Kept
      BY <1>4, <1>h, <2>2 DEF MakeDirectory, HasDirectory, Kept
    <2> QED
      BY <1>4, <2>1, <2>2, <2>3, StepEnds DEF MakeDirectory, Advance, TypeOK
  <1>5. CASE OpenFile
    <2>1. /\ Running /\ Now.on \in Spared /\ Now.of \in Items
          /\ Now.op \in { "fetch", "write" } /\ DirOf[Now.on] \in dirs
      BY <1>5, <1>s, NowOn DEF OpenFile, At, Running
    <2>2. PICK item \in Items :
            /\ fs' = [ fs EXCEPT ![Now.on] = [ of |-> item, size |-> 0 ] ]
            /\ harm' = harm \union (IF item = Now.of THEN {} ELSE { "wrong" })
      BY <1>5, <2>1 DEF OpenFile, Items
    <2>3. Now' = Now
      BY <1>5 DEF OpenFile, Now
    <2>o. /\ status' = "open" /\ total' = 0
          /\ UNCHANGED << tool, step, dirs, registered, runs >>
      BY <1>5 DEF OpenFile
    <2>4. fs' \in [ Files -> [ of : Items, size : 0 .. All ] ]
      <3>1. [ of |-> item, size |-> 0 ] \in [ of : Items, size : 0 .. All ]
        BY DEF All
      <3> QED
        BY <2>2, <3>1 DEF TypeOK
    <2>5. TypeOK'
      <3>1. harm' \subseteq Harms
        BY <2>2 DEF TypeOK
      <3> QED
        BY <2>o, <2>4, <3>1 DEF TypeOK, All
    <2>6. HasDirectory' /\ Kept
      BY <1>5, <1>f, <1>h, <2>1, <2>2 DEF OpenFile, HasDirectory, Kept, TypeOK
    <2>7. AtStep'
      BY <1>5, <2>1 DEF OpenFile, AtStep, Running
    <2>8. OpenCounted'
      <3>1. fs'[Now.on].size = 0 /\ total' = 0
        BY <1>5, <1>f, <2>1, <2>2 DEF OpenFile, TypeOK
      <3> QED
        BY <2>o, <2>1, <2>3, <3>1 DEF OpenCounted
    <2> QED
      BY <2>5, <2>6, <2>7, <2>8
  <1>6. CASE OpenFails
    <2>1. Running
      BY <1>6 DEF OpenFails, At, Running
    <2>2. (Onward \/ Abandon) /\ harm' \subseteq Harms
      BY <1>6 DEF OpenFails, Abandon, TypeOK
    <2>3. HasDirectory' /\ Kept
      BY <1>6, <1>h DEF OpenFails, HasDirectory, Kept
    <2> QED
      BY <1>6, <2>1, <2>2, <2>3, StepEnds DEF OpenFails, TypeOK
  <1>7. CASE Chunk
    <2>1. /\ Running /\ Now.on \in Spared
          /\ Now.op \in { "fetch", "write" } /\ DirOf[Now.on] \in dirs
      BY <1>7, <1>s, NowOn DEF Chunk, Running, OpenCounted
    <2>2. Now' = Now
      BY <1>7 DEF Chunk, Now
    <2>3. /\ fs[Now.on] \in [ of : Items, size : 0 .. All ]
          /\ fs[Now.on].size <= total /\ total \in 0 .. All /\ total < All
      BY <1>7, <1>f, <2>1 DEF Chunk, OpenCounted, TypeOK
    <2>4. CASE UNCHANGED fs /\ harm' = harm \union { "lost" }
      <3>1. TypeOK'
        BY <1>7, <2>3, <2>4 DEF Chunk, TypeOK, All
      <3>2. HasDirectory' /\ Kept /\ AtStep'
        BY <1>7, <1>h, <2>4 DEF Chunk, HasDirectory, Kept, AtStep, Running
      <3>3. OpenCounted'
        BY <1>7, <2>1, <2>2, <2>3, <2>4 DEF Chunk, OpenCounted, All
      <3> QED
        BY <3>1, <3>2, <3>3
    <2>5. CASE /\ fs' = [ fs EXCEPT ![Now.on].size = fs[Now.on].size + 1 ]
               /\ UNCHANGED harm
      <3>1. /\ [ fs[Now.on] EXCEPT !.size = fs[Now.on].size + 1 ]
                 \in [ of : Items, size : 0 .. All ]
            /\ fs[Now.on].size + 1 <= total + 1
        BY <2>3 DEF All
      <3>2. fs' \in [ Files -> [ of : Items, size : 0 .. All ] ]
        BY <2>5, <3>1 DEF TypeOK
      <3>3. TypeOK'
        BY <1>7, <2>3, <2>5, <3>2 DEF Chunk, TypeOK, All
      <3>4. HasDirectory' /\ Kept
        BY <1>7, <1>f, <1>h, <2>1, <2>5 DEF Chunk, HasDirectory, Kept, TypeOK
      <3>5. AtStep'
        BY <1>7 DEF Chunk, AtStep, Running
      <3>6. OpenCounted'
        BY <1>7, <1>f, <2>1, <2>2, <2>3, <2>5, <3>1
           DEF Chunk, OpenCounted, TypeOK, All
      <3> QED
        BY <3>3, <3>4, <3>5, <3>6
    <2> QED
      BY <1>7, <2>4, <2>5 DEF Chunk
  <1>8. CASE CloseFile
    <2>1. Running
      BY <1>8 DEF CloseFile, Running
    <2>2. (Onward \/ Abandon) /\ harm' \subseteq Harms
      BY <1>8 DEF CloseFile, Abandon, TypeOK
    <2>3. /\ UNCHANGED << dirs, registered >>
          /\ \/ fs' = fs
             \/ /\ fs[Now.on].size > 0
                /\ fs' = [ fs EXCEPT ![Now.on].size = fs[Now.on].size - 1 ]
      BY <1>8 DEF CloseFile
    <2>4. /\ Now.on \in Spared /\ DirOf[Now.on] \in dirs
          /\ fs[Now.on] \in [ of : Items, size : 0 .. All ]
      BY <1>8, <1>f, <1>s, <2>1, NowOn DEF CloseFile, OpenCounted, TypeOK
    <2>5. fs' \in [ Files -> [ of : Items, size : 0 .. All ] ]
      <3>1. fs[Now.on].size > 0 =>
              [ fs[Now.on] EXCEPT !.size = fs[Now.on].size - 1 ]
                \in [ of : Items, size : 0 .. All ]
        BY <2>4 DEF All
      <3> QED
        BY <2>3, <3>1 DEF TypeOK
    <2>6. HasDirectory' /\ Kept
      BY <1>f, <1>h, <2>3, <2>4 DEF HasDirectory, Kept, TypeOK
    <2> QED
      BY <2>1, <2>2, <2>3, <2>5, <2>6, StepEnds DEF TypeOK
  <1>9. CASE RegisterTitle
    <2>1. Running
      BY <1>9 DEF RegisterTitle, At, Running
    <2>2. (Onward \/ Abandon) /\ harm' = harm /\ registered' \in BOOLEAN
      BY <1>9 DEF RegisterTitle, Advance, Abandon, TypeOK
    <2>3. HasDirectory' /\ Kept
      BY <1>9, <1>h DEF RegisterTitle, HasDirectory, Kept
    <2> QED
      BY <1>9, <2>1, <2>2, <2>3, StepEnds DEF RegisterTitle, TypeOK
  <1>10. CASE Kill
    <2>1. HasDirectory' /\ Kept
      BY <1>10, <1>h DEF Kill, HasDirectory, Kept
    <2> QED
      BY <1>10, <2>1, StepEnds DEF Kill, Abandon, TypeOK
  <1>11. CASE Play
    <2>1. "app" \in dirs
      <3>1. Holds("eboot", "eboot.bin")
        BY <1>11 DEF Play
      <3>2. "eboot" \in Files /\ DirOf["eboot"] = "app"
        BY DEF Files, DirOf
      <3> QED
        BY <3>1, <3>2 DEF HasDirectory, Holds, Nothing, All
    <2>2. TypeOK'
      <3>1. [ of |-> "identity", size |-> All ] \in [ of : Items, size : 0 .. All ]
        BY DEF Items, All
      <3> QED
        BY <1>11, <3>1 DEF Play, TypeOK
    <2>3. HasDirectory' /\ Kept
      BY <1>11, <1>f, <2>1 DEF Play, HasDirectory, Kept, TypeOK
    <2> QED
      BY <1>11, <2>2, <2>3 DEF Play, AtStep, OpenCounted, Running
  <1>12. CASE Over \/ UNCHANGED vars
    BY <1>12, <1>h DEF Over, vars, TypeOK, AtStep, OpenCounted, HasDirectory,
                   Kept, Running, Now
  <1> QED
    BY <1>1, <1>2, <1>3, <1>4, <1>5, <1>6, <1>7, <1>8, <1>9, <1>10, <1>11,
       <1>12 DEF Next

(***************************************************************************)
(* What a success says about the files.                                     *)
(***************************************************************************)

\* A step that changes at most the file it works on leaves alone what the
\* tool has written before it.
LEMMA EarlierStays ==
  ASSUME Sane, Running,
         \/ fs' = fs
         \/ /\ Now.op \in { "rm", "fetch", "write" }
            /\ \A f \in Files \ { Now.on } : fs'[f] = fs[f],
         NEW i \in 1 .. Len(Program(tool)), i < step, Writes(Program(tool)[i])
  PROVE  fs'[Program(tool)[i].on] = fs[Program(tool)[i].on]
  <1>1. tool \in Tools /\ step \in 1 .. Len(Program(tool))
    BY DEF Sane, AtStep
  <1>2. Program(tool)[i] \in SparingStep /\ Program(tool)[i].on \in Files
    BY <1>1, ProgramsSpare, NamesOfFiles DEF SparingStep, Writes, Spared
  <1>3. CASE fs' = fs
    BY <1>3
  <1>4. CASE /\ Now.op \in { "rm", "fetch", "write" }
             /\ \A f \in Files \ { Now.on } : fs'[f] = fs[f]
    <2>1. Once(Program(tool))
      BY <1>1, ProgramsOnce
    <2>2. Now.on # Program(tool)[i].on
      BY <1>1, <1>4, <2>1 DEF Once, Now
    <2> QED
      BY <1>2, <1>4, <2>2
  <1> QED
    BY <1>3, <1>4

\* What earlier steps have achieved lasts while the registration does.
LEMMA EarlierLasts ==
  ASSUME IInv, Running, tool' = tool, harm \subseteq harm',
         registered => registered',
         \/ fs' = fs
         \/ /\ Now.op \in { "rm", "fetch", "write" }
            /\ \A f \in Files \ { Now.on } : fs'[f] = fs[f],
         NEW i \in 1 .. Len(Program(tool)), i < step
  PROVE  Achieved(Program(tool)[i])'
  <1>1. Achieved(Program(tool)[i])
    BY DEF IInv, SoFar, Running
  <1>2. Writes(Program(tool)[i]) =>
          fs'[Program(tool)[i].on] = fs[Program(tool)[i].on]
    BY EarlierStays DEF IInv
  <1>3. Writes(Program(tool)[i]) => Written(Program(tool)[i])'
    BY <1>1, <1>2 DEF Achieved, Written, Holds
  <1> QED
    BY <1>1, <1>3 DEF Achieved

\* When a step is over the tool has achieved what it had to so far, if the step
\* has done what it is for.
LEMMA OverWritten ==
  ASSUME IInv, Running, Onward, harm \subseteq harm',
         registered => registered', Now = Register => registered',
         \/ fs' = fs
         \/ /\ Now.op \in { "rm", "fetch", "write" }
            /\ \A f \in Files \ { Now.on } : fs'[f] = fs[f],
         Writes(Now) =>
           /\ Now.must /\ "lost" \notin harm' => fs'[Now.on].size > 0
           /\ harm' = {} => fs'[Now.on] = [ of |-> Now.of, size |-> All ]
  PROVE  SoFar' /\ OpenFaithful'
  <1>1. /\ tool \in Tools /\ step \in 1 .. Len(Program(tool))
        /\ Len(Program(tool)) \in Nat
    BY ProgramsSpare DEF IInv, Sane, AtStep
  <1>2. tool' = tool /\ status' \in { "running", "done" }
    BY DEF Onward
  <1>3. ASSUME NEW i \in 1 .. Len(Program(tool)), i < step
        PROVE  Achieved(Program(tool)[i])'
    BY <1>2, <1>3, EarlierLasts
  <1>4. ASSUME NEW i \in 1 .. Len(Program(tool)), i = step
        PROVE  Achieved(Program(tool)[i])'
    <2>1. Program(tool)[i] = Now
      BY <1>4 DEF Now
    <2>2. Writes(Program(tool)[i]) => Written(Program(tool)[i])'
      BY <1>2, <2>1 DEF Written, Holds
    <2> QED
      BY <1>2, <2>1, <2>2 DEF Achieved
  <1>5. ASSUME NEW i \in 1 .. Len(Program(tool)), i < step' \/ status' = "done"
        PROVE  Achieved(Program(tool)[i])'
    <2>1. i < step \/ i = step
      BY <1>1, <1>5 DEF Onward
    <2> QED
      BY <1>3, <1>4, <2>1
  <1>6. SoFar'
    BY <1>1, <1>2, <1>5 DEF SoFar
  <1> QED
    BY <1>2, <1>6 DEF OpenFaithful

\* While a step goes on, what the tool had achieved before it stays.
LEMMA StillWritten ==
  ASSUME IInv, Running, UNCHANGED << tool, step, registered >>,
         status' = "open", harm \subseteq harm',
         Now.op \in { "fetch", "write" },
         \A f \in Files \ { Now.on } : fs'[f] = fs[f]
  PROVE  SoFar'
  <1>1. tool \in Tools /\ step \in 1 .. Len(Program(tool))
    BY DEF IInv, Sane, AtStep
  <1>2. ASSUME NEW i \in 1 .. Len(Program(tool)), i < step
        PROVE  Achieved(Program(tool)[i])'
    BY <1>2, EarlierLasts
  <1> QED
    BY <1>1, <1>2 DEF SoFar

\* Every step keeps what was achieved, and ends only when it has done its own.
LEMMA StepWritten == IInv /\ [Next]_vars => SoFar' /\ OpenFaithful'
  <1> SUFFICES ASSUME IInv, [Next]_vars PROVE SoFar' /\ OpenFaithful'
    OBVIOUS
  <1>s. Running => Now \in SparingStep
    BY NowIsSparing DEF IInv, Sane
  <1>a. Abandon => SoFar' /\ OpenFaithful'
    BY DEF Abandon, SoFar, OpenFaithful
  <1>r. Now = Register => Now.op = "register"
    BY DEF Register
  <1>1. CASE Start
    <2>1. tool' \in Tools /\ step' = 1 /\ status' = "running"
      BY <1>1 DEF Start
    <2>2. \A i \in 1 .. Len(Program(tool')) : ~(i < step')
      BY <2>1, ProgramsSpare
    <2> QED
      BY <2>1, <2>2 DEF SoFar, OpenFaithful
  <1>2. CASE RemoveFile
    <2>1. /\ Running /\ Now.op = "rm" /\ Onward /\ harm' = harm
          /\ ~Writes(Now) /\ Now # Register /\ registered' = registered
      BY <1>2, <1>r DEF RemoveFile, At, Running, Advance, Writes
    <2>2. \A f \in Files \ { Now.on } : fs'[f] = fs[f]
      BY <1>2 DEF RemoveFile, IInv, Sane, TypeOK
    <2> QED
      BY <2>1, <2>2, OverWritten
  <1>3. CASE RemoveDirectory
    <2>1. /\ Running /\ Onward /\ harm' = harm /\ fs' = fs
          /\ ~Writes(Now) /\ Now # Register /\ registered' = registered
      BY <1>3, <1>r DEF RemoveDirectory, At, Running, Advance, Writes
    <2> QED
      BY <2>1, OverWritten
  <1>4. CASE MakeDirectory
    <2>1. /\ Running /\ Onward /\ harm' = harm /\ fs' = fs
          /\ ~Writes(Now) /\ Now # Register /\ registered' = registered
      BY <1>4, <1>r DEF MakeDirectory, At, Running, Advance, Writes
    <2> QED
      BY <2>1, OverWritten
  <1>5. CASE OpenFile
    <2>1. /\ Running /\ Now.op \in { "fetch", "write" } /\ Now.on \in Files
          /\ UNCHANGED << tool, step, registered >>
          /\ status' = "open" /\ total' = 0
      BY <1>5, <1>s, NowOn DEF OpenFile, At, Running, Spared
    <2>2. PICK item :
            /\ fs' = [ fs EXCEPT ![Now.on] = [ of |-> item, size |-> 0 ] ]
            /\ harm' = harm \union (IF item = Now.of THEN {} ELSE { "wrong" })
      BY <1>5 DEF OpenFile
    <2>3. /\ fs'[Now.on] = [ of |-> item, size |-> 0 ]
          /\ \A f \in Files \ { Now.on } : fs'[f] = fs[f]
      BY <2>1, <2>2 DEF IInv, Sane, TypeOK
    <2>4. SoFar'
      BY <2>1, <2>2, <2>3, StillWritten
    <2>5. Now' = Now
      BY <2>1 DEF Now
    <2>6. OpenFaithful'
      BY <2>1, <2>2, <2>3, <2>5 DEF OpenFaithful
    <2> QED
      BY <2>4, <2>6
  <1>6. CASE OpenFails
    <2>1. CASE Now.must
      BY <1>6, <1>a, <2>1 DEF OpenFails
    <2>2. CASE ~Now.must
      <3>1. /\ Running /\ Onward /\ harm' = harm \union { "skipped" }
            /\ fs' = fs /\ registered' = registered /\ Now # Register
        BY <1>6, <1>r, <2>2 DEF OpenFails, At, Running
      <3> QED
        BY <2>2, <3>1, OverWritten
    <2> QED
      BY <2>1, <2>2
  <1>7. CASE Chunk
    <2>1. /\ Running /\ Now.op \in { "fetch", "write" } /\ Now.on \in Files
          /\ UNCHANGED << tool, step, status, registered >>
          /\ status = "open" /\ total' = total + 1
      BY <1>7, <1>s, NowOn DEF Chunk, Running, Spared, IInv, Sane, OpenCounted
    <2>2. fs[Now.on] \in [ of : Items, size : 0 .. All ]
      BY <2>1 DEF IInv, Sane, TypeOK
    <2>3. Now' = Now
      BY <2>1 DEF Now
    <2>4. CASE UNCHANGED fs /\ harm' = harm \union { "lost" }
      BY <2>1, <2>3, <2>4, StillWritten DEF IInv, OpenFaithful
    <2>5. CASE /\ fs' = [ fs EXCEPT ![Now.on].size = fs[Now.on].size + 1 ]
               /\ UNCHANGED harm
      <3>1. /\ fs'[Now.on].size = fs[Now.on].size + 1
            /\ fs'[Now.on].of = fs[Now.on].of
            /\ \A f \in Files \ { Now.on } : fs'[f] = fs[f]
        BY <2>1, <2>2, <2>5 DEF IInv, Sane, TypeOK
      <3>2. SoFar'
        BY <2>1, <2>5, <3>1, StillWritten
      <3>3. OpenFaithful'
        BY <2>1, <2>3, <2>5, <3>1 DEF IInv, OpenFaithful
      <3> QED
        BY <3>2, <3>3
    <2> QED
      BY <1>7, <2>4, <2>5 DEF Chunk
  <1>8. CASE CloseFile
    <2>1. /\ Running /\ Now.op \in { "fetch", "write" } /\ Now.on \in Files
          /\ status = "open" /\ registered' = registered /\ Now # Register
      BY <1>8, <1>r, <1>s, NowOn
         DEF CloseFile, Running, Spared, IInv, Sane, OpenCounted
    <2>2. CASE Abandon
      BY <1>a, <2>2
    <2>3. CASE ~Abandon
      <3>1. /\ Onward
            /\ Now.must => IF Now.op = "fetch" THEN total # 0
                           ELSE ~(fs[Now.on].size < All)
            /\ \/ /\ harm' = harm \union (IF total < All THEN { "cut" } ELSE {})
                  /\ fs' = fs
               \/ /\ harm' = harm \union { "lost" }
                  /\ fs' = [ fs EXCEPT ![Now.on].size = fs[Now.on].size - 1 ]
        BY <1>8, <2>3 DEF CloseFile, GiveUp
      <3>2. /\ fs[Now.on] \in [ of : Items, size : 0 .. All ]
            /\ total \in 0 .. All
        BY <2>1 DEF IInv, Sane, TypeOK
      <3>3. /\ "lost" \notin harm => fs[Now.on].size = total
            /\ "wrong" \notin harm => fs[Now.on].of = Now.of
        BY <2>1 DEF IInv, OpenFaithful
      <3>4. ASSUME Now.must, "lost" \notin harm' PROVE fs'[Now.on].size > 0
        <4>1. fs' = fs /\ "lost" \notin harm
          BY <3>1, <3>4
        <4> QED
          BY <2>1, <3>1, <3>2, <3>3, <3>4, <4>1 DEF All
      <3>5. ASSUME harm' = {}
            PROVE  fs'[Now.on] = [ of |-> Now.of, size |-> All ]
        <4>1. harm = {} /\ ~(total < All) /\ fs' = fs
          BY <3>1, <3>5
        <4>2. fs[Now.on].size = All /\ fs[Now.on].of = Now.of
          BY <3>2, <3>3, <4>1 DEF All
        <4> QED
          BY <3>2, <4>1, <4>2
      <3>6. /\ harm \subseteq harm'
            /\ \A f \in Files \ { Now.on } : fs'[f] = fs[f]
        BY <2>1, <3>1 DEF IInv, Sane, TypeOK
      <3> QED
        BY <2>1, <3>1, <3>4, <3>5, <3>6, OverWritten
    <2> QED
      BY <2>2, <2>3
  <1>9. CASE RegisterTitle
    <2>1. CASE Abandon
      BY <1>a, <2>1
    <2>2. CASE Advance /\ registered' = TRUE
      <3>1. /\ Running /\ Onward /\ harm' = harm /\ fs' = fs /\ ~Writes(Now)
        BY <1>9, <2>2 DEF RegisterTitle, At, Running, Advance, Writes
      <3> QED
        BY <2>2, <3>1, OverWritten
    <2> QED
      BY <1>9, <2>1, <2>2 DEF RegisterTitle
  <1>10. CASE Kill
    BY <1>10, <1>a DEF Kill
  <1>11. CASE Play
    <2>1. \A f \in Spared : fs'[f] = fs[f]
      BY <1>11, NamesOfFiles DEF Play, Spared, IInv, Sane, TypeOK
    <2>2. UNCHANGED << tool, step, status, harm, registered >> /\ status # "open"
      BY <1>11 DEF Play, Running
    <2>3. ASSUME NEW i \in 1 .. Len(Program(tool)), tool \in Tools,
                 Achieved(Program(tool)[i])
          PROVE  Achieved(Program(tool)[i])'
      <3>1. Writes(Program(tool)[i]) => Program(tool)[i].on \in Spared
        BY <2>3, ProgramsSpare DEF SparingStep, Writes
      <3>2. Writes(Program(tool)[i]) => Written(Program(tool)[i])'
        BY <2>1, <2>2, <2>3, <3>1 DEF Achieved, Written, Holds
      <3> QED
        BY <2>2, <2>3, <3>2 DEF Achieved
    <2> QED
      BY <2>2, <2>3 DEF IInv, SoFar, OpenFaithful
  <1>12. CASE Over \/ UNCHANGED vars
    BY <1>12 DEF Over, vars, IInv, SoFar, OpenFaithful, Achieved, Written, Holds,
                 Now
  <1> QED
    BY <1>1, <1>2, <1>3, <1>4, <1>5, <1>6, <1>7, <1>8, <1>9, <1>10, <1>11,
       <1>12 DEF Next

\* Before the first tool no file is open.
LEMMA InitIInv == Init => IInv
  BY InitSane DEF Init, IInv, SoFar, OpenFaithful

\* Every step keeps the invariant, a saved identity and its directory.
LEMMA StepIInv == IInv /\ [Next]_vars => IInv' /\ Kept
  BY StepSane, StepWritten DEF IInv

\* The invariant holds throughout (install_net.c:111-146, reinstall.c:82-130,
\* update_app.c:48-63, install_app.c:66-107).
THEOREM Inductive == Spec => []IInv
  BY InitIInv, StepIInv, PTL DEF Spec

\* In any order of any tools and however they fail, what a file holds and
\* what was counted stay in their bounds.
THEOREM TypeCorrect == Spec => []TypeOK
  <1>1. IInv => TypeOK
    BY DEF IInv, Sane
  <1> QED
    BY <1>1, Inductive, PTL

\* No tool takes a saved identity or its directory away, in whatever order
\* they run and wherever they fail or are killed (reinstall.c:85-97).
THEOREM IdentityStays == Spec => IdentityKept
  <1>1. IInv /\ [Next]_vars =>
          [ Holds("identity", "identity") =>
              UNCHANGED fs["identity"] /\ "app" \in dirs' ]_<< fs, dirs >>
    BY StepIInv DEF Kept
  <1> QED
    BY <1>1, Inductive, PTL DEF Spec, IdentityKept

\* After any number of runs, a tool that reports success has left something
\* in each file it must write, unless its writes fell short unnoticed
\* (install_net.c:82-83, 123, update_app.c:54, 59).
THEOREM NoEmptySuccess == Spec => []SuccessLeavesBytes
  <1>1. IInv => SuccessLeavesBytes
    BY DEF IInv, SoFar, SuccessLeavesBytes, Achieved, Written, Writes
  <1> QED
    BY <1>1, Inductive, PTL

\* After any number of failed or killed runs, an unharmed success of an
\* installer leaves all the system needs to start the client, and one of
\* update_app.c an eboot.bin with its program (update_app.c:52,
\* install_net.c:111-146, install_app.c:66-107).
THEOREM OneGoodRunRepairs == Spec => []RerunRepairs
  <1>1. ASSUME IInv, status = "done", harm = {}
        PROVE  /\ tool \in { "install_net", "install_app" } => Startable
               /\ tool = "update_app" => EbootComplete
    <2>1. \A i \in 1 .. Len(Program(tool)) : Achieved(Program(tool)[i])
      BY <1>1 DEF IInv, SoFar
    <2>2. ASSUME NEW s, Among(Program(tool), s)
          PROVE  /\ Writes(s) => Holds(s.on, s.of)
                 /\ s = Register => registered
      BY <1>1, <2>1, <2>2 DEF Among, Achieved, Written
    <2>3. ASSUME tool \in { "install_net", "install_app" } PROVE Startable
      <3>1. Program(tool) \in { InstallNet, InstallApp }
        BY <2>3 DEF Program
      <3>2. Holds("usrParam", "param") /\ Holds("sysParam", "param")
        BY <2>2, <3>1, Delivers DEF Writes, WriteTo
      <3>3. registered
        BY <2>2, <3>1, Delivers
      <3>4. Holds("eboot", "eboot.bin")
        BY <2>2, <3>1, Delivers DEF Writes, WriteTo, FetchTo
      <3> QED
        BY <3>2, <3>3, <3>4 DEF Startable
    <2>4. ASSUME tool = "update_app" PROVE EbootComplete
      <3>1. Program(tool) = UpdateApp
        BY <2>4 DEF Program
      <3>2. /\ Holds("eboot", "launcher_eboot.bin")
            /\ Holds("elf", "moonlight-ps5.elf")
        BY <2>2, <3>1, Delivers DEF Writes, FetchTo
      <3> QED
        BY <3>2 DEF EbootComplete
    <2> QED
      BY <2>3, <2>4
  <1>2. IInv => RerunRepairs
    BY <1>1 DEF RerunRepairs
  <1> QED
    BY <1>2, Inductive, PTL

==============================================================================
