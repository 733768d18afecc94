-------------------------- MODULE GenerationProofs --------------------------
(***************************************************************************)
(* Proofs about Generation, for every PRD that the schema admits, whatever *)
(* its names and its prose are, every answer of a model and every repair   *)
(* budget.                                                                 *)
(*                                                                         *)
(* A build is a build of RepairLoop, so what is proved of the loop comes   *)
(* with it.  What a build delivers follows from one invariant, BuildInv:   *)
(* the diagnostics hold what the checks say of the files.  For the         *)
(* templates, what is said in each round is known exactly                  *)
(* (TemplateErrors), and RoundInv counts the rounds.                       *)
(***************************************************************************)
EXTENDS Generation, WellFoundedInduction, FiniteSetTheorems, TLAPS

-----------------------------------------------------------------------------
(* Sequences, and the last of their elements that passes a test.           *)

\* What is in a sequence over S is in S.
LEMMA ElementsTyped ==
  ASSUME NEW S, NEW seq \in Seq(S)
  PROVE  ToSet(seq) \subseteq S /\ (seq # <<>> => ToSet(seq) # {})
  BY DEF ToSet

\* A set of indices has a least and a greatest one.
LEMMA FirstIndex ==
  ASSUME NEW n \in Nat, NEW I \in SUBSET (1 .. n), I # {}
  PROVE  Min(I) \in I
<1> DEFINE R == OpToRel(<, Nat)
<1>1. I \subseteq Nat
  OBVIOUS
<1>2. IsWellFoundedOn(R, Nat)
  BY NatLessThanWellFounded
<1> HIDE DEF R
<1>3. PICK x \in I : \A y \in I : ~ (<<y, x>> \in R)
  BY <1>1, <1>2, WFMin
<1>4. \A y \in I : x <= y
  <2> SUFFICES ASSUME NEW y \in I, y < x PROVE FALSE
    BY <1>1
  <2>1. <<y, x>> \in R
    BY <1>1 DEF R, OpToRel
  <2> QED
    BY <1>3, <2>1
<1> QED
  BY <1>4 DEF Min

LEMMA LastIndex ==
  ASSUME NEW n \in Nat, NEW I \in SUBSET (1 .. n), I # {}
  PROVE  Max(I) \in I
<1> DEFINE T == {n - i : i \in I}
           R == OpToRel(<, Nat)
<1>1. T \subseteq Nat /\ T # {}
  <2>1. \A i \in I : n - i \in Nat /\ n - i \in T
    OBVIOUS
  <2> QED
    BY <2>1
<1>2. IsWellFoundedOn(R, Nat)
  BY NatLessThanWellFounded
<1> HIDE DEF R
<1>3. PICK x \in T : \A y \in T : ~ (<<y, x>> \in R)
  BY <1>1, <1>2, WFMin
<1>4. \A y \in T : ~ (y < x)
  <2> SUFFICES ASSUME NEW y \in T, y < x PROVE FALSE
    OBVIOUS
  <2>1. y \in Nat /\ x \in Nat
    BY <1>1
  <2>2. <<y, x>> \in R
    BY <2>1 DEF R, OpToRel
  <2> QED
    BY <1>3, <2>2
<1>5. PICK i \in I : x = n - i
  OBVIOUS
<1>6. \A j \in I : i >= j
  <2> SUFFICES ASSUME NEW j \in I PROVE i >= j
    OBVIOUS
  <2>1. n - j \in T /\ ~ (n - j < x)
    BY <1>4
  <2> QED
    BY <1>5, <2>1
<1> QED
  BY <1>6 DEF Max

\* The first of some paths is one of them, and no other comes before it.
LEMMA FirstFound ==
  ASSUME NEW paths \in SUBSET Files, paths # {}
  PROVE  FirstOf(paths) \in paths /\ \A q \in paths : Rank[FirstOf(paths)] <= Rank[q]
<1> DEFINE T == {Rank[p] : p \in paths}
           R == OpToRel(<, Nat)
<1>0. \A p \in paths : Rank[p] \in Nat
  BY FilesAssumption
<1>1. T \subseteq Nat /\ T # {}
  BY <1>0
<1>2. IsWellFoundedOn(R, Nat)
  BY NatLessThanWellFounded
<1> HIDE DEF R
<1>3. PICK x \in T : \A y \in T : ~ (<<y, x>> \in R)
  BY <1>1, <1>2, WFMin
<1>4. \A y \in T : x <= y
  <2> SUFFICES ASSUME NEW y \in T PROVE x <= y
    OBVIOUS
  <2>1. y \in Nat /\ x \in Nat
    BY <1>1
  <2>2. y < x => <<y, x>> \in R
    BY <2>1 DEF R, OpToRel
  <2> QED
    BY <1>3, <2>1, <2>2
<1>5. PICK p \in paths : x = Rank[p]
  OBVIOUS
<1>6. \A q \in paths : Rank[p] <= Rank[q]
  BY <1>4, <1>5
<1> QED
  BY <1>6 DEF FirstOf

-----------------------------------------------------------------------------
(* The document and its names.                                             *)

\* The parts of a PRD have the kinds that the schema gives them.
LEMMA DocumentTyped ==
  ASSUME NEW d \in Documents
  PROVE  /\ d.screens \in Seq(ScreenType) /\ d.models \in Seq(ModelType) /\ d.app \in Texts
         /\ ToSet(d.screens) \subseteq ScreenType /\ ToSet(d.models) \subseteq ModelType
  BY ElementsTyped DEF Documents

\* The two agents' files are told apart by their directories.
LEMMA PathFacts ==
  /\ UiPaths \cap LogicPaths = {} /\ UiPaths \cup LogicPaths = Files
  /\ ProviderPaths \subseteq LogicPaths /\ Pubspec \notin Files
  /\ \A p \in UiPaths : p[1] = "ui"
  /\ \A p \in LogicPaths : p[1] # "ui"
  /\ AppFile \in UiPaths /\ MainFile \in LogicPaths
  /\ \A n \in Names : ScreenFile(n) \in UiPaths /\ ScreenFile(n) # AppFile
  /\ \A m \in ModelType : ProviderFile(m) \in LogicPaths
<1>1. \A n \in Names : Snake[n] \in Seq(STRING) \ {<<>>}
  BY TextsAssumption
<1>2. AppFile \in Files /\ MainFile \in Files /\ Pubspec \notin Files
  BY FilesAssumption
<1>3. \A n \in Names : ScreenFile(n) \in UiPaths /\ ScreenFile(n) # AppFile
  <2>1. \A n \in Names : ScreenFile(n) \in Files
    BY FilesAssumption
  <2> QED
    BY <1>1, <2>1 DEF UiPaths, ScreenFile, AppFile
<1>4. \A m \in ModelType : ProviderFile(m) \in LogicPaths
  <2>1. \A t \in Texts : <<"providers", Snake[t]>> \in Files
    BY FilesAssumption
  <2> QED
    BY <2>1 DEF ModelType, ProviderFile, LogicPaths, UiPaths
<1>5. AppFile \in UiPaths /\ MainFile \in LogicPaths
  BY <1>2 DEF UiPaths, LogicPaths, AppFile, MainFile
<1>6. ProviderPaths \subseteq LogicPaths
  BY <1>5 DEF ProviderPaths, LogicPaths, UiPaths
<1> QED
  BY <1>2, <1>3, <1>4, <1>5, <1>6 DEF UiPaths, LogicPaths

\* Two names with one class have the same words.
LEMMA ClassFacts ==
  ASSUME NEW m \in Texts, NEW n \in Names
  PROVE  /\ ScreenClass(m) = ScreenClass(n) => Snake[m] = Snake[n]
         /\ Class(m, <<"app">>) # ScreenClass(n)
<1> DEFINE x == Snake[m]
           y == Snake[n]
<1>1. x \in Seq(STRING) /\ y \in Seq(STRING)
  BY TextsAssumption
<1>2. /\ ScreenClass(m) = <<"class", x \o <<"screen">>>> /\ ScreenClass(n) = <<"class", y \o <<"screen">>>>
      /\ Class(m, <<"app">>) = <<"class", x \o <<"app">>>>
  BY DEF ScreenClass, Class
<1>3. ASSUME x \o <<"screen">> = y \o <<"screen">> PROVE x = y
  <2>1. Len(x) = Len(y)
    BY <1>1, <1>3
  <2>2. \A i \in 1 .. Len(x) : x[i] = y[i]
    <3> SUFFICES ASSUME NEW i \in 1 .. Len(x) PROVE x[i] = y[i]
      OBVIOUS
    <3>1. (x \o <<"screen">>)[i] = x[i] /\ (y \o <<"screen">>)[i] = y[i]
      BY <1>1, <2>1
    <3> QED
      BY <1>3, <3>1
  <2> QED
    BY <1>1, <2>1, <2>2
<1>4. ASSUME x \o <<"app">> = y \o <<"screen">> PROVE FALSE
  <2>1. Len(x) = Len(y)
    BY <1>1, <1>4
  <2>2. (x \o <<"app">>)[Len(x) + 1] = "app" /\ (y \o <<"screen">>)[Len(y) + 1] = "screen"
    BY <1>1
  <2> QED
    BY <1>4, <2>1, <2>2
<1>5. \A a, b : <<"class", a>> = <<"class", b>> => a = b
  OBVIOUS
<1>6. ScreenClass(m) = ScreenClass(n) => x = y
  BY <1>2, <1>3, <1>5
<1>7. Class(m, <<"app">>) # ScreenClass(n)
  BY <1>2, <1>4, <1>5
<1> QED
  BY <1>6, <1>7 DEF x, y

-----------------------------------------------------------------------------
(* The files of the templates.                                             *)

\* What the checks find in the file of screen t, with or without a fault.
Drawn(file, d, t) ==
  /\ file.classes = <<ScreenClass(t.id)[2]>> /\ file.declares = {ScreenClass(t.id)}
  /\ {ScreenClass(t.id)} \cup Watches(d, t) \subseteq file.mentions
  /\ file.mentions \subseteq {ScreenClass(t.id), Unsynced} \cup Watches(d, t)
  /\ file.table = RenderScreen(d, t).table /\ Ways(d, t) \subseteq file.ways
  /\ Entries(d, t) \subseteq file.captures
  /\ file.braces = Depth(d, t) /\ file.bad \subseteq {"setstate_in_ui"}

\* A search for classes finds them in order.
Listed(file) == Len(file.classes) \in Nat /\ DOMAIN file.classes = 1 .. Len(file.classes)

\* What a screen's file holds of it, field by field.
LEMMA ScreenFields ==
  ASSUME NEW d, NEW t
  PROVE  LET file == RenderScreen(d, t) IN
         /\ file.classes = <<ScreenClass(t.id)[2]>> /\ file.declares = {ScreenClass(t.id)}
         /\ file.mentions = {ScreenClass(t.id)} \cup Watches(d, t)
         /\ file.watches = Watches(d, t) /\ file.ways = Ways(d, t)
         /\ file.captures = Entries(d, t) \cup Common[d.theme]
         /\ file.braces = Depth(d, t) /\ file.bad = {}
<1> DEFINE file == RenderScreen(d, t)
<1>1. /\ file.classes = <<ScreenClass(t.id)[2]>> /\ file.declares = {ScreenClass(t.id)}
      /\ file.mentions = {ScreenClass(t.id)} \cup Watches(d, t)
  BY DEF RenderScreen, NoFile
<1>2. file.watches = Watches(d, t) /\ file.ways = Ways(d, t)
  BY DEF RenderScreen, NoFile
<1>4. file.braces = Depth(d, t)
  BY DEF RenderScreen, NoFile
<1>5. file.bad = {}
  BY DEF RenderScreen, NoFile
<1>3. file.captures = Entries(d, t) \cup Common[d.theme]
  BY DEF RenderScreen, NoFile
<1> QED
  BY <1>1, <1>2, <1>3, <1>4, <1>5

\* A fault adds to it.
LEMMA BrokenFields ==
  ASSUME NEW d, NEW t, NEW f
  PROVE  LET file == RenderScreen(d, t)
             out == Broken(file, f) IN
         /\ out.classes = file.classes /\ out.declares = file.declares
         /\ out.mentions = file.mentions \cup (IF f = "undefined_provider" THEN {Unsynced} ELSE {})
         /\ out.watches = file.watches \cup (IF f = "undefined_provider" THEN {Unsynced} ELSE {})
         /\ file.ways \subseteq out.ways /\ out.table = file.table
         /\ out.captures = file.captures /\ out.braces = file.braces
         /\ out.bad = IF f = "setstate" THEN {"setstate_in_ui"} ELSE file.bad
<1> DEFINE file == RenderScreen(d, t)
           out == Broken(file, f)
<1>1. out.classes = file.classes /\ out.declares = file.declares
  BY DEF Broken, RenderScreen, NoFile
<1>2. out.mentions = file.mentions \cup (IF f = "undefined_provider" THEN {Unsynced} ELSE {})
  BY DEF Broken, RenderScreen, NoFile
<1>3. out.watches = file.watches \cup (IF f = "undefined_provider" THEN {Unsynced} ELSE {})
  BY DEF Broken, RenderScreen, NoFile
<1>4. file.ways \subseteq out.ways /\ out.table = file.table
  BY DEF Broken, RenderScreen, NoFile
<1>5. out.captures = file.captures /\ out.braces = file.braces
  BY DEF Broken, RenderScreen, NoFile
<1>6. out.bad = IF f = "setstate" THEN {"setstate_in_ui"} ELSE file.bad
  BY DEF Broken, RenderScreen, NoFile
<1> QED
  BY <1>1, <1>2, <1>3, <1>4, <1>5, <1>6

\* A drawn screen shows what Drawn says, with a fault or without.
LEMMA RenderedScreen ==
  ASSUME NEW d, NEW t, NEW f
  PROVE  Drawn(Broken(RenderScreen(d, t), f), d, t)
<1> DEFINE file == RenderScreen(d, t)
           out == Broken(file, f)
<1>1. /\ file.classes = <<ScreenClass(t.id)[2]>> /\ file.declares = {ScreenClass(t.id)}
      /\ file.mentions = {ScreenClass(t.id)} \cup Watches(d, t) /\ file.ways = Ways(d, t)
      /\ file.captures = Entries(d, t) \cup Common[d.theme]
      /\ file.braces = Depth(d, t) /\ file.bad = {}
  BY ScreenFields
<1>2. /\ out.classes = file.classes /\ out.declares = file.declares
      /\ out.mentions = file.mentions \cup (IF f = "undefined_provider" THEN {Unsynced} ELSE {})
      /\ file.ways \subseteq out.ways /\ out.table = file.table
      /\ out.captures = file.captures /\ out.braces = file.braces
      /\ out.bad = IF f = "setstate" THEN {"setstate_in_ui"} ELSE file.bad
  BY BrokenFields
<1> HIDE DEF file, out
<1>3. Drawn(out, d, t)
  BY <1>1, <1>2 DEF Drawn, file
<1> QED
  BY <1>3 DEF file, out

\* Of the screens of one file, one is drawn in it.
LEMMA LastScreen ==
  ASSUME NEW d \in Documents, NEW p \in {ScreenFile(s.id) : s \in ToSet(d.screens)}
  PROVE  /\ LastWhere(d.screens, LAMBDA s : ScreenFile(s.id) = p) \in ToSet(d.screens)
         /\ ScreenFile(LastWhere(d.screens, LAMBDA s : ScreenFile(s.id) = p).id) = p
<1> DEFINE q == d.screens
           I == {i \in 1 .. Len(q) : ScreenFile(q[i].id) = p}
<1>1. q \in Seq(ScreenType) /\ Len(q) \in Nat /\ DOMAIN q = 1 .. Len(q)
  BY DocumentTyped
<1>2. I # {}
  BY <1>1 DEF ToSet
<1>3. Max(I) \in I
  BY <1>1, <1>2, LastIndex
<1>4. LastWhere(q, LAMBDA s : ScreenFile(s.id) = p) = q[Max(I)]
  <2>1. SelectLastInSeq(q, LAMBDA s : ScreenFile(s.id) = p) = Max(I)
    BY <1>2 DEF SelectLastInSeq
  <2>2. Max(I) # 0
    BY <1>1, <1>3
  <2> QED
    BY <2>1, <2>2 DEF LastWhere
<1> QED
  BY <1>1, <1>3, <1>4 DEF ToSet

\* build_ui answers with one file for each screen, and the shell.
LEMMA BuiltUi ==
  ASSUME NEW d \in Documents, NEW f, NEW batch
  PROVE  /\ DOMAIN BuildUi(d, f, batch) = {ScreenFile(s.id) : s \in ToSet(d.screens)} \cup {AppFile}
         /\ DOMAIN BuildUi(d, f, batch) \subseteq UiPaths
         /\ \A p \in DOMAIN BuildUi(d, f, batch) : Listed(BuildUi(d, f, batch)[p])
<1> DEFINE paths == {ScreenFile(s.id) : s \in ToSet(d.screens)}
           Final(p) == LastWhere(d.screens, LAMBDA s : ScreenFile(s.id) = p)
           hit == batch = {} /\ d.theme = "material"
           Out(p) == IF p = AppFile THEN RenderApp(d)
                     ELSE IF hit /\ p = ScreenFile(d.screens[1].id)
                          THEN Broken(RenderScreen(d, Final(p)), f)
                          ELSE RenderScreen(d, Final(p))
<1>1. BuildUi(d, f, batch) = [p \in paths \cup {AppFile} |-> Out(p)]
  BY DEF BuildUi
<1>2. paths \subseteq UiPaths
  BY DocumentTyped, PathFacts DEF ScreenType
<1>3. ASSUME NEW p \in paths \cup {AppFile} PROVE Listed(Out(p))
  <2>1. RenderApp(d).classes = <<AppClass(d)[2]>>
    BY DEF RenderApp, NoFile
  <2>2. \A t : /\ RenderScreen(d, t).classes = <<ScreenClass(t.id)[2]>>
               /\ Broken(RenderScreen(d, t), f).classes = <<ScreenClass(t.id)[2]>>
    BY ScreenFields, BrokenFields
  <2>3. \E c : Out(p).classes = <<c>>
    BY <2>1, <2>2
  <2> QED
    BY <2>3 DEF Listed
<1> HIDE DEF Out, paths
<1>4. DOMAIN BuildUi(d, f, batch) = paths \cup {AppFile}
      /\ \A p \in paths \cup {AppFile} : BuildUi(d, f, batch)[p] = Out(p)
  BY <1>1
<1> QED
  BY <1>2, <1>3, <1>4, PathFacts DEF paths

\* wire_logic answers with one file for each model, and main.dart.
LEMMA WiredLogic ==
  ASSUME NEW d \in Documents
  PROVE  /\ DOMAIN WireLogic(d) = {ProviderFile(m) : m \in ToSet(d.models)} \cup {MainFile}
         /\ DOMAIN WireLogic(d) \subseteq LogicPaths
<1>1. DOMAIN WireLogic(d) = {ProviderFile(m) : m \in ToSet(d.models)} \cup {MainFile}
  BY DEF WireLogic
<1> QED
  BY <1>1, DocumentTyped, PathFacts

-----------------------------------------------------------------------------
(* Where the checks put their errors.                                      *)

Anywhere == Files \cup {Pubspec}
Reported == [file : Anywhere, code : Codes]

\* An error that its path gives to an agent is in a file of the app.
Placeable  == {"unwired_declaration", "unbalanced_braces", "consumer_state_build_signature"}
InApp(app) == {e \in Reported : e.code \in Placeable => e.file \in DOMAIN app}

LEMMA ErrorPlaced ==
  ASSUME NEW app, NEW p \in Anywhere, NEW c \in Codes, p \in DOMAIN app \/ c \notin Placeable
  PROVE  Error(p, c) \in InApp(app)
  BY DEF Error, InApp, Reported

\* The checks of theme, screens and forms report against the shell.
LEMMA ScreensPlaced ==
  ASSUME NEW d \in Documents, NEW app
  PROVE  CheckTheme(d, app) \cup CheckScreens(d, app) \cup CheckForms(d, app) \subseteq InApp(app)
<1> AppFile \in Anywhere
  BY PathFacts DEF Anywhere
<1>1. /\ Error(AppFile, "missing_screen") \in InApp(app)
      /\ Error(AppFile, "unreachable_screen") \in InApp(app)
      /\ Error(AppFile, "theme_mismatch") \in InApp(app)
      /\ Error(AppFile, "missing_form_field") \in InApp(app)
  BY ErrorPlaced DEF Codes, Placeable
<1>2. CheckTheme(d, app) \subseteq InApp(app)
  BY <1>1 DEF CheckTheme
<1>3. CheckScreens(d, app) \subseteq InApp(app)
  <2>1. \A id : ScreenErrors(app, id) \subseteq InApp(app)
    BY <1>1 DEF ScreenErrors
  <2> QED
    BY <2>1 DEF CheckScreens
<1>4. CheckForms(d, app) \subseteq InApp(app)
  <2>1. \A s : FormErrors(d, app, s) \subseteq InApp(app)
    BY <1>1 DEF FormErrors
  <2> QED
    BY <2>1 DEF CheckForms
<1> QED
  BY <1>2, <1>3, <1>4

\* Those of models, ways and the pubspec report against a file that the PRD implies.
LEMMA OthersPlaced ==
  ASSUME NEW d \in Documents, NEW app, NEW m
  PROVE  CheckModels(d, app) \cup CheckNavigation(d, app) \cup CheckManifest(m) \subseteq InApp(app)
<1> MainFile \in Anywhere /\ Pubspec \in Anywhere
  BY PathFacts DEF Anywhere
<1>1. CheckModels(d, app) \subseteq InApp(app)
  <2>1. /\ Error(MainFile, "missing_provider") \in InApp(app)
        /\ Error(MainFile, "wrong_collection") \in InApp(app)
    BY ErrorPlaced DEF Codes, Placeable
  <2>2. \A x : ModelErrors(app, x) \subseteq InApp(app)
    BY <2>1 DEF ModelErrors
  <2> QED
    BY <2>2 DEF CheckModels
<1>2. CheckNavigation(d, app) \subseteq InApp(app)
  <2> SUFFICES ASSUME NEW s \in ToSet(d.screens)
               PROVE  Error(ScreenFile(s.id), "unreachable_screen") \in InApp(app)
    BY DEF CheckNavigation
  <2>1. ScreenFile(s.id) \in Anywhere
    BY DocumentTyped, PathFacts DEF ScreenType, Anywhere
  <2> QED
    BY <2>1, ErrorPlaced DEF Codes, Placeable
<1>3. CheckManifest(m) \subseteq InApp(app)
  <2>1. /\ Error(Pubspec, "unparseable_pubspec") \in InApp(app)
        /\ Error(Pubspec, "lints_not_installed") \in InApp(app)
    BY ErrorPlaced DEF Codes, Placeable
  <2> QED
    BY <2>1 DEF CheckManifest
<1> QED
  BY <1>1, <1>2, <1>3

\* The others report against the files they find their errors in.
LEMMA FilesPlaced ==
  ASSUME NEW app, DOMAIN app \subseteq Files, NEW m
  PROVE  CheckUnwired(app) \cup CheckDuplicates(app) \cup CheckFiles(app)
           \cup Analyze(app, m) \subseteq InApp(app)
<1>1. \A p \in DOMAIN app : \A c \in Codes : Error(p, c) \in InApp(app)
  BY ErrorPlaced DEF Anywhere
<1>2. CheckUnwired(app) \cup CheckDuplicates(app) \subseteq InApp(app)
  BY <1>1 DEF CheckUnwired, CheckDuplicates, Codes
<1>3. \A paths \in SUBSET DOMAIN app : \A c \in Codes : Bad(app, paths, c) \subseteq InApp(app)
  BY <1>1 DEF Bad
<1>4. /\ InUi(app) \subseteq DOMAIN app /\ In(app, "providers") \subseteq DOMAIN app
      /\ In(app, "lib") \subseteq DOMAIN app
  BY DEF InUi, In
<1>5. CheckFiles(app) \subseteq InApp(app)
  BY <1>3 DEF CheckFiles, Codes
<1>6. Analyze(app, m) \subseteq InApp(app)
  <2>1. Error(Pubspec, "incomplete_pubspec") \in InApp(app)
    BY ErrorPlaced DEF Codes, Anywhere, Placeable
  <2>2. /\ Bad(app, InUi(app), "setstate_in_ui") \subseteq InApp(app)
        /\ Bad(app, InUi(app), "logic_in_ui") \subseteq InApp(app)
        /\ Bad(app, In(app, "providers"), "ui_in_logic") \subseteq InApp(app)
    BY <1>3, <1>4 DEF Codes
  <2>3. {Error(p, "undefined_provider") :
           p \in {p \in InUi(app) : ~(app[p].watches \subseteq Declared(app))}} \subseteq InApp(app)
    BY <1>1, <1>4 DEF Codes
  <2>4. {Error(p, "unbalanced_braces") : p \in {p \in Counted(app) : app[p].braces # 0}}
          \subseteq InApp(app)
    BY <1>1, <1>4 DEF Codes, Counted
  <2> QED
    BY <2>1, <2>2, <2>3, <2>4 DEF Analyze
<1> QED
  BY <1>2, <1>5, <1>6

\* So every error that is placed by its path is in a file of the app.
LEMMA ErrorsPlaced ==
  ASSUME NEW d \in Documents, NEW app, DOMAIN app \subseteq Files, NEW m
  PROVE  Errors(d, app, m) \subseteq InApp(app)
  BY ScreensPlaced, OthersPlaced, FilesPlaced DEF Errors, Conform

-----------------------------------------------------------------------------
(* The loop.                                                               *)

Thms == INSTANCE RepairLoopProofs WITH
  UiFiles <- UiPaths, ProviderFiles <- ProviderPaths,
  OtherFiles <- LogicPaths \ ProviderPaths,
  FrozenFiles <- {Pubspec}, Attempts <- 1,
  Reports <- [file : Files \cup {Pubspec}, code : Codes]

\* What RepairLoop assumes of its constants holds of the files and the codes here.
LEMMA LoopAssumption ==
  /\ UiPaths \cap Thms!LogicFiles = {}
  /\ ProviderPaths \cap (LogicPaths \ ProviderPaths) = {}
  /\ {Pubspec} \cap (UiPaths \cup Thms!LogicFiles) = {}
  /\ [file : Files \cup {Pubspec}, code : Codes] \subseteq Thms!Diagnostic
  /\ MaxRepairs \in Nat
  /\ 1 \in Nat
<1>1. Codes \subseteq Thms!ForGenui \cup Thms!ForLogic \cup Thms!ForNobody \cup Thms!ByPath
  BY DEF Codes, Thms!ForGenui, Thms!ForLogic, Thms!ForNobody, Thms!ByPath
<1>2. Thms!LogicFiles = LogicPaths
  BY PathFacts DEF Thms!LogicFiles
<1>3. Thms!Paths = Files \cup {Pubspec}
  BY <1>2, PathFacts DEF Thms!Paths
<1>4. [file : Files \cup {Pubspec}, code : Codes] \subseteq Thms!Diagnostic
  BY <1>1, <1>3 DEF Thms!Diagnostic
<1> QED
  BY <1>2, <1>4, PathFacts, GenerationAssumption

\* RepairLoop is the same module, seen from here or through its proofs.
LEMMA SameInit == Loop!Init => Thms!Init
  BY DEF Loop!Init, Thms!Init

LEMMA SameNext == Loop!Next => Thms!Next
<1> USE DEF Loop!agentVars, Thms!agentVars, Loop!qaVars, Thms!qaVars,
         Loop!jobVars, Thms!jobVars, Loop!RunNode, Thms!RunNode, Loop!Nodes, Thms!Nodes,
         Loop!App, Thms!App, Loop!Batch, Thms!Batch, Loop!Owned, Thms!Owned, Loop!Owner, Thms!Owner,
         Loop!ForGenui, Loop!ForLogic, Loop!ForNobody, Loop!ByPath,
         Thms!ForGenui, Thms!ForLogic, Thms!ForNobody, Thms!ByPath,
         Loop!Paths, Thms!Paths, Loop!LogicFiles, Thms!LogicFiles, Loop!LaneErrors, Thms!LaneErrors
<1>1. Loop!Plan => Thms!Plan
  BY DEF Loop!Plan, Thms!Plan
<1>2. Loop!Genui => Thms!Genui
  BY DEF Loop!Genui, Thms!Genui, Loop!GenuiWrites, Thms!GenuiWrites
<1>3. Loop!Logic => Thms!Logic
  BY DEF Loop!Logic, Thms!Logic, Loop!LogicWrites, Thms!LogicWrites
<1>4. Loop!Qa => Thms!Qa
  BY DEF Loop!Qa, Thms!Qa, Loop!QaReports, Thms!QaReports, Loop!Found, Thms!Found,
         Loop!Grade, Thms!Grade, Loop!Materialise, Thms!Materialise
<1>5. Loop!QaUnavailable => Thms!QaUnavailable
  BY DEF Loop!QaUnavailable, Thms!QaUnavailable, Loop!Materialise, Thms!Materialise
<1>6. Loop!Route => Thms!Route
  BY DEF Loop!Route, Thms!Route, Loop!Router, Thms!Router, Loop!RouteFor, Thms!RouteFor,
         Loop!OtherAgent, Thms!OtherAgent
<1>7. Loop!Package => Thms!Package
  BY DEF Loop!Package, Thms!Package
<1>8. Loop!Finish => Thms!Finish
  BY DEF Loop!Finish, Thms!Finish
<1>9. Loop!Raise => Thms!Raise
  BY DEF Loop!Raise, Thms!Raise
<1>10. Loop!Restart => Thms!Restart
  BY DEF Loop!Restart, Thms!Restart
<1> QED
  BY <1>1, <1>2, <1>3, <1>4, <1>5, <1>6, <1>7, <1>8, <1>9, <1>10 DEF Loop!Next, Thms!Next

LEMMA SameStep == [Loop!Next]_Loop!vars => [Thms!Next]_Thms!vars
  BY SameNext DEF Loop!vars, Thms!vars, Loop!agentVars, Thms!agentVars, Loop!qaVars, Thms!qaVars,
                  Loop!jobVars, Thms!jobVars

LEMMA SameType == Loop!TypeOK <=> Thms!TypeOK
  BY DEF Loop!TypeOK, Thms!TypeOK, Loop!Nodes, Thms!Nodes, Loop!Paths, Thms!Paths,
         Loop!LogicFiles, Thms!LogicFiles, Loop!Diagnostic, Thms!Diagnostic,
         Loop!ForGenui, Loop!ForLogic, Loop!ForNobody, Loop!ByPath,
         Thms!ForGenui, Thms!ForLogic, Thms!ForNobody, Thms!ByPath

\* Its type invariant, for these constants.
LEMMA LoopType ==
  /\ Loop!Init => Loop!TypeOK
  /\ Loop!TypeOK /\ [Loop!Next]_Loop!vars => Loop!TypeOK'
<1>1. Thms!Init => Thms!TypeOK
  BY LoopAssumption, Thms!TypeInit
<1>2. Thms!TypeOK /\ [Thms!Next]_Thms!vars => Thms!TypeOK'
  BY LoopAssumption, Thms!TypeStep
<1>3. Loop!TypeOK' <=> Thms!TypeOK'
  BY SameType, PTL
<1> QED
  BY <1>1, <1>2, <1>3, SameInit, SameStep, SameType

\* And what is proved of it, for these constants.
LEMMA LoopTheorems ==
  Loop!Spec => [](/\ Loop!CleanSuccess /\ Loop!WithinBudget
                  /\ Loop!OwnersHadTurn /\ Loop!NoRoundLeaves)
<1>1. Thms!Spec => []Thms!CleanSuccess
  BY LoopAssumption, Thms!SuccessIsClean
<1>2. Thms!Spec => []Thms!WithinBudget
  BY LoopAssumption, Thms!BudgetKept
<1>3. Thms!Spec => []Thms!OwnersHadTurn
  BY LoopAssumption, Thms!OwnersFirst
<1>4. Thms!Spec => []Thms!NoRoundLeaves
  BY LoopAssumption, Thms!RoundsCleanUp
<1>5. /\ Thms!CleanSuccess => Loop!CleanSuccess
      /\ Thms!WithinBudget => Loop!WithinBudget
      /\ Thms!OwnersHadTurn => Loop!OwnersHadTurn
      /\ Thms!NoRoundLeaves => Loop!NoRoundLeaves
  BY DEF Loop!CleanSuccess, Thms!CleanSuccess, Loop!WithinBudget, Thms!WithinBudget,
         Loop!OwnersHadTurn, Thms!OwnersHadTurn, Loop!NoRoundLeaves, Thms!NoRoundLeaves,
         Loop!Analysed, Thms!Analysed, Loop!App, Thms!App
<1> QED
  BY <1>1, <1>2, <1>3, <1>4, <1>5, SameInit, SameStep, PTL DEF Loop!Spec, Thms!Spec

-----------------------------------------------------------------------------
(* The steps of a build are steps of the loop.                             *)

\* What an agent is answered with are files of lib/, or the pubspec.
LEMMA Drafted ==
  ASSUME TypeOK, NEW new \in UiDrafts \cup LogicDrafts
  PROVE  DOMAIN new \in SUBSET Loop!Paths
<1>1. Loop!Paths = Files \cup {Pubspec}
  BY PathFacts DEF Loop!Paths, Loop!LogicFiles
<1>2. CASE writer = "templates"
  <2>1. new = BuildUi(prd, fault, Loop!Batch("genui")) \/ new = WireLogic(prd)
    BY <1>2 DEF UiDrafts, LogicDrafts
  <2>2. DOMAIN new \subseteq UiPaths \cup LogicPaths
    BY <2>1, BuiltUi, WiredLogic DEF TypeOK
  <2> QED
    BY <1>1, <2>2, PathFacts
<1>3. CASE writer # "templates"
  BY <1>1, <1>3, GenerationAssumption DEF UiDrafts, LogicDrafts
<1> QED
  BY <1>2, <1>3

\* In each of its files a search finds its classes.
LEMMA UiListed ==
  ASSUME TypeOK, NEW new \in UiDrafts, NEW p \in DOMAIN new
  PROVE  Listed(new[p])
<1>1. CASE writer = "templates"
  BY <1>1, BuiltUi DEF UiDrafts, TypeOK
<1>2. CASE writer # "templates"
  <2>1. new[p] \in File
    BY <1>2, GenerationAssumption DEF UiDrafts
  <2>2. new[p].classes \in Seq(Seq(STRING))
    BY <2>1 DEF File
  <2> QED
    BY <2>2 DEF Listed
<1> QED
  BY <1>1, <1>2

\* The files of the two agents are told apart by their paths.
LEMMA Lanes ==
  ASSUME TypeOK
  PROVE  /\ ui \subseteq UiPaths /\ prov \subseteq LogicPaths
         /\ DOMAIN text = ui \cup prov /\ DOMAIN text \subseteq Files
         /\ InUi(text) = ui /\ NotUi(text) = prov
<1>1. ui \subseteq UiPaths /\ prov \subseteq LogicPaths /\ DOMAIN text = ui \cup prov
  BY PathFacts DEF TypeOK, Loop!TypeOK, Loop!LogicFiles
<1>2. InUi(text) = ui
  BY <1>1, PathFacts DEF InUi, In
<1>3. NotUi(text) = prov
  BY <1>1, <1>2, PathFacts DEF NotUi
<1> QED
  BY <1>1, <1>2, <1>3, PathFacts

\* What the checks say of these files is what the loop expects checks to say.
LEMMA ErrorsFound ==
  ASSUME TypeOK, Loop!Materialise
  PROVE  Errors(prd, text, manifest) \subseteq Loop!Found
<1>1. Errors(prd, text, manifest) \subseteq InApp(text)
  BY Lanes, ErrorsPlaced DEF TypeOK
<1>2. DOMAIN text \subseteq disk'
  BY Lanes DEF Loop!Materialise, Loop!App
<1>3. ASSUME NEW e \in InApp(text) PROVE e \in Loop!Found
  <2>1. e \in [file : Files \cup {Pubspec}, code : Codes]
    BY DEF InApp, Reported, Anywhere
  <2>2. e.code \in Loop!ByPath => e.code \in Placeable
    BY <2>1 DEF Codes, Loop!ByPath, Placeable
  <2> QED
    BY <1>2, <2>1, <2>2 DEF InApp, Loop!Found
<1> QED
  BY <1>1, <1>3

\* The loop answers for which node runs, for how long and what becomes of the
\* job; a build only says what the generator writes and the checks report.
LEMMA LoopStep ==
  ASSUME TypeOK, [Next]_vars
  PROVE  [Loop!Next]_(Loop!vars)
<1>1. CASE Plan
  BY <1>1 DEF Plan, Loop!Next
<1>2. CASE Genui
  <2>1. PICK new \in UiDrafts : Loop!GenuiWrites(DOMAIN new)
    BY <1>2 DEF Genui
  <2>2. DOMAIN new \in SUBSET Loop!Paths
    BY Drafted
  <2> QED
    BY <2>1, <2>2 DEF Loop!Genui, Loop!Next
<1>3. CASE Logic
  <2>1. PICK new \in LogicDrafts : Loop!LogicWrites(DOMAIN new)
    BY <1>3 DEF Logic
  <2>2. DOMAIN new \in SUBSET Loop!Paths
    BY Drafted
  <2> QED
    BY <2>1, <2>2 DEF Loop!Logic, Loop!Next
<1>4. CASE Qa
  <2>1. Loop!QaReports(Errors(prd, text, manifest)) /\ Loop!Materialise
    BY <1>4 DEF Qa, Loop!QaReports
  <2> QED
    BY <2>1, ErrorsFound DEF Loop!Qa, Loop!Next
<1>5. CASE Route
  BY <1>5 DEF Route, Loop!Next
<1>6. CASE Package
  BY <1>6 DEF Package, Loop!Next
<1>7. CASE Finish
  BY <1>7 DEF Finish, Loop!Next
<1>8. CASE UNCHANGED vars
  BY <1>8 DEF vars
<1> QED
  BY <1>1, <1>2, <1>3, <1>4, <1>5, <1>6, <1>7, <1>8 DEF Next

\* Planning writes a pubspec.
LEMMA ManifestTyped ==
  ASSUME NEW m \in Manifest
  PROVE  Planned(m) \in Manifest
<1>1. /\ [m EXCEPT !.prose = FALSE] \in Manifest /\ [m EXCEPT !.stray = FALSE] \in Manifest
      /\ [m EXCEPT !.lints = TRUE] \in Manifest
  BY Zenon DEF Manifest
<1>2. RepairDescription(m) \in Manifest
  BY <1>1 DEF RepairDescription, KeptIfParses
<1> QED
  BY DEF Planned, EnsureLint, RepairStrayLine, RepairDescription, KeptIfParses, Manifest

\* The invariant TypeOK.
LEMMA TypeInit == Init => TypeOK
<1> SUFFICES ASSUME Init PROVE TypeOK
  OBVIOUS
<1>1. Loop!TypeOK
  BY LoopType DEF Init
<1>2. PICK c \in Cases : prd = c.prd /\ manifest = c.manifest
  BY DEF Init
<1>3. prd \in Documents /\ Valid(prd) /\ manifest \in Manifest
  BY <1>2, GenerationAssumption
<1>4. DOMAIN text = ui \cup prov
  BY DEF Init, Loop!Init
<1> QED
  BY <1>1, <1>3, <1>4 DEF TypeOK

LEMMA TypeStep == TypeOK /\ [Next]_vars => TypeOK'
<1> SUFFICES ASSUME TypeOK, [Next]_vars PROVE TypeOK'
  OBVIOUS
<1>1. Loop!TypeOK'
  BY LoopStep, LoopType DEF TypeOK
<1>2. manifest' \in Manifest
  <2>1. CASE Plan
    BY <2>1, ManifestTyped DEF Plan, TypeOK
  <2>2. CASE ~Plan
    BY <2>2 DEF Next, Genui, Logic, Qa, Route, Package, Finish, vars, TypeOK
  <2> QED
    BY <2>1, <2>2
<1>3. prd' = prd
  BY DEF Next, Plan, Genui, Logic, Qa, Route, Package, Finish, vars, fixed
<1>4. DOMAIN text' = ui' \cup prov'
  <2>1. CASE Genui \/ Logic
    BY <2>1 DEF Genui, Logic, Merged
  <2>2. CASE ~(Genui \/ Logic)
    <3>1. UNCHANGED <<text, ui, prov>>
      BY <2>2 DEF Next, Plan, Qa, Route, Package, Finish, vars, Loop!vars, Loop!agentVars,
         Loop!Plan,
           Loop!QaReports, Loop!Route, Loop!Package, Loop!Finish
    <3> QED
      BY <3>1 DEF TypeOK
  <2> QED
    BY <2>1, <2>2
<1> QED
  BY <1>1, <1>2, <1>3, <1>4 DEF TypeOK

\* Whatever the generator writes, in however many rounds, the contents that the
\* build holds are of the two agents' files and of no other, each file is in its
\* agent's lane, and the pubspec is one that planning can leave (nodes.py, the
\* lane filters of genui_node and logic_node).
THEOREM TypeCorrect == Spec => []TypeOK
<1> QED
  BY TypeInit, TypeStep, PTL DEF Spec

\* A build with these generators and these checks is a build of RepairLoop, where
\* both are left open: every step of it is a step of the graph's.  The checks'
\* answers in particular are answers that RepairLoop allows for.
THEOREM LoopImplemented == Spec => Loop!Spec
<1>1. Init => Loop!Init
  BY DEF Init
<1>2. TypeOK /\ [Next]_vars => [Loop!Next]_(Loop!vars)
  BY LoopStep
<1> QED
  BY <1>1, <1>2, TypeCorrect, PTL DEF Spec, Loop!Spec

\* So what is proved of the graph holds of a build: it is not called a success over
\* errors, runs no more nodes than its budget, takes errors from their owner only
\* after the owner had its turn, and no round leaves a file of an earlier one.
THEOREM BuildsTerminateClean ==
  Spec => [](/\ Loop!CleanSuccess /\ Loop!WithinBudget
             /\ Loop!OwnersHadTurn /\ Loop!NoRoundLeaves)
  BY LoopImplemented, LoopTheorems, PTL

\* Whatever the files hold, an error whose owner follows from its path is in a file
\* that the checks were given (analyzer.py and conformance.py, where a diagnostic
\* gets its path), so the router never looks for an owner of a file nobody wrote.
THEOREM ErrorsArePlaced == Spec => Placed
<1>1. TypeOK /\ [Next]_vars => [pc = "qa" => Errors(prd, text, manifest) \subseteq Loop!Found]_vars
  <2> SUFFICES ASSUME TypeOK, Next, pc = "qa"
               PROVE  Errors(prd, text, manifest) \subseteq Loop!Found
    OBVIOUS
  <2>1. Qa
    BY DEF Next, Plan, Genui, Logic, Route, Package, Finish, Loop!Plan, Loop!RunNode,
           Loop!Route, Loop!Package, Loop!Finish
  <2>2. Loop!Materialise
    BY <2>1 DEF Qa, Loop!QaReports
  <2> QED
    BY <2>2, ErrorsFound
<1> QED
  BY <1>1, TypeCorrect, PTL DEF Spec, Placed

-----------------------------------------------------------------------------
(* What is known of a build when it ends.                                  *)

\* In every file of lib/ui/, whoever wrote it and in whichever round, a search
\* finds the classes that are there; and once qa has run, what the checks find
\* in the files is in the diagnostics, until a repair changes them.
BuildInv ==
  /\ TypeOK
  /\ \A p \in ui : Listed(text[p])
  /\ pc \in {"route", "package", "finish", "end"} => Errors(prd, text, manifest) \subseteq diags
  /\ status = "succeeded" => pc = "end" /\ diags = {}

\* BuildInv holds to begin with.
LEMMA BuildInit == Init => BuildInv
  BY TypeInit DEF Init, Loop!Init, BuildInv

\* What a step leaves in lib/ui/ has its classes in order.
LEMMA TextStep ==
  ASSUME BuildInv, [Next]_vars
  PROVE  \A p \in ui' : Listed(text'[p])
<1>1. CASE Genui
  <2>1. PICK new \in UiDrafts : Loop!GenuiWrites(DOMAIN new) /\ text' = Merged(new, UiPaths)
    BY <1>1 DEF Genui
  <2>2. ui' \subseteq ui \cup (DOMAIN new \cap UiPaths)
    BY <2>1 DEF Loop!GenuiWrites
  <2>3. \A p \in DOMAIN new : Listed(new[p])
    BY <2>1, UiListed DEF BuildInv
  <2> SUFFICES ASSUME NEW p \in ui' PROVE Listed(text'[p])
    OBVIOUS
  <2>4. text'[p] = IF p \in DOMAIN new \cap UiPaths THEN new[p] ELSE text[p]
    BY <2>1 DEF Merged
  <2> QED
    BY <2>2, <2>3, <2>4 DEF BuildInv
<1>2. CASE Logic
  <2>1. PICK new \in LogicDrafts : Loop!LogicWrites(DOMAIN new) /\ text' = Merged(new, LogicPaths)
    BY <1>2 DEF Logic
  <2>2. ui' = ui /\ ui \cap LogicPaths = {}
    BY <2>1, Lanes, PathFacts DEF Loop!LogicWrites, BuildInv
  <2> SUFFICES ASSUME NEW p \in ui PROVE Listed(text'[p])
    BY <2>2
  <2>3. text'[p] = text[p]
    BY <2>1, <2>2 DEF Merged
  <2> QED
    BY <2>3 DEF BuildInv
<1>3. CASE ~(Genui \/ Logic)
  <2>1. UNCHANGED <<text, ui>>
    BY <1>3 DEF Next, Plan, Qa, Route, Package, Finish, vars, Loop!vars, Loop!agentVars, Loop!Plan,
         Loop!QaReports, Loop!Route, Loop!Package, Loop!Finish
  <2> QED
    BY <2>1 DEF BuildInv
<1> QED
  BY <1>1, <1>2, <1>3

\* Diagnostics and files change together.
LEMMA CheckedStep ==
  ASSUME BuildInv, [Next]_vars
  PROVE  /\ pc' \in {"route", "package", "finish", "end"} =>
              Errors(prd, text, manifest)' \subseteq diags'
         /\ status' = "succeeded" => pc' = "end" /\ diags' = {}
<1>1. CASE Plan \/ Genui \/ Logic
  <2>1. pc \in {"plan", "genui", "logic"} /\ pc' \in {"genui", "logic", "qa"} /\ status' = status
    BY <1>1 DEF Plan, Genui, Logic, Loop!Plan, Loop!GenuiWrites, Loop!LogicWrites, Loop!RunNode
  <2> QED
    BY <2>1 DEF BuildInv
<1>2. CASE Qa
  <2>1. /\ Errors(prd, text, manifest) \subseteq diags'
        /\ pc = "qa" /\ status' = status
        /\ UNCHANGED <<prd, text, manifest>>
    BY <1>2 DEF Qa, fixed, Loop!QaReports, Loop!Grade, Loop!RunNode
  <2>2. Errors(prd, text, manifest)' = Errors(prd, text, manifest)
    BY <2>1
  <2> QED
    BY <2>1, <2>2 DEF BuildInv
<1>3. CASE Route \/ Package \/ Finish \/ UNCHANGED vars
  <2>1. /\ UNCHANGED <<prd, text, manifest, diags>>
        /\ \/ pc \in {"route", "package"} /\ status' = status
           \/ pc = "finish" /\ pc' = "end" /\ (status' = "succeeded" => diags = {})
           \/ pc' = pc /\ status' = status
    BY <1>3 DEF Route, Package, Finish, vars, fixed, Loop!vars, Loop!qaVars, Loop!RunNode,
                Loop!Route, Loop!Package, Loop!Finish
  <2>2. Errors(prd, text, manifest)' = Errors(prd, text, manifest)
    BY <2>1
  <2>3. pc' \in {"route", "package", "finish", "end"} => pc \in {"route", "package", "finish", "end"}
    BY <2>1
  <2> QED
    BY <2>1, <2>2, <2>3 DEF BuildInv
<1> QED
  BY <1>1, <1>2, <1>3 DEF Next

LEMMA BuildStep == BuildInv /\ [Next]_vars => BuildInv'
<1> SUFFICES ASSUME BuildInv, [Next]_vars PROVE BuildInv'
  OBVIOUS
<1>1. TypeOK'
  BY TypeStep DEF BuildInv
<1> QED
  BY <1>1, TextStep, CheckedStep DEF BuildInv

LEMMA Built == Spec => []BuildInv
<1> QED
  BY BuildInit, BuildStep, PTL DEF Spec

\* A success over these files is one over which no check has anything to say.
LEMMA NoErrors ==
  ASSUME BuildInv, pc = "end", status = "succeeded"
  PROVE  Errors(prd, text, manifest) = {} /\ Parses(manifest)
<1>1. Errors(prd, text, manifest) = {}
  BY DEF BuildInv
<1>2. CheckManifest(manifest) = {}
  BY <1>1 DEF Errors, Conform
<1> QED
  BY <1>1, <1>2 DEF CheckManifest

\* The class that a search finds first is one that it finds.
LEMMA ClassFound ==
  ASSUME NEW file, Listed(file), NEW id, Named(file, id) # {}
  PROVE  FirstClass(file, id) \in Named(file, id)
<1> DEFINE q == file.classes
           I == {i \in 1 .. Len(q) : Inside(Snake[id], q[i])}
<1>1. Len(q) \in Nat /\ DOMAIN q = 1 .. Len(q)
  BY DEF Listed
<1>2. I # {}
  BY <1>1 DEF Named, ToSet
<1>3. Min(I) \in I
  BY <1>1, <1>2, FirstIndex
<1>4. FirstClass(file, id) = q[Min(I)]
  BY <1>2 DEF FirstClass, SelectInSeq
<1> QED
  BY <1>1, <1>3, <1>4 DEF Named, ToSet

\* A screen that the checks find is in one file and shown by another.
LEMMA ScreenFound ==
  ASSUME BuildInv, NEW id, ScreenErrors(text, id) = {}
  PROVE  ShownElsewhere(id)
<1> DEFINE hits == {p \in ui : Named(text[p], id) # {}}
           first == FirstOf(hits)
           c == FirstClass(text[first], id)
<1>0. InUi(text) = ui /\ ui \subseteq Files
  BY Lanes, PathFacts DEF BuildInv
<1>1. hits # {} /\ \E q \in ui \ {first} : <<"class", c>> \in Occurring(text[q])
  <2>1. hits = {p \in InUi(text) : Named(text[p], id) # {}}
    BY <1>0
  <2>2. hits # {}
    BY <2>1 DEF ScreenErrors
  <2>3. {Error(AppFile, "unreachable_screen") :
           x \in {<<"class", c>>} \ UNION {Occurring(text[p]) : p \in InUi(text) \ {first}}} = {}
    BY <2>1, <2>2 DEF ScreenErrors
  <2>4. <<"class", c>> \in UNION {Occurring(text[p]) : p \in InUi(text) \ {first}}
    BY <2>3
  <2> QED
    BY <1>0, <2>2, <2>4
<1>2. first \in hits
  BY <1>0, <1>1, FirstFound
<1> HIDE DEF first
<1>3. first \in ui /\ Named(text[first], id) # {}
  BY <1>2
<1>4. c \in Named(text[first], id)
  BY <1>3, ClassFound DEF BuildInv
<1>5. c \in ToSet(text[first].classes) /\ Inside(Snake[id], c)
  BY <1>4 DEF Named
<1> HIDE DEF c
<1> QED
  BY <1>1, <1>3, <1>5 DEF ShownElsewhere

\* So is a model's provider, with its collection in some logic file.
LEMMA ModelStored ==
  ASSUME BuildInv, NEW m, ModelErrors(text, m) = {}
  PROVE  Stored(m)
<1>0. NotUi(text) = prov
  BY Lanes DEF BuildInv
<1>1. \E p \in prov : \E v \in Occurring(text[p]) : Serves(v, m.name)
  BY <1>0 DEF ModelErrors
<1>2. m.collection \in UNION {text[p].literals : p \in prov}
  BY <1>0, <1>1 DEF ModelErrors
<1> QED
  BY <1>1, <1>2 DEF Stored

\* And a way to a target in a file of lib/ui/ that is no routes table.
LEMMA WayFound ==
  ASSUME BuildInv, CheckNavigation(prd, text) = {}, NEW n \in Targets
  PROVE  \E p \in ui : /\ ~text[p].table /\ ScreenClass(n)[2] \notin ToSet(text[p].classes)
                       /\ Snake[n] \in text[p].ways
<1>1. Reachable(text, n)
  BY DEF CheckNavigation, Targets, Screens
<1>2. InUi(text) = ui
  BY Lanes DEF BuildInv
<1> QED
  BY <1>1, <1>2 DEF Reachable, Tables

\* A success has no errors, and without errors Delivered holds check by check.
LEMMA DeliveredStep == BuildInv => Delivered
<1> SUFFICES ASSUME BuildInv, pc = "end", status = "succeeded"
             PROVE  /\ \A s \in Screens : ShownElsewhere(s.id)
                    /\ \E p \in ui : prd.theme \in text[p].shows
                    /\ \A m \in Models : Stored(m)
                    /\ \A s \in {s \in Screens : Shape(s) = "form"} :
                         \A f \in ToSet(FieldsOf(prd, s)) :
                           \E p \in ui : f.name \in text[p].captures
                    /\ \A n \in Targets : \E p \in ui :
                         /\ ~text[p].table /\ ScreenClass(n)[2] \notin ToSet(text[p].classes)
                         /\ Snake[n] \in text[p].ways
                    /\ UNION {text[p].watches : p \in ui} \subseteq
                         UNION {text[p].provides : p \in prov}
                    /\ Parses(manifest) /\ manifest.lints
  BY DEF Delivered
<1>1. /\ Errors(prd, text, manifest) = {} /\ Parses(manifest)
      /\ DOMAIN text = ui \cup prov /\ InUi(text) = ui /\ NotUi(text) = prov
  BY NoErrors, Lanes DEF BuildInv
<1>2. /\ CheckTheme(prd, text) = {} /\ CheckScreens(prd, text) = {}
      /\ CheckModels(prd, text) = {} /\ CheckForms(prd, text) = {}
      /\ CheckNavigation(prd, text) = {} /\ CheckManifest(manifest) = {}
      /\ Analyze(text, manifest) = {}
  BY <1>1 DEF Errors, Conform
<1>3. \A s \in Screens : ShownElsewhere(s.id)
  BY <1>2, ScreenFound DEF CheckScreens, Screens
<1>4. \E p \in ui : prd.theme \in text[p].shows
  BY <1>1, <1>2 DEF CheckTheme
<1>5. \A m \in Models : Stored(m)
  BY <1>2, ModelStored DEF CheckModels, Models
<1>6. ASSUME NEW s \in Screens, Shape(s) = "form", NEW f \in ToSet(FieldsOf(prd, s))
      PROVE  \E p \in ui : f.name \in text[p].captures
  <2>1. FormErrors(prd, text, s) = {}
    BY <1>2, <1>6 DEF CheckForms, Screens
  <2>2. f.name \in UNION {text[p].captures : p \in ui}
    BY <1>1, <1>6, <2>1 DEF FormErrors
  <2> QED
    BY <2>2
<1>7. UNION {text[p].watches : p \in ui} \subseteq UNION {text[p].provides : p \in prov}
  <2>1. \A p \in ui : text[p].watches \subseteq Declared(text)
    BY <1>1, <1>2 DEF Analyze
  <2>2. Declared(text) \subseteq UNION {text[p].provides : p \in prov}
    BY <1>1 DEF Declared, NotUi, InUi, In
  <2> QED
    BY <2>1, <2>2
<1>8. manifest.lints
  BY <1>2 DEF CheckManifest
<1> QED
  BY <1>1, <1>2, <1>3, <1>4, <1>5, <1>6, <1>7, <1>8, WayFound

\* A build that succeeds holds what its PRD asks for, whatever a model answered
\* and in however many rounds: each screen in one file and shown by another, the
\* theme, providers and collections, form fields, ways to the targets, and no
\* provider watched that is not declared (nodes.py, conformance in qa_node).
THEOREM SuccessIsDelivered == Spec => []Delivered
<1> QED
  BY Built, DeliveredStep, PTL

\* The model of a screen is one of the PRD's.
LEMMA ModelFound ==
  ASSUME NEW d \in Documents, Valid(d), NEW s \in ToSet(d.screens), s.model # None
  PROVE  ModelOf(d, s) \in ToSet(d.models)
<1> DEFINE q == d.models
           I == {i \in 1 .. Len(q) : q[i].name = s.model}
<1>1. q \in Seq(ModelType) /\ Len(q) \in Nat /\ DOMAIN q = 1 .. Len(q)
  BY DocumentTyped
<1>2. I # {}
  BY <1>1 DEF Valid, ToSet
<1>3. Max(I) \in I
  BY <1>1, <1>2, LastIndex
<1>4. ModelOf(d, s) = q[Max(I)]
  <2>1. SelectLastInSeq(q, LAMBDA m : m.name = s.model) = Max(I)
    BY <1>2 DEF SelectLastInSeq
  <2>2. Max(I) # 0
    BY <1>1, <1>3
  <2> QED
    BY <2>1, <2>2 DEF ModelOf, LastWhere
<1> QED
  BY <1>1, <1>3, <1>4 DEF ToSet


\* A name is found in itself.
LEMMA InsideSelf ==
  ASSUME NEW n \in Texts, NEW a, NEW b
  PROVE  Inside(Snake[n], Snake[n] \o <<a>>) /\ Starts(Snake[n], Snake[n] \o <<a, b>>)
<1> DEFINE w == Snake[n]
           x == w \o <<a>>
           y == w \o <<a, b>>
<1>1. w \in Seq(STRING) /\ w # <<>>
  BY TextsAssumption
<1> HIDE DEF w
<1>2. /\ Len(w) \in Nat /\ Len(w) >= 1
      /\ Len(w) <= Len(x) /\ Len(x) \in Nat /\ \A i \in 1 .. Len(w) : x[i] = w[i]
      /\ Len(w) <= Len(y) /\ Len(y) \in Nat /\ \A i \in 1 .. Len(w) : y[i] = w[i]
  BY <1>1
<1> HIDE DEF x, y
<1>3. OccursAt(w, x, 0) /\ OccursAt(w, y, 0)
  BY <1>2 DEF OccursAt, Word
<1>4. Inside(w, x) /\ Starts(w, y)
  BY <1>2, <1>3 DEF Inside, Starts
<1> QED
  BY <1>4 DEF w, x, y

\* Of n things whose images are n, no two have one image.
LEMMA OwnImages ==
  ASSUME NEW n \in Nat, NEW f, f = [i \in 1 .. n |-> f[i]],
         Cardinality({f[i] : i \in 1 .. n}) = n, NEW i \in 1 .. n, NEW j \in 1 .. n, f[i] = f[j]
  PROVE  i = j
<1> DEFINE T == {f[k] : k \in 1 .. n}
<1>1. f \in Surjection(1 .. n, T)
  BY DEF Surjection
<1>2. IsFiniteSet(1 .. n) /\ Cardinality(1 .. n) = n
  <2>1. 1 \in Int /\ n \in Int
    OBVIOUS
  <2>2. IsFiniteSet(1 .. n) /\ Cardinality(1 .. n) = (IF 1 > n THEN 0 ELSE n - 1 + 1)
    BY <2>1, FS_Interval, Zenon
  <2>3. (IF 1 > n THEN 0 ELSE n - 1 + 1) = n
    OBVIOUS
  <2> QED
    BY <2>2, <2>3
<1>3. f \in Injection(1 .. n, T)
  BY <1>1, <1>2, FS_SurjSameCardinalityImpliesInj
<1> QED
  BY <1>3 DEF Injection, IsInjective

\* Screens and models with names of their own have files of their own.
LEMMA ScreensApart ==
  ASSUME TypeOK, OwnNames, NEW s \in Screens, NEW t \in Screens,
         Snake[s.id] = Snake[t.id]
  PROVE  s = t
<1>1. s.id \in Names /\ t.id \in Names
  BY DocumentTyped DEF TypeOK, Screens, ScreenType
<1>2. Inside(Snake[s.id], Snake[t.id] \o <<"screen">>)
  BY <1>1, InsideSelf, TextsAssumption
<1> QED
  BY <1>2 DEF OwnNames

LEMMA ModelsApart ==
  ASSUME TypeOK, OwnNames, NEW m \in Models, NEW l \in Models, Snake[m.name] = Snake[l.name]
  PROVE  m = l
<1> DEFINE q == prd.models
           n == Len(q)
           f == [k \in 1 .. n |-> ProviderFile(q[k])]
<1>1. q \in Seq(ModelType) /\ n \in Nat /\ Models = {q[k] : k \in 1 .. n}
  BY DocumentTyped DEF TypeOK, Models, ToSet
<1>2. PICK i \in 1 .. n, j \in 1 .. n : m = q[i] /\ l = q[j]
  BY <1>1
<1>3. f[i] = f[j]
  BY <1>2 DEF ProviderFile
<1>4. {f[k] : k \in 1 .. n} = {ProviderFile(x) : x \in Models}
  BY <1>1
<1>5. Cardinality({f[k] : k \in 1 .. n}) = n
  BY <1>4 DEF OwnNames
<1>6. f = [k \in 1 .. n |-> f[k]]
  OBVIOUS
<1> HIDE DEF f, n
<1>7. i = j
  BY <1>1, <1>3, <1>5, <1>6, OwnImages
<1> QED
  BY <1>2, <1>7

\* The app that the templates write, with this fault or without ("none").
UiHolds(d, files, app, f) ==
  /\ files = DOMAIN BuildUi(d, f, {})
  /\ \A p \in files : app[p] = BuildUi(d, f, {})[p]

LogicHolds(d, files, app) ==
  /\ files = DOMAIN WireLogic(d)
  /\ \A p \in files : app[p] = WireLogic(d)[p]

UiWritten(f) == UiHolds(prd, ui, text, f)
LogicWritten == LogicHolds(prd, prov, text)

Emitted(f) == TypeOK /\ OwnNames /\ UiWritten(f) /\ LogicWritten

\* On a repair the templates are sound, as they always are without a fault.
LEMMA Repaired ==
  ASSUME NEW d, NEW f, NEW batch, batch # {} \/ d.theme # "material" \/ f = "none",
         NEW p \in DOMAIN BuildUi(d, "none", {})
  PROVE  /\ BuildUi(d, f, batch)[p] = BuildUi(d, "none", {})[p]
         /\ DOMAIN BuildUi(d, f, batch) = DOMAIN BuildUi(d, "none", {})
<1>1. \A file : Broken(file, "none") = file
  BY DEF Broken
<1> QED
  BY <1>1 DEF BuildUi

\* After the templates' turn each screen is in its own file.
LEMMA EmittedScreen ==
  ASSUME NEW f, Emitted(f), NEW s \in Screens
  PROVE  /\ ScreenFile(s.id) \in ui
         /\ text[ScreenFile(s.id)] = IF prd.theme = "material" /\ s = prd.screens[1]
                                     THEN Broken(RenderScreen(prd, s), f)
                                     ELSE RenderScreen(prd, s)
         /\ Drawn(text[ScreenFile(s.id)], prd, s)
<1> DEFINE p == ScreenFile(s.id)
           t == LastWhere(prd.screens, LAMBDA x : ScreenFile(x.id) = p)
           q == prd.screens[1]
<1>1. prd \in Documents /\ Screens = ToSet(prd.screens) /\ Screens \subseteq ScreenType /\ q \in Screens
  <2>1. prd \in Documents /\ prd.screens \in Seq(ScreenType) /\ prd.screens # <<>>
    BY DocumentTyped DEF Emitted, TypeOK, Valid
  <2>2. q \in ToSet(prd.screens)
    BY <2>1 DEF ToSet
  <2> QED
    BY <2>1, <2>2, DocumentTyped DEF Screens
<1>2. p # AppFile
  BY <1>1, PathFacts DEF ScreenType
<1>3. p \in ui
  BY <1>1, BuiltUi DEF Emitted, UiWritten, UiHolds
<1>4. t \in Screens /\ ScreenFile(t.id) = p
  <2>1. p \in {ScreenFile(x.id) : x \in ToSet(prd.screens)}
    BY <1>1
  <2> HIDE DEF p
  <2> QED
    BY <1>1, <2>1, LastScreen
<1> HIDE DEF t
<1>5. t = s
  BY <1>4, ScreensApart DEF Emitted, ScreenFile
<1>6. p = ScreenFile(q.id) <=> s = q
  BY <1>1, ScreensApart DEF Emitted, ScreenFile
<1>7. text[p] = IF prd.theme = "material" /\ p = ScreenFile(q.id)
                THEN Broken(RenderScreen(prd, t), f) ELSE RenderScreen(prd, t)
  <2>1. text[p] = BuildUi(prd, f, {})[p]
    BY <1>3 DEF Emitted, UiWritten, UiHolds
  <2> QED
    BY <1>1, <1>2, <2>1 DEF BuildUi, t
<1>8. text[p] = IF prd.theme = "material" /\ s = q THEN Broken(RenderScreen(prd, s), f) ELSE RenderScreen(prd, s)
  BY <1>5, <1>6, <1>7
<1>9. Drawn(text[p], prd, s)
  <2>1. RenderScreen(prd, s) = Broken(RenderScreen(prd, s), "none")
    BY DEF Broken
  <2> QED
    BY <1>8, <2>1, RenderedScreen
<1> QED
  BY <1>3, <1>8, <1>9

\* The shell names every screen.
LEMMA EmittedShell ==
  ASSUME NEW f, Emitted(f)
  PROVE  LET file == text[AppFile] IN
         /\ AppFile \in ui
         /\ file.shows = {prd.theme} /\ file.classes = <<AppClass(prd)[2]>>
         /\ file.declares = {AppClass(prd)}
         /\ file.mentions = {AppClass(prd)} \cup {ScreenClass(s.id) : s \in Screens}
         /\ file.watches = {} /\ file.table = TRUE /\ file.bad = {}
         /\ file.braces = Says[prd.app].braces
<1> DEFINE file == RenderApp(prd)
<1>1. AppFile \in ui
  BY BuiltUi DEF Emitted, UiWritten, UiHolds, TypeOK
<1>2. text[AppFile] = BuildUi(prd, f, {})[AppFile]
  BY <1>1 DEF Emitted, UiWritten, UiHolds
<1>3. text[AppFile] = file
  BY <1>1, <1>2 DEF BuildUi
<1>4. /\ file.shows = {prd.theme} /\ file.classes = <<AppClass(prd)[2]>>
      /\ file.declares = {AppClass(prd)}
  BY DEF RenderApp, NoFile
<1>5. file.mentions = {AppClass(prd)} \cup {ScreenClass(s.id) : s \in Screens}
  BY DEF RenderApp, NoFile, Screens
<1>6. /\ file.watches = {} /\ file.table = TRUE /\ file.bad = {}
      /\ file.braces = Says[prd.app].braces
  BY DEF RenderApp, NoFile
<1> HIDE DEF file
<1> QED
  BY <1>1, <1>3, <1>4, <1>5, <1>6

\* Of the models of one file, one is rendered in it.
LEMMA LastModel ==
  ASSUME NEW d \in Documents, NEW p \in {ProviderFile(m) : m \in ToSet(d.models)}
  PROVE  /\ LastWhere(d.models, LAMBDA m : ProviderFile(m) = p) \in ToSet(d.models)
         /\ ProviderFile(LastWhere(d.models, LAMBDA m : ProviderFile(m) = p)) = p
<1> DEFINE q == d.models
           I == {i \in 1 .. Len(q) : ProviderFile(q[i]) = p}
<1>1. q \in Seq(ModelType) /\ Len(q) \in Nat /\ DOMAIN q = 1 .. Len(q)
  BY DocumentTyped
<1>2. I # {}
  BY <1>1 DEF ToSet
<1>3. Max(I) \in I
  BY <1>1, <1>2, LastIndex
<1>4. LastWhere(q, LAMBDA m : ProviderFile(m) = p) = q[Max(I)]
  <2>1. SelectLastInSeq(q, LAMBDA m : ProviderFile(m) = p) = Max(I)
    BY <1>2 DEF SelectLastInSeq
  <2>2. Max(I) # 0
    BY <1>1, <1>3
  <2> QED
    BY <2>1, <2>2 DEF LastWhere
<1> QED
  BY <1>1, <1>3, <1>4 DEF ToSet

\* What the logic file of a model holds, field by field.
LEMMA ProviderFields ==
  ASSUME NEW m
  PROVE  LET file == RenderProviders(m)
             providers == {CollectionProvider(m), ListProvider(m), ControllerProvider(m)} IN
         /\ file.declares = providers \cup {ModelClass(m), ControllerClass(m)}
         /\ file.provides = providers
         /\ file.mentions = {ModelClass(m), ControllerClass(m), CollectionProvider(m)}
         /\ file.bad = {} /\ file.braces = Says[m.collection].braces
  BY DEF RenderProviders, NoFile

\* Each model has its providers in its own file.
LEMMA EmittedProvider ==
  ASSUME NEW f, Emitted(f), NEW m \in Models
  PROVE  /\ ProviderFile(m) \in prov
         /\ text[ProviderFile(m)] = RenderProviders(m)
<1> DEFINE p == ProviderFile(m)
           l == LastWhere(prd.models, LAMBDA x : ProviderFile(x) = p)
<1>1. prd \in Documents /\ Models = ToSet(prd.models)
  BY DEF Emitted, TypeOK, Models
<1>2. p \in prov
  BY <1>1, WiredLogic DEF Emitted, LogicWritten, LogicHolds
<1>3. p # MainFile
  BY DEF ProviderFile, MainFile
<1>4. l \in Models /\ ProviderFile(l) = p
  <2>1. p \in {ProviderFile(x) : x \in ToSet(prd.models)}
    BY <1>1
  <2> HIDE DEF p
  <2> QED
    BY <1>1, <2>1, LastModel
<1> HIDE DEF l
<1>5. l = m
  BY <1>4, ModelsApart DEF Emitted, ProviderFile
<1>6. text[p] = RenderProviders(l)
  <2>1. text[p] = WireLogic(prd)[p]
    BY <1>2 DEF Emitted, LogicWritten, LogicHolds
  <2> QED
    BY <1>1, <1>3, <2>1 DEF WireLogic, l
<1> QED
  BY <1>2, <1>5, <1>6

\* main.dart runs the app.
LEMMA EmittedMain ==
  ASSUME NEW f, Emitted(f)
  PROVE  MainFile \in prov /\ text[MainFile] = [NoFile EXCEPT !.mentions = {AppClass(prd)}]
<1>1. MainFile \in prov
  BY DEF Emitted, LogicWritten, LogicHolds, WireLogic
<1>2. text[MainFile] = WireLogic(prd)[MainFile]
  BY <1>1 DEF Emitted, LogicWritten, LogicHolds
<1> QED
  BY <1>1, <1>2 DEF WireLogic

\* There are no other files.
LEMMA EmittedFiles ==
  ASSUME NEW f, Emitted(f)
  PROVE  /\ DOMAIN text = ui \cup prov /\ InUi(text) = ui /\ NotUi(text) = prov
         /\ \A p \in ui : p = AppFile \/ \E s \in Screens : p = ScreenFile(s.id)
         /\ \A p \in prov : p = MainFile \/ \E m \in Models : p = ProviderFile(m)
<1>1. DOMAIN text = ui \cup prov /\ InUi(text) = ui /\ NotUi(text) = prov
  BY Lanes DEF Emitted
<1>2. \A p \in ui : p = AppFile \/ \E s \in Screens : p = ScreenFile(s.id)
  BY BuiltUi DEF Emitted, UiWritten, UiHolds, TypeOK, Screens
<1>3. \A p \in prov : p = MainFile \/ \E m \in Models : p = ProviderFile(m)
  BY WiredLogic DEF Emitted, LogicWritten, LogicHolds, Models, TypeOK
<1> QED
  BY <1>1, <1>2, <1>3

\* Two names with a suffix of two words.
LEMMA Suffixed ==
  ASSUME NEW x \in Seq(STRING), NEW y \in Seq(STRING), NEW a, NEW b, NEW c, NEW e,
         x \o <<a, b>> = y \o <<c, e>>
  PROVE  x = y /\ a = c
<1>1. Len(x) = Len(y)
  <2>1. Len(x \o <<a, b>>) = Len(x) + 2 /\ Len(y \o <<c, e>>) = Len(y) + 2
    OBVIOUS
  <2> QED
    BY <2>1
<1>2. \A i \in 1 .. Len(x) : x[i] = y[i]
  <2> SUFFICES ASSUME NEW i \in 1 .. Len(x) PROVE x[i] = y[i]
    OBVIOUS
  <2>1. (x \o <<a, b>>)[i] = x[i] /\ (y \o <<c, e>>)[i] = y[i]
    BY <1>1
  <2> QED
    BY <2>1
<1>3. (x \o <<a, b>>)[Len(x) + 1] = a /\ (y \o <<c, e>>)[Len(y) + 1] = c
  OBVIOUS
<1> QED
  BY <1>1, <1>2, <1>3

\* The providers of a model are told apart, and from those of other models.
LEMMA ProvidersApart ==
  ASSUME NEW m \in ModelType, NEW l \in ModelType
  PROVE  /\ ListProvider(m) = ListProvider(l) => Snake[m.name] = Snake[l.name]
         /\ ListProvider(m) \notin {ControllerProvider(l), CollectionProvider(l), Unsynced}
         /\ Unsynced \notin {ControllerProvider(m), CollectionProvider(m)}
<1> DEFINE x == Snake[m.name]
           y == Snake[l.name]
<1>1. x \in Seq(STRING) /\ y \in Seq(STRING)
  BY TextsAssumption DEF ModelType
<1>2. /\ ListProvider(m) = <<"var", x \o <<"list", "provider">>>>
      /\ ControllerProvider(m) = <<"var", x \o <<"controller", "provider">>>>
      /\ CollectionProvider(m) = <<"var", x \o <<"collection", "provider">>>>
      /\ ListProvider(l) = <<"var", y \o <<"list", "provider">>>>
      /\ ControllerProvider(l) = <<"var", y \o <<"controller", "provider">>>>
      /\ CollectionProvider(l) = <<"var", y \o <<"collection", "provider">>>>
  BY DEF ListProvider, ControllerProvider, CollectionProvider, Var
<1>3. \A a, b : <<"var", a>> = <<"var", b>> => a = b
  OBVIOUS
<1> HIDE DEF x, y
<1>4. x \o <<"list", "provider">> = y \o <<"list", "provider">> => x = y
  BY <1>1, Suffixed
<1>5. /\ x \o <<"list", "provider">> # y \o <<"controller", "provider">>
      /\ x \o <<"list", "provider">> # y \o <<"collection", "provider">>
  <2>1. x \o <<"list", "provider">> # y \o <<"controller", "provider">>
    <3>1. "list" # "controller"
      OBVIOUS
    <3> QED
      BY <1>1, <3>1, Suffixed
  <2>2. x \o <<"list", "provider">> # y \o <<"collection", "provider">>
    <3>1. "list" # "collection"
      OBVIOUS
    <3> QED
      BY <1>1, <3>1, Suffixed
  <2> QED
    BY <2>1, <2>2
<1> DEFINE z == <<"unsynced", "draft", "provider">>
<1>6. \A a : a # "draft" => x \o <<a, "provider">> # z
  <2> SUFFICES ASSUME NEW a, x \o <<a, "provider">> = z PROVE a = "draft"
    OBVIOUS
  <2>1. Len(z) = 3 /\ z[2] = "draft"
    OBVIOUS
  <2> HIDE DEF z
  <2>2. Len(x) \in Nat /\ Len(z) = Len(x) + 2 /\ z[Len(x) + 1] = a
    BY <1>1
  <2>3. Len(x) + 1 = 2
    BY <2>1, <2>2
  <2> QED
    BY <2>1, <2>2, <2>3
<1>7. "list" # "draft" /\ "controller" # "draft" /\ "collection" # "draft"
  OBVIOUS
<1>8. Unsynced = <<"var", <<"unsynced", "draft", "provider">>>>
  BY DEF Unsynced
<1>9. ListProvider(m) = ListProvider(l) => x = y
  BY <1>2, <1>3, <1>4
<1>10. ListProvider(m) # ControllerProvider(l) /\ ListProvider(m) # CollectionProvider(l)
  BY <1>2, <1>3, <1>5
<1>11. ListProvider(m) # Unsynced /\ ControllerProvider(m) # Unsynced
       /\ CollectionProvider(m) # Unsynced
  BY <1>2, <1>3, <1>6, <1>7, <1>8
<1> QED
  BY <1>9, <1>10, <1>11 DEF x, y

\* With names of their own, no two files declare the same.
LEMMA DeclaredOnce ==
  ASSUME NEW f, Emitted(f), NEW p \in DOMAIN text, NEW q \in DOMAIN text, p # q
  PROVE  text[p].declares \cap text[q].declares = {}
<1> DEFINE good == BuildUi(prd, "none", {})
           implied == [r \in DOMAIN good \cup DOMAIN WireLogic(prd) |->
                         IF r \in UiPaths THEN good[r] ELSE WireLogic(prd)[r]]
<1>0. \A d, s, g : Broken(RenderScreen(d, s), g).declares = RenderScreen(d, s).declares
  BY BrokenFields
<1>1. \A r \in DOMAIN good : BuildUi(prd, f, {})[r].declares = good[r].declares
  BY <1>0 DEF BuildUi
<1>2. DOMAIN good = ui /\ ui \subseteq UiPaths /\ prov \subseteq LogicPaths /\ DOMAIN text = ui \cup prov
      /\ DOMAIN WireLogic(prd) = prov
  BY BuiltUi, Lanes DEF Emitted, UiWritten, UiHolds, LogicWritten, LogicHolds, TypeOK
<1>3. \A r \in DOMAIN text : text[r].declares = implied[r].declares
  <2> SUFFICES ASSUME NEW r \in DOMAIN text PROVE text[r].declares = implied[r].declares
    OBVIOUS
  <2>1. CASE r \in ui
    <3>1. text[r].declares = good[r].declares
      BY <1>1, <1>2, <2>1 DEF Emitted, UiWritten, UiHolds
    <3>2. implied[r] = good[r]
      BY <1>2, <2>1
    <3> QED
      BY <3>1, <3>2
  <2>2. CASE r \in prov
    <3>1. text[r] = WireLogic(prd)[r]
      BY <2>2 DEF Emitted, LogicWritten, LogicHolds
    <3>2. implied[r] = WireLogic(prd)[r]
      BY <1>2, <2>2, PathFacts
    <3> QED
      BY <3>1, <3>2
  <2> QED
    BY <1>2, <2>1, <2>2
<1>4. implied[p].declares \cap implied[q].declares = {}
  <2>1. \A a, b \in DOMAIN implied : a # b => implied[a].declares \cap implied[b].declares = {}
    BY DEF Emitted, OwnNames
  <2>2. p \in DOMAIN implied /\ q \in DOMAIN implied
    BY <1>2
  <2> HIDE DEF implied
  <2> QED
    BY <2>1, <2>2
<1> HIDE DEF implied
<1> QED
  BY <1>3, <1>4


\* A screen's file has no class but its own, and shows no other.
LEMMA ClassMentioned ==
  ASSUME NEW file, NEW d, NEW t, Drawn(file, d, t), NEW c, <<"class", c>> \in Occurring(file)
  PROVE  <<"class", c>> = ScreenClass(t.id)
<1>1. Unsynced[1] # "class"
  BY DEF Unsynced
<1>2. \A x \in Watches(d, t) : x[1] # "class"
  BY DEF Watches, ListProvider, ControllerProvider, Var
<1> QED
  BY <1>1, <1>2 DEF Drawn, Occurring

\* A screen is found and shown if the App class, should it have the screen's name
\* in its own, comes after the screen's class; and only then.
LEMMA ScreenChecked ==
  ASSUME NEW f, Emitted(f), NEW s \in Screens
  PROVE  ScreenErrors(text, s.id) = {} <=>
           (Inside(Snake[s.id], AppClass(prd)[2]) => Rank[ScreenFile(s.id)] < Rank[AppFile])
<1> DEFINE p == ScreenFile(s.id)
           hits == {q \in InUi(text) : Named(text[q], s.id) # {}}
           first == FirstOf(hits)
           c == FirstClass(text[first], s.id)
           others == UNION {Occurring(text[q]) : q \in InUi(text) \ {first}}
<1>0. /\ InUi(text) = ui /\ ui \subseteq Files /\ Screens \subseteq ScreenType /\ prd.app \in Texts
      /\ p \in ui /\ AppFile \in ui /\ p # AppFile
      /\ Rank[p] \in Nat /\ Rank[AppFile] \in Nat /\ Rank[p] # Rank[AppFile]
  <2>1. /\ InUi(text) = ui /\ ui \subseteq Files /\ Screens \subseteq ScreenType /\ prd.app \in Texts
    BY Lanes, PathFacts, DocumentTyped DEF Emitted, TypeOK, Screens
  <2>2. p \in ui /\ AppFile \in ui /\ p # AppFile
    BY <2>1, EmittedScreen, EmittedShell, PathFacts DEF ScreenType
  <2> QED
    BY <2>1, <2>2, FilesAssumption
<1>1. \A q \in ui : /\ Listed(text[q])
                    /\ q # AppFile => \E t \in Screens : q = ScreenFile(t.id) /\ Drawn(text[q], prd, t)
  <2>1. \A t \in Screens : Drawn(text[ScreenFile(t.id)], prd, t)
    BY EmittedScreen
  <2>2. \A q \in ui : q = AppFile \/ \E t \in Screens : q = ScreenFile(t.id)
    BY EmittedFiles
  <2>3. Listed(text[AppFile])
    BY EmittedShell DEF Listed
  <2>4. \A q \in ui : Listed(text[q])
    <3>1. \A t \in Screens : Listed(text[ScreenFile(t.id)])
      BY <2>1 DEF Drawn, Listed
    <3> QED
      BY <2>2, <2>3, <3>1
  <2> QED
    BY <2>1, <2>2, <2>4
<1>2. Named(text[p], s.id) = {ScreenClass(s.id)[2]}
  <2>1. text[p].classes = <<ScreenClass(s.id)[2]>>
    BY EmittedScreen DEF Drawn
  <2>2. Inside(Snake[s.id], Snake[s.id] \o <<"screen">>)
    BY <1>0, InsideSelf, TextsAssumption DEF ScreenType
  <2>3. ToSet(text[p].classes) = {ScreenClass(s.id)[2]}
    BY <2>1 DEF ToSet
  <2>4. ScreenClass(s.id)[2] = Snake[s.id] \o <<"screen">>
    BY DEF ScreenClass, Class
  <2> QED
    BY <2>2, <2>3, <2>4 DEF Named
<1>3. Named(text[AppFile], s.id) =
        IF Inside(Snake[s.id], AppClass(prd)[2]) THEN {AppClass(prd)[2]} ELSE {}
  <2>1. text[AppFile].classes = <<AppClass(prd)[2]>>
    BY EmittedShell
  <2>2. ToSet(text[AppFile].classes) = {AppClass(prd)[2]}
    BY <2>1 DEF ToSet
  <2> QED
    BY <2>2 DEF Named
<1>4. ASSUME NEW q \in hits, q # AppFile PROVE q = p
  <2>1. PICK t \in Screens : q = ScreenFile(t.id) /\ Drawn(text[q], prd, t)
    BY <1>0, <1>1, <1>4
  <2>2. ToSet(text[q].classes) = {ScreenClass(t.id)[2]}
    BY <2>1 DEF Drawn, ToSet
  <2>3. Inside(Snake[s.id], ScreenClass(t.id)[2])
    BY <1>4, <2>2 DEF Named
  <2>4. Inside(Snake[s.id], Snake[t.id] \o <<"screen">>)
    BY <2>3 DEF ScreenClass, Class
  <2>5. s = t
    BY <2>4 DEF Emitted, OwnNames
  <2> QED
    BY <2>1, <2>5
<1>5. p \in hits /\ hits \subseteq {p, AppFile} /\ hits \subseteq Files
  BY <1>0, <1>2, <1>4
<1>6. AppFile \in hits <=> Inside(Snake[s.id], AppClass(prd)[2])
  BY <1>0, <1>3
<1>7. first \in hits /\ \A q \in hits : Rank[first] <= Rank[q]
  BY <1>5, FirstFound
<1>8. c \in Named(text[first], s.id)
  BY <1>0, <1>1, <1>7, ClassFound
<1>9. ScreenErrors(text, s.id) = {Error(AppFile, "unreachable_screen") : x \in {<<"class", c>>} \ others}
  BY <1>5 DEF ScreenErrors
<1>10. ScreenErrors(text, s.id) = {} <=> <<"class", c>> \in others
  <2> HIDE DEF c, others
  <2> QED
    BY <1>9
<1> HIDE DEF hits, first
<1>11. CASE first = p
  <2>1. c = ScreenClass(s.id)[2]
    BY <1>2, <1>8, <1>11
  <2>2. <<"class", c>> \in Occurring(text[AppFile])
    <3>1. ScreenClass(s.id) \in text[AppFile].mentions
      BY EmittedShell
    <3>2. <<"class", c>> = ScreenClass(s.id)
      BY <2>1 DEF ScreenClass, Class
    <3> QED
      BY <3>1, <3>2 DEF Occurring
  <2>3. <<"class", c>> \in others
    BY <1>0, <1>11, <2>2
  <2>4. AppFile \in hits => Rank[p] < Rank[AppFile]
    BY <1>0, <1>7, <1>11
  <2> QED
    BY <1>6, <1>10, <2>3, <2>4
<1>12. CASE first = AppFile
  <2>1. c = AppClass(prd)[2] /\ AppFile \in hits
    BY <1>3, <1>7, <1>8, <1>12
  <2>2. ASSUME NEW q \in ui \ {AppFile}, <<"class", c>> \in Occurring(text[q]) PROVE FALSE
    <3>1. PICK t \in Screens : Drawn(text[q], prd, t)
      BY <1>1
    <3>2. <<"class", c>> = ScreenClass(t.id)
      BY <2>2, <3>1, ClassMentioned
    <3>3. <<"class", c>> = Class(prd.app, <<"app">>)
      BY <2>1 DEF AppClass, Class
    <3> QED
      BY <1>0, <3>2, <3>3, ClassFacts DEF ScreenType
  <2>3. <<"class", c>> \notin others
    BY <1>0, <1>12, <2>2
  <2>4. ~(Rank[p] < Rank[AppFile])
    BY <1>0, <1>5, <1>7, <1>12
  <2> QED
    BY <1>6, <1>10, <2>1, <2>3, <2>4
<1> QED
  BY <1>5, <1>7, <1>11, <1>12

\* A model's collection is found if the quotes of some model hold it, and only then.
LEMMA ModelChecked ==
  ASSUME NEW f, Emitted(f), NEW m \in Models
  PROVE  ModelErrors(text, m) = {} <=>
           \E x \in Models : m.collection \in RenderProviders(x).literals
<1> DEFINE p == ProviderFile(m)
           v == CollectionProvider(m)
           found == UNION {text[q].literals : q \in NotUi(text)}
<1>0. NotUi(text) = prov /\ m.name \in Texts /\ Snake[m.name] \in Seq(STRING)
  BY EmittedFiles, DocumentTyped, TextsAssumption DEF Emitted, TypeOK, Models, ModelType
<1>1. p \in prov /\ v \in Occurring(text[p])
  BY EmittedProvider, ProviderFields DEF Occurring
<1>2. Serves(v, m.name)
  <2> DEFINE w == Snake[m.name]
             y == w \o <<"collection", "provider">>
  <2>1. v[1] = "var" /\ v[2] = y
    BY DEF CollectionProvider, Var
  <2>2. Starts(w, y)
    BY <1>0, InsideSelf
  <2>3. Len(y) = Len(w) + 2 /\ y[Len(w) + 2] = "provider" /\ Len(w) \in Nat
    BY <1>0
  <2>4. Last(y) = "provider" /\ Len(w) < Len(y)
    BY <2>3 DEF Last
  <2> HIDE DEF v, y, w
  <2> QED
    BY <2>1, <2>2, <2>4 DEF Serves, w
<1>3. ModelErrors(text, m) = {Error(MainFile, "wrong_collection") : c \in {m.collection} \ found}
  BY <1>0, <1>1, <1>2 DEF ModelErrors
<1>4. ModelErrors(text, m) = {} <=> m.collection \in found
  <2> HIDE DEF found
  <2> QED
    BY <1>3
<1>5. found = UNION {RenderProviders(x).literals : x \in Models}
  <2>1. text[MainFile].literals = {}
    BY EmittedMain DEF NoFile
  <2>2. \A x \in Models : ProviderFile(x) \in prov /\ text[ProviderFile(x)] = RenderProviders(x)
    BY EmittedProvider
  <2>3. \A q \in prov : q = MainFile \/ \E x \in Models : q = ProviderFile(x)
    BY EmittedFiles
  <2> QED
    BY <1>0, <2>1, <2>2, <2>3
<1> QED
  BY <1>4, <1>5

\* A form has an input for each of its fields.
LEMMA FormsPass ==
  ASSUME NEW f, Emitted(f), NEW s \in Screens, Shape(s) = "form"
  PROVE  FormErrors(prd, text, s) = {}
<1> DEFINE p == ScreenFile(s.id)
           needed == {x.name : x \in ToSet(FieldsOf(prd, s))}
<1>1. p \in InUi(text) /\ Entries(prd, s) \subseteq text[p].captures
  BY EmittedFiles, EmittedScreen DEF Drawn, Entries
<1>2. Entries(prd, s) = needed
  BY DEF Entries, Inputs
<1> HIDE DEF p
<1>3. needed \ UNION {text[q].captures : q \in InUi(text)} = {}
  <2> HIDE DEF needed
  <2> QED
    BY <1>1, <1>2
<1> QED
  BY <1>3 DEF FormErrors

\* A target of the PRD is the id of a screen.
LEMMA TargetScreen ==
  ASSUME TypeOK, NEW n \in Targets
  PROVE  Screens \subseteq ScreenType /\ \E t \in Screens : t.id = n
<1>1. prd \in Documents /\ Valid(prd) /\ Screens = ToSet(prd.screens) /\ Screens \subseteq ScreenType
  BY DocumentTyped DEF TypeOK, Screens
<1>2. \A s \in Screens : \A a \in Navigates(s) : \E t \in Screens : t.id = a.target
  BY <1>1 DEF Valid
<1> QED
  BY <1>1, <1>2 DEF Targets

\* A way to a target is found in the files of the screens that are no routes
\* tables, but for the target's own;
LEMMA WayChecked ==
  ASSUME NEW f, Emitted(f), NEW n \in Targets, NEW s \in Screens
  PROVE  LET file == text[ScreenFile(s.id)] IN
         /\ ScreenFile(s.id) \in InUi(text) /\ file.table = RenderScreen(prd, s).table
         /\ ScreenClass(n)[2] \notin ToSet(file.classes) <=> s.id # n
         /\ Ways(prd, s) \subseteq file.ways
<1> DEFINE p == ScreenFile(s.id)
<1>1. p \in InUi(text) /\ Drawn(text[p], prd, s)
  BY EmittedFiles, EmittedScreen
<1>2. ToSet(text[p].classes) = {ScreenClass(s.id)[2]}
  BY <1>1 DEF Drawn, ToSet
<1>3. PICK t \in Screens : t.id = n
  BY TargetScreen DEF Emitted
<1>4. s.id \in Names /\ n \in Names /\ Names \subseteq Texts
  BY <1>3, TargetScreen, TextsAssumption DEF Emitted, ScreenType
<1>5. ScreenClass(n)[2] = ScreenClass(s.id)[2] => n = s.id
  <2> SUFFICES ASSUME ScreenClass(n)[2] = ScreenClass(s.id)[2] PROVE n = s.id
    OBVIOUS
  <2>1. ScreenClass(n) = ScreenClass(s.id)
    BY DEF ScreenClass, Class
  <2>2. Snake[n] = Snake[s.id]
    BY <1>4, <2>1, ClassFacts
  <2> QED
    BY <1>3, <2>2, ScreensApart DEF Emitted
<1> QED
  BY <1>1, <1>2, <1>5 DEF Drawn

\* so each target of a Buildable PRD can be reached,
LEMMA WaysPass ==
  ASSUME NEW f, Emitted(f), Buildable
  PROVE  CheckNavigation(prd, text) = {}
<1> SUFFICES ASSUME NEW n \in Targets PROVE Reachable(text, n)
  BY DEF CheckNavigation, Targets, Screens
<1>1. PICK s \in Screens : s.id # n /\ GoesTo(s, n) /\ ~RenderScreen(prd, s).table
  BY DEF Buildable
<1>2. Snake[n] \in Ways(prd, s)
  <2>1. n \in {a.target : a \in Pushed(s)} /\ Snake[n] \in Says[n].ways
    BY <1>1 DEF GoesTo
  <2>2. n \in Shown(prd, s)
    BY <2>1 DEF Shown
  <2> QED
    BY <2>1, <2>2 DEF Ways
<1> QED
  BY <1>1, <1>2, WayChecked DEF Reachable, Tables

\* and one that is reached, without a fault, is gone to by a screen.
LEMMA WaysNeeded ==
  ASSUME Emitted("none"), NoAccidents, CheckNavigation(prd, text) = {}, NEW n \in Targets
  PROVE  \E s \in Screens : s.id # n /\ GoesTo(s, n) /\ ~RenderScreen(prd, s).table
<1>1. Reachable(text, n)
  BY DEF CheckNavigation, Targets, Screens
<1>2. PICK p \in InUi(text) : /\ ~text[p].table /\ ScreenClass(n)[2] \notin ToSet(text[p].classes)
                              /\ Snake[n] \in text[p].ways
  BY <1>1 DEF Reachable, Tables
<1>3. p # AppFile
  BY <1>2, EmittedShell
<1>4. PICK s \in Screens : p = ScreenFile(s.id)
  BY <1>3, EmittedFiles
<1>5. s.id # n /\ ~RenderScreen(prd, s).table
  BY <1>2, <1>4, WayChecked
<1>6. text[p] = RenderScreen(prd, s)
  <2>1. \A file : Broken(file, "none") = file
    BY DEF Broken
  <2> QED
    BY <1>4, <2>1, EmittedScreen
<1>7. Snake[n] \in Ways(prd, s)
  BY <1>2, <1>6, ScreenFields
<1> QED
  BY <1>5, <1>7 DEF NoAccidents

\* Each declaration is mentioned if each model is listed,
LEMMA AllWired ==
  ASSUME NEW f, Emitted(f), Buildable
  PROVE  CheckUnwired(text) = {}
<1> SUFFICES ASSUME NEW p \in DOMAIN text, NEW n \in text[p].declares
             PROVE  \E q \in DOMAIN text : n \in text[q].mentions
  BY DEF CheckUnwired
<1>1. CASE p = AppFile
  <2>1. text[p].declares = {AppClass(prd)} /\ AppClass(prd) \in text[p].mentions
    BY <1>1, EmittedShell
  <2> QED
    BY <2>1
<1>2. CASE \E s \in Screens : p = ScreenFile(s.id)
  <2>1. PICK s \in Screens : p = ScreenFile(s.id)
    BY <1>2
  <2>2. text[p].declares = {ScreenClass(s.id)} /\ ScreenClass(s.id) \in text[p].mentions
    BY <2>1, EmittedScreen DEF Drawn
  <2> QED
    BY <2>2
<1>3. CASE p = MainFile
  <2>1. text[p].declares = {}
    BY <1>3, EmittedMain DEF NoFile
  <2> QED
    BY <2>1
<1>4. CASE \E m \in Models : p = ProviderFile(m)
  <2>1. PICK m \in Models : p = ProviderFile(m)
    BY <1>4
  <2>2. text[p] = RenderProviders(m)
    BY <2>1, EmittedProvider
  <2>3. n \in text[p].mentions \/ n \in {ListProvider(m), ControllerProvider(m)}
    BY <2>2, ProviderFields
  <2>4. PICK s \in Screens : Shape(s) = "list" /\ ModelOf(prd, s) = m
    BY <2>1 DEF Buildable
  <2>5. ScreenFile(s.id) \in DOMAIN text /\ Watches(prd, s) \subseteq text[ScreenFile(s.id)].mentions
    BY EmittedScreen, EmittedFiles DEF Drawn
  <2>6. Watches(prd, s) = {ListProvider(m), ControllerProvider(m)}
    BY <2>4 DEF Watches
  <2> QED
    BY <2>3, <2>5, <2>6
<1> QED
  BY <1>1, <1>2, <1>3, <1>4, EmittedFiles

\* and only then: the list provider of a model is mentioned nowhere else.
LEMMA ListsNeeded ==
  ASSUME NEW f, Emitted(f), CheckUnwired(text) = {}, NEW m \in Models
  PROVE  \E s \in Screens : Shape(s) = "list" /\ ModelOf(prd, s) = m
<1> DEFINE n == ListProvider(m)
           p == ProviderFile(m)
<1>0. /\ prd \in Documents /\ Valid(prd) /\ Models = ToSet(prd.models) /\ Screens = ToSet(prd.screens)
      /\ Models \subseteq ModelType /\ Screens \subseteq ScreenType
  BY DocumentTyped DEF Emitted, TypeOK, Models, Screens
<1>1. p \in prov /\ p \in DOMAIN text /\ n \in text[p].declares
  <2>1. p \in prov /\ p \in DOMAIN text /\ text[p] = RenderProviders(m)
    BY EmittedProvider, EmittedFiles
  <2>2. n \in RenderProviders(m).declares
    BY ProviderFields
  <2> QED
    BY <2>1, <2>2
<1>2. Declaring(text, n) = {p}
  BY <1>1, DeclaredOnce DEF Declaring
<1>3. PICK q \in DOMAIN text : n \in text[q].mentions
  BY <1>1, <1>2 DEF CheckUnwired
<1>4. n[1] = "var" /\ "var" # "class"
  BY DEF ListProvider, Var
<1> HIDE DEF n, p
<1>5. q # AppFile
  <2> SUFFICES ASSUME q = AppFile PROVE FALSE
    OBVIOUS
  <2>1. text[q].mentions = {AppClass(prd)} \cup {ScreenClass(s.id) : s \in Screens}
    BY EmittedShell
  <2>2. \A c \in text[q].mentions : c[1] = "class"
    BY <2>1 DEF AppClass, ScreenClass, Class
  <2> QED
    BY <1>3, <1>4, <2>2
<1>6. q # MainFile
  <2> SUFFICES ASSUME q = MainFile PROVE FALSE
    OBVIOUS
  <2>1. text[q].mentions = {AppClass(prd)}
    BY EmittedMain DEF NoFile
  <2> QED
    BY <1>3, <1>4, <2>1 DEF AppClass, Class
<1>7. ~ \E l \in Models : q = ProviderFile(l)
  <2> SUFFICES ASSUME NEW l \in Models, q = ProviderFile(l) PROVE FALSE
    OBVIOUS
  <2>1. text[q].mentions = {ModelClass(l), ControllerClass(l), CollectionProvider(l)}
    BY EmittedProvider, ProviderFields
  <2>2. ModelClass(l)[1] = "class" /\ ControllerClass(l)[1] = "class"
    BY DEF ModelClass, ControllerClass, Class
  <2>3. n # CollectionProvider(l)
    BY <1>0, ProvidersApart DEF n
  <2> QED
    BY <1>3, <1>4, <2>1, <2>2, <2>3
<1>8. PICK s \in Screens : q = ScreenFile(s.id)
  BY <1>5, <1>6, <1>7, EmittedFiles
<1>9. n \in Watches(prd, s)
  <2>1. Drawn(text[q], prd, s)
    BY <1>8, EmittedScreen
  <2>2. n \in {ScreenClass(s.id), Unsynced} \cup Watches(prd, s)
    BY <1>3, <2>1 DEF Drawn
  <2>3. ScreenClass(s.id)[1] = "class"
    BY DEF ScreenClass, Class
  <2>4. n # Unsynced
    BY <1>0, ProvidersApart DEF n
  <2> QED
    BY <1>4, <2>2, <2>3, <2>4
<1>10. s.model # None
  BY <1>9 DEF Watches, Shape
<1>11. ModelOf(prd, s) \in Models
  BY <1>0, <1>10, ModelFound
<1>12. n # ControllerProvider(ModelOf(prd, s))
  BY <1>0, <1>11, ProvidersApart DEF n
<1>13. Shape(s) = "list" /\ n = ListProvider(ModelOf(prd, s))
  BY <1>9, <1>12 DEF Watches
<1>14. Snake[ModelOf(prd, s).name] = Snake[m.name]
  BY <1>0, <1>11, <1>13, ProvidersApart DEF n
<1>15. ModelOf(prd, s) = m
  BY <1>11, <1>14, ModelsApart DEF Emitted
<1> QED
  BY <1>13, <1>15

\* None is made twice.
LEMMA NoneTwice ==
  ASSUME NEW f, Emitted(f)
  PROVE  CheckDuplicates(text) = {}
<1> SUFFICES ASSUME NEW p \in DOMAIN text, NEW n \in text[p].declares,
                    NEW q \in Declaring(text, n), Rank[q] < Rank[p]
             PROVE  FALSE
  BY DEF CheckDuplicates
<1>1. q = p
  BY DeclaredOnce DEF Declaring
<1>2. p \in Files
  BY Lanes DEF Emitted
<1> QED
  BY <1>1, <1>2, FilesAssumption

\* What is wrong with a file of the templates on its own is the fault.
LEMMA EmittedBad ==
  ASSUME NEW f, Emitted(f), NEW p \in DOMAIN text
  PROVE  text[p].bad \subseteq {"setstate_in_ui"}
<1>1. p = AppFile => text[p].bad = {}
  BY EmittedShell
<1>2. p = MainFile => text[p].bad = {}
  BY EmittedMain DEF NoFile
<1>3. \A s \in Screens : text[ScreenFile(s.id)].bad \subseteq {"setstate_in_ui"}
  BY EmittedScreen DEF Drawn
<1>4. \A m \in Models : text[ProviderFile(m)].bad = {}
  BY EmittedProvider, ProviderFields
<1> QED
  BY <1>1, <1>2, <1>3, <1>4, EmittedFiles

\* So conformance has nothing to say of the files of a Buildable PRD.
LEMMA TemplatesConform ==
  ASSUME NEW f, Emitted(f), Buildable, manifest = TemplateManifest
  PROVE  Conform(prd, text, manifest) = {}
<1>1. CheckManifest(manifest) = {}
  BY DEF TemplateManifest, Parses, CheckManifest
<1>2. CheckTheme(prd, text) = {}
  <2>1. AppFile \in InUi(text) /\ text[AppFile].shows = {prd.theme}
    BY EmittedFiles, EmittedShell
  <2> QED
    BY <2>1 DEF CheckTheme
<1>3. CheckScreens(prd, text) = {}
  <2>1. \A s \in Screens : ScreenErrors(text, s.id) = {}
    BY ScreenChecked DEF Buildable
  <2> QED
    BY <2>1 DEF CheckScreens, Screens
<1>4. CheckModels(prd, text) = {}
  <2>1. \A m \in Models : ModelErrors(text, m) = {}
    BY ModelChecked DEF Buildable
  <2> QED
    BY <2>1 DEF CheckModels, Models
<1>5. CheckForms(prd, text) = {}
  BY FormsPass DEF CheckForms, Screens
<1>6. CheckFiles(text) = {}
  BY EmittedBad DEF CheckFiles, Bad
<1> QED
  BY <1>1, <1>2, <1>3, <1>4, <1>5, <1>6, WaysPass, AllWired, NoneTwice DEF Conform

\* The error of the fault, where the templates have one in them.
Faulty == prd.theme = "material" /\ fault # "none"

FirstErrors ==
  IF Faulty
  THEN {Error(ScreenFile(prd.screens[1].id),
              IF fault = "setstate" THEN "setstate_in_ui" ELSE "undefined_provider")}
  ELSE {}

\* What the screens watch is declared, and Unsynced is not.
LEMMA ProvidersDeclared ==
  ASSUME NEW f, Emitted(f), NEW s \in Screens
  PROVE  Watches(prd, s) \subseteq Declared(text) /\ Unsynced \notin Declared(text)
<1>0. /\ prd \in Documents /\ Valid(prd) /\ Models = ToSet(prd.models) /\ Screens = ToSet(prd.screens)
      /\ Models \subseteq ModelType
  BY DocumentTyped DEF Emitted, TypeOK, Models, Screens
<1>1. \A m \in Models : /\ ProviderFile(m) \in In(text, "providers")
                        /\ text[ProviderFile(m)].provides =
                             {CollectionProvider(m), ListProvider(m), ControllerProvider(m)}
  BY EmittedProvider, EmittedFiles, ProviderFields DEF ProviderFile, In
<1>2. Watches(prd, s) \subseteq Declared(text)
  <2>1. s.model = None => Watches(prd, s) = {}
    BY DEF Watches, Shape
  <2>2. ASSUME s.model # None PROVE Watches(prd, s) \subseteq Declared(text)
    <3> DEFINE m == ModelOf(prd, s)
    <3>1. m \in Models
      BY <1>0, <2>2, ModelFound
    <3>2. Watches(prd, s) \subseteq {ListProvider(m), ControllerProvider(m)}
      BY DEF Watches
    <3> HIDE DEF m
    <3> QED
      BY <1>1, <3>1, <3>2 DEF Declared
  <2> QED
    BY <2>1, <2>2
<1>3. Unsynced \notin Declared(text)
  <2> SUFFICES ASSUME NEW p \in In(text, "providers"), Unsynced \in text[p].provides
               PROVE  FALSE
    BY DEF Declared
  <2>1. p # MainFile /\ p \in prov
    BY EmittedFiles DEF In, InUi, MainFile
  <2>2. PICK m \in Models : p = ProviderFile(m)
    BY <2>1, EmittedFiles
  <2>3. Unsynced \in {CollectionProvider(m), ListProvider(m), ControllerProvider(m)}
    BY <1>1, <2>2
  <2> QED
    BY <1>0, <2>3, ProvidersApart
<1> QED
  BY <1>2, <1>3

\* What of a screen's file the analyzer looks at.
LEMMA EmittedFault ==
  ASSUME NEW f, Emitted(f), NEW s \in Screens
  PROVE  LET file == text[ScreenFile(s.id)]
             hit == prd.theme = "material" /\ s = prd.screens[1] IN
    /\ ~(file.watches \subseteq Declared(text)) <=> hit /\ f = "undefined_provider"
    /\ "setstate_in_ui" \in file.bad <=> hit /\ f = "setstate"
<1> DEFINE g == RenderScreen(prd, s)
           b == Broken(g, f)
<1>1. g.watches = Watches(prd, s) /\ g.bad = {}
  BY ScreenFields
<1>2. /\ b.watches = g.watches \cup (IF f = "undefined_provider" THEN {Unsynced} ELSE {})
      /\ b.bad = IF f = "setstate" THEN {"setstate_in_ui"} ELSE g.bad
  BY BrokenFields
<1>3. text[ScreenFile(s.id)] = IF prd.theme = "material" /\ s = prd.screens[1] THEN b ELSE g
  BY EmittedScreen
<1> HIDE DEF g, b
<1> QED
  BY <1>1, <1>2, <1>3, ProvidersDeclared

\* What the analyzer says of the templates' files: the fault, and braces.
LEMMA AnalyzerSays ==
  ASSUME NEW f, Emitted(f), manifest = TemplateManifest
  PROVE  LET F == ScreenFile(prd.screens[1].id) IN
    Analyze(text, manifest) =
      {Error(p, "undefined_provider") :
         p \in {p \in {F} : prd.theme = "material" /\ f = "undefined_provider"}}
      \cup {Error(p, "setstate_in_ui") :
              p \in {p \in {F} : prd.theme = "material" /\ f = "setstate"}}
      \cup {Error(p, "unbalanced_braces") : p \in {p \in Counted(text) : text[p].braces # 0}}
<1> DEFINE q == prd.screens[1]
           F == ScreenFile(q.id)
<1>0. q \in Screens /\ F \in ui /\ F # AppFile /\ InUi(text) = ui /\ DOMAIN text = ui \cup prov
  <2>1. prd \in Documents /\ prd.screens \in Seq(ScreenType) /\ prd.screens # <<>>
    BY DocumentTyped DEF Emitted, TypeOK, Valid
  <2>2. q \in Screens /\ q \in ScreenType
    BY <2>1 DEF ToSet, Screens
  <2> QED
    BY <2>2, EmittedScreen, EmittedFiles, PathFacts DEF ScreenType
<1>1. ASSUME NEW p \in ui
      PROVE  /\ ~(text[p].watches \subseteq Declared(text)) <=>
                  p = F /\ prd.theme = "material" /\ f = "undefined_provider"
             /\ "setstate_in_ui" \in text[p].bad <=>
                  p = F /\ prd.theme = "material" /\ f = "setstate"
  <2>1. CASE p = AppFile
    BY <1>0, <2>1, EmittedShell
  <2>2. CASE p # AppFile
    <3>1. PICK s \in Screens : p = ScreenFile(s.id)
      BY <2>2, EmittedFiles
    <3>2. p = F <=> s = q
      BY <1>0, <3>1, ScreensApart DEF Emitted, ScreenFile
    <3> HIDE DEF F, q
    <3> QED
      BY <3>1, <3>2, EmittedFault DEF q
  <2> QED
    BY <2>1, <2>2
<1>2. \A p \in InUi(text) \cup In(text, "providers") :
        "logic_in_ui" \notin text[p].bad /\ "ui_in_logic" \notin text[p].bad
  BY EmittedBad DEF InUi, In
<1> HIDE DEF F, q
<1>3. {p \in InUi(text) : ~(text[p].watches \subseteq Declared(text))} =
        {p \in {F} : prd.theme = "material" /\ f = "undefined_provider"}
  BY <1>0, <1>1
<1>4. {p \in InUi(text) : "setstate_in_ui" \in text[p].bad} =
        {p \in {F} : prd.theme = "material" /\ f = "setstate"}
  BY <1>0, <1>1
<1>5. Bad(text, InUi(text), "logic_in_ui") = {} /\ Bad(text, In(text, "providers"), "ui_in_logic") = {}
  BY <1>2 DEF Bad
<1>6. {manifest.whole} \ {TRUE} = {}
  BY DEF TemplateManifest
<1> QED
  BY <1>3, <1>4, <1>5, <1>6 DEF Analyze, Bad, F, q

\* Braces balance if no text of the PRD has one too many, and only then.
LEMMA BracesChecked ==
  ASSUME NEW f, Emitted(f)
  PROVE  {p \in Counted(text) : text[p].braces # 0} = {} <=>
           /\ \A s \in Screens : Depth(prd, s) = 0
           /\ Balanced(prd.app) /\ \A m \in Models : Balanced(m.collection)
<1>1. \A s \in Screens : /\ ScreenFile(s.id) \in Counted(text)
                         /\ text[ScreenFile(s.id)].braces = Depth(prd, s)
  BY EmittedScreen, EmittedFiles DEF Drawn, Counted
<1>2. AppFile \in Counted(text) /\ text[AppFile].braces = Says[prd.app].braces
  BY EmittedShell, EmittedFiles DEF Counted
<1>3. \A m \in Models : /\ ProviderFile(m) \in Counted(text)
                        /\ text[ProviderFile(m)].braces = Says[m.collection].braces
  BY EmittedProvider, EmittedFiles, ProviderFields DEF Counted, In, ProviderFile
<1>4. text[MainFile].braces = 0
  BY EmittedMain DEF NoFile
<1>5. \A p \in Counted(text) :
        \/ p \in {AppFile, MainFile} \/ \E s \in Screens : p = ScreenFile(s.id)
        \/ \E m \in Models : p = ProviderFile(m)
  BY EmittedFiles DEF Counted, InUi, In
<1> QED
  BY <1>1, <1>2, <1>3, <1>4, <1>5 DEF Balanced

\* The errors of a Buildable PRD: that of the fault, until it is repaired.
LEMMA TemplateErrors ==
  ASSUME NEW f \in {fault, "none"}, Emitted(f), Buildable, manifest = TemplateManifest,
         fault \in {"none", "undefined_provider", "setstate"}
  PROVE  Errors(prd, text, manifest) = IF f = "none" THEN {} ELSE FirstErrors
<1> DEFINE F == ScreenFile(prd.screens[1].id)
<1>1. Conform(prd, text, manifest) = {} /\ Parses(manifest)
  BY TemplatesConform DEF TemplateManifest, Parses
<1>2. {p \in Counted(text) : text[p].braces # 0} = {}
  BY BracesChecked DEF Buildable
<1>3. Errors(prd, text, manifest) =
        {Error(p, "undefined_provider") :
           p \in {p \in {F} : prd.theme = "material" /\ f = "undefined_provider"}}
        \cup {Error(p, "setstate_in_ui") :
                p \in {p \in {F} : prd.theme = "material" /\ f = "setstate"}}
  BY <1>1, <1>2, AnalyzerSays DEF Errors
<1> HIDE DEF F
<1>4. CASE f = "none" \/ prd.theme # "material"
  <2>1. Errors(prd, text, manifest) = {}
    BY <1>3, <1>4
  <2> QED
    BY <1>4, <2>1 DEF FirstErrors, Faulty
<1>5. CASE f # "none" /\ prd.theme = "material"
  <2>1. Errors(prd, text, manifest) =
          {Error(F, IF f = "setstate" THEN "setstate_in_ui" ELSE "undefined_provider")}
    BY <1>3, <1>5
  <2> QED
    BY <1>5, <2>1 DEF FirstErrors, Faulty, F
<1> QED
  BY <1>4, <1>5

\* And files that pass every check have no fault in them, and a Buildable PRD.
LEMMA CleanIsBuildable ==
  ASSUME NEW f \in {"none", "undefined_provider", "setstate"}, Emitted(f), NoAccidents,
         manifest = TemplateManifest, Errors(prd, text, manifest) = {}
  PROVE  Buildable
<1> DEFINE F == ScreenFile(prd.screens[1].id)
<1>1. Conform(prd, text, manifest) = {} /\ Analyze(text, manifest) = {}
  BY DEF Errors, TemplateManifest, Parses
<1>2. /\ CheckUnwired(text) = {} /\ CheckNavigation(prd, text) = {}
      /\ CheckScreens(prd, text) = {} /\ CheckModels(prd, text) = {}
  BY <1>1 DEF Conform
<1>3. f = "none" \/ prd.theme # "material"
  <2>1. {p \in {F} : prd.theme = "material" /\ f = "undefined_provider"} = {}
    BY <1>1, AnalyzerSays
  <2>2. {p \in {F} : prd.theme = "material" /\ f = "setstate"} = {}
    BY <1>1, AnalyzerSays
  <2> QED
    BY <2>1, <2>2
<1>4. Emitted("none")
  <2>1. prd \in Documents /\ ui = DOMAIN BuildUi(prd, f, {})
    BY DEF Emitted, TypeOK, UiWritten, UiHolds
  <2>2. ui = DOMAIN BuildUi(prd, "none", {})
    BY <2>1, BuiltUi
  <2>3. \A p \in ui : BuildUi(prd, f, {})[p] = BuildUi(prd, "none", {})[p]
    BY <1>3, <2>2, Repaired
  <2>4. \A p \in ui : text[p] = BuildUi(prd, f, {})[p]
    BY DEF Emitted, UiWritten, UiHolds
  <2>5. UiWritten("none")
    BY <2>2, <2>3, <2>4 DEF UiWritten, UiHolds
  <2> QED
    BY <2>5 DEF Emitted
<1>5. {p \in Counted(text) : text[p].braces # 0} = {}
  BY <1>1, AnalyzerSays
<1>6. \A s \in Screens : ScreenErrors(text, s.id) = {}
  BY <1>2 DEF CheckScreens, Screens
<1>7. \A m \in Models : ModelErrors(text, m) = {}
  BY <1>2 DEF CheckModels, Models
<1> QED
  BY <1>2, <1>4, <1>5, <1>6, <1>7, ScreenChecked, ModelChecked, BracesChecked,
     ListsNeeded, WaysNeeded DEF Buildable

-----------------------------------------------------------------------------
(* The rounds of a build from templates.                                   *)

\* Whatever the PRD is, the two agents write all of their files in each round.
TemplateInv ==
  writer = "templates" =>
    /\ fault \in {"none", "undefined_provider", "setstate"} /\ manifest = TemplateManifest
    /\ uiBad = {} /\ logicBad = {}
    /\ ui \in {{}, DOMAIN BuildUi(prd, "none", {})} /\ prov \in {{}, DOMAIN WireLogic(prd)}
    /\ pc \notin {"plan", "genui"} => UiWritten(fault) \/ UiWritten("none")
    /\ pc \notin {"plan", "genui", "logic"} => LogicWritten

\* No step changes the PRD, the writer or its fault.
LEMMA Fixed ==
  ASSUME [Next]_vars
  PROVE  prd' = prd /\ writer' = writer /\ fault' = fault
  BY DEF Next, Plan, Genui, Logic, Qa, Route, Package, Finish, vars, fixed

\* Planning has nothing to repair in the templates' pubspec.
LEMMA TemplateManifestKept ==
  Planned(TemplateManifest) = TemplateManifest
<1> DEFINE t == TemplateManifest
<1>1. t \in Manifest
  BY Zenon DEF TemplateManifest, Manifest
<1>2. t.prose = FALSE /\ t.stray = FALSE /\ t.lints = TRUE
  BY DEF TemplateManifest
<1> HIDE DEF t
<1>3. [t EXCEPT !.prose = FALSE] = t /\ [t EXCEPT !.stray = FALSE] = t /\ [t EXCEPT !.lints = TRUE] = t
  BY <1>1, <1>2 DEF Manifest
<1>4. RepairDescription(t) = t /\ RepairStrayLine(t) = t /\ EnsureLint(t) = t
  BY <1>3 DEF RepairDescription, RepairStrayLine, EnsureLint, KeptIfParses
<1> QED
  BY <1>4 DEF Planned, t

\* What GenUI has written after its turn.
LEMMA TemplateGenui ==
  ASSUME TypeOK, TemplateInv, writer = "templates", Genui
  PROVE  /\ ui' = DOMAIN BuildUi(prd, "none", {}) /\ uiBad' = {}
         /\ Loop!Batch("genui") = {} => UiHolds(prd, ui', text', fault)
         /\ Loop!Batch("genui") # {} \/ ~Faulty => UiHolds(prd, ui', text', "none")
<1> DEFINE batch == Loop!Batch("genui")
           new == BuildUi(prd, fault, batch)
           good == BuildUi(prd, "none", {})
<1>1. Loop!GenuiWrites(DOMAIN new) /\ text' = Merged(new, UiPaths)
  BY DEF Genui, UiDrafts
<1>2. DOMAIN new = DOMAIN good /\ DOMAIN new \subseteq UiPaths /\ DOMAIN BuildUi(prd, fault, {}) = DOMAIN good
  BY BuiltUi DEF TypeOK
<1>3. ui' = (IF batch # {} THEN ui ELSE {}) \cup (DOMAIN new \cap UiPaths)
      /\ uiBad' = Loop!LaneErrors(DOMAIN new \ UiPaths, "genui_lane_violation")
  BY <1>1 DEF Loop!GenuiWrites
<1>4. ui' = DOMAIN good
  BY <1>2, <1>3 DEF TemplateInv
<1>5. uiBad' = {}
  BY <1>2, <1>3 DEF Loop!LaneErrors
<1>6. \A p \in ui' : text'[p] = new[p]
  <2> HIDE DEF new, good
  <2> QED
    BY <1>1, <1>2, <1>4 DEF Merged
<1>7. batch = {} => UiHolds(prd, ui', text', fault)
  BY <1>2, <1>4, <1>6 DEF UiHolds
<1>8. ASSUME batch # {} \/ ~Faulty PROVE UiHolds(prd, ui', text', "none")
  <2>1. \A p \in DOMAIN good : new[p] = good[p]
    BY <1>8, Repaired DEF Faulty
  <2> HIDE DEF new
  <2> QED
    BY <1>4, <1>6, <2>1 DEF UiHolds
<1> QED
  BY <1>4, <1>5, <1>7, <1>8

\* What Logic has written after its turn.
LEMMA TemplateLogic ==
  ASSUME TypeOK, TemplateInv, writer = "templates", Logic
  PROVE  /\ LogicHolds(prd, prov', text') /\ prov' = DOMAIN WireLogic(prd) /\ logicBad' = {}
         /\ ui' = ui /\ \A p \in ui : text'[p] = text[p]
<1> DEFINE new == WireLogic(prd)
<1>1. Loop!LogicWrites(DOMAIN new) /\ text' = Merged(new, LogicPaths)
  BY DEF Logic, LogicDrafts
<1>2. DOMAIN new \subseteq LogicPaths
  BY WiredLogic DEF TypeOK
<1> HIDE DEF new
<1>3. prov' = (IF Loop!Batch("logic") # {} THEN prov ELSE {}) \cup (DOMAIN new \cap LogicPaths)
      /\ logicBad' = Loop!LaneErrors(DOMAIN new \ LogicPaths, "logic_lane_violation") /\ ui' = ui
  <2>1. Loop!LogicFiles = LogicPaths
    BY PathFacts DEF Loop!LogicFiles
  <2> QED
    BY <1>1, <2>1 DEF Loop!LogicWrites
<1>4. prov' = DOMAIN new
  BY <1>2, <1>3 DEF TemplateInv, new
<1>5. logicBad' = {}
  BY <1>2, <1>3 DEF Loop!LaneErrors
<1>6. \A p \in prov' : text'[p] = new[p]
  BY <1>1, <1>2, <1>4 DEF Merged
<1>7. \A p \in ui : text'[p] = text[p]
  <2>1. ui \cap LogicPaths = {}
    BY Lanes, PathFacts
  <2> QED
    BY <1>1, <1>3, <2>1 DEF Merged
<1> QED
  BY <1>3, <1>4, <1>5, <1>6, <1>7 DEF LogicHolds, new

\* TemplateInv is inductive.
LEMMA TemplateInit == Init => TemplateInv
<1> SUFFICES ASSUME Init, writer = "templates"
             PROVE  /\ fault \in {"none", "undefined_provider", "setstate"} /\ manifest = TemplateManifest
                    /\ uiBad = {} /\ logicBad = {} /\ ui = {} /\ prov = {} /\ pc = "plan"
  BY DEF TemplateInv
<1>1. PICK c \in Cases : writer = c.writer /\ fault = c.fault /\ manifest = c.manifest
  BY DEF Init
<1> QED
  BY <1>1, GenerationAssumption DEF Init, Loop!Init

LEMMA TemplateStep == TypeOK /\ TemplateInv /\ [Next]_vars => TemplateInv'
<1> SUFFICES ASSUME TypeOK, TemplateInv, [Next]_vars, writer = "templates"
             PROVE  /\ fault' \in {"none", "undefined_provider", "setstate"}
                    /\ manifest' = TemplateManifest
                    /\ uiBad' = {} /\ logicBad' = {}
                    /\ ui' \in {{}, DOMAIN BuildUi(prd, "none", {})}
                    /\ prov' \in {{}, DOMAIN WireLogic(prd)}
                    /\ pc' \notin {"plan", "genui"} =>
                         UiHolds(prd, ui', text', fault) \/ UiHolds(prd, ui', text', "none")
                    /\ pc' \notin {"plan", "genui", "logic"} => LogicHolds(prd, prov', text')
  BY Fixed DEF TemplateInv, UiWritten, LogicWritten
<1>0. prd' = prd /\ fault' = fault
  BY Fixed
<1>1. CASE Plan
  <2>1. /\ pc' = "genui" /\ manifest' = Planned(manifest) /\ UNCHANGED <<ui, prov, uiBad, logicBad>>
    BY <1>1 DEF Plan, Loop!Plan, Loop!RunNode, Loop!agentVars
  <2> QED
    BY <1>0, <2>1, TemplateManifestKept DEF TemplateInv
<1>2. CASE Genui
  <2>1. pc' = "logic" /\ UNCHANGED <<manifest, prov, logicBad>>
    BY <1>2 DEF Genui, Loop!GenuiWrites, Loop!RunNode
  <2> QED
    BY <1>0, <1>2, <2>1, TemplateGenui DEF TemplateInv
<1>3. CASE Logic
  <2>1. pc = "logic" /\ pc' = "qa" /\ UNCHANGED <<manifest, uiBad>>
    BY <1>3 DEF Logic, Loop!LogicWrites, Loop!RunNode
  <2>2. ui' = ui /\ \A p \in ui : text'[p] = text[p]
    BY <1>3, TemplateLogic
  <2>3. UiHolds(prd, ui', text', fault) \/ UiHolds(prd, ui', text', "none")
    BY <2>1, <2>2 DEF TemplateInv, UiWritten, UiHolds
  <2> QED
    BY <1>0, <1>3, <2>1, <2>2, <2>3, TemplateLogic DEF TemplateInv
<1>4. CASE Qa \/ Route \/ Package \/ Finish \/ UNCHANGED vars
  <2>1. /\ UNCHANGED <<ui, prov, uiBad, logicBad, manifest, text>>
        /\ pc' = pc \/ pc \notin {"plan", "genui", "logic"}
    BY <1>4 DEF Qa, Route, Package, Finish, vars, Loop!vars, Loop!agentVars, Loop!RunNode,
         Loop!QaReports, Loop!Grade, Loop!Route, Loop!Package, Loop!Finish
  <2> QED
    BY <1>0, <2>1 DEF TemplateInv, UiWritten, LogicWritten
<1> QED
  BY <1>1, <1>2, <1>3, <1>4 DEF Next

\* How far a build of a Buildable PRD is, counted by the repairs that were
\* started: the fault is in the files until the round that GenUI is given it in,
\* the first for setState and the second, a stalled one, for a provider that
\* nobody declares.
RoundInv ==
  writer = "templates" /\ OwnNames /\ Buildable =>
    /\ pc \in {"plan", "genui", "logic", "qa"} =>
         /\ repairs \in 0 .. Needed /\ repairs <= MaxRepairs
         /\ diags = (IF repairs = 0 THEN {} ELSE FirstErrors) /\ (stalled <=> repairs = 2)
    /\ pc = "plan" => repairs = 0
    /\ pc = "genui" => repairs \in {0, Needed}
    /\ pc \in {"logic", "qa"} => UiWritten(IF repairs = Needed THEN "none" ELSE fault)
    /\ pc = "route" =>
         \/ diags = {} /\ phase = "packaging" /\ Needed <= MaxRepairs
         \/ /\ diags = FirstErrors /\ phase = "qa" /\ Faulty
            /\ repairs \in 1 .. Needed /\ (stalled <=> repairs = 2)
            /\ UiWritten(fault)
    /\ pc = "package" => diags = {} /\ Needed <= MaxRepairs
    /\ pc = "finish" => IF Needed <= MaxRepairs THEN diags = {} /\ phase = "done" /\ ~apk ELSE diags # {}
    /\ pc = "end" => (status = "succeeded" <=> Needed <= MaxRepairs)

\* RoundInv holds to begin with.
LEMMA RoundInit == Init => RoundInv
<1> SUFFICES ASSUME Init PROVE RoundInv
  OBVIOUS
<1>1. pc = "plan" /\ repairs = 0 /\ diags = {} /\ stalled = FALSE
  BY DEF Init, Loop!Init
<1>2. Needed \in Nat
  BY DEF Needed
<1>3. repairs \in 0 .. Needed /\ repairs <= MaxRepairs
  BY <1>1, <1>2, GenerationAssumption
<1>4. repairs # 2
  BY <1>1
<1>5. (stalled <=> repairs = 2)
  BY <1>1, <1>4
<1>6. /\ pc \notin {"genui", "logic", "qa", "route", "package", "finish", "end"}
      /\ diags = (IF repairs = 0 THEN {} ELSE FirstErrors)
  BY <1>1
<1> QED
  BY <1>1, <1>3, <1>5, <1>6 DEF RoundInv

\* What of a build depends on its PRD and its fault alone.
LEMMA Constants ==
  ASSUME [Next]_vars
  PROVE  /\ OwnNames' = OwnNames /\ Buildable' = Buildable
         /\ Needed' = Needed /\ FirstErrors' = FirstErrors /\ Faulty' = Faulty
<1>1. prd' = prd /\ fault' = fault
  BY Fixed
<1>2. OwnNames' = OwnNames
  BY <1>1 DEF OwnNames, Screens, Models
<1>3. Buildable' = Buildable
  BY <1>1 DEF Buildable, Screens, Models, Targets, GoesTo, Balanced
<1>4. Needed' = Needed /\ Faulty' = Faulty
  BY <1>1 DEF Needed, Faulty
<1>5. FirstErrors' = FirstErrors
  BY <1>1 DEF FirstErrors, Faulty
<1> QED
  BY <1>2, <1>3, <1>4, <1>5

\* How many repairs the fault takes, and where its error is sent.
LEMMA NeededFacts ==
  ASSUME fault \in {"none", "undefined_provider", "setstate"}
  PROVE  /\ Needed \in {0, 1, 2}
         /\ Needed = 0 <=> ~Faulty
         /\ Needed = 1 <=> (Faulty /\ fault = "setstate")
         /\ FirstErrors = {} <=> ~Faulty
         /\ Needed = 1 => /\ Loop!Owned(FirstErrors, "genui") = FirstErrors
                          /\ Loop!RouteFor(FirstErrors) = "genui"
         /\ Needed = 2 => Loop!RouteFor(FirstErrors) = "logic"
<1>1. /\ Needed \in {0, 1, 2}
      /\ Needed = 0 <=> ~Faulty
      /\ Needed = 1 <=> (Faulty /\ fault = "setstate")
  BY DEF Needed, Faulty
<1>2. FirstErrors = {} <=> ~Faulty
  BY DEF FirstErrors
<1> DEFINE e == Error(ScreenFile(prd.screens[1].id),
                      IF fault = "setstate" THEN "setstate_in_ui" ELSE "undefined_provider")
<1>3. Needed \in {1, 2} => FirstErrors = {e}
  BY <1>1 DEF FirstErrors
<1>4. e.code = IF fault = "setstate" THEN "setstate_in_ui" ELSE "undefined_provider"
  BY DEF Error
<1> HIDE DEF e
<1>5. Needed = 1 => Loop!Owner(e) = "genui"
  BY <1>1, <1>4 DEF Loop!Owner, Loop!ForGenui
<1>6. Needed = 2 => Loop!Owner(e) = "logic"
  BY <1>1, <1>4 DEF Loop!Owner, Loop!ForGenui, Loop!ForLogic
<1>7. Needed = 1 => Loop!Owned({e}, "genui") = {e} /\ Loop!Owned({e}, "fatal") = {}
  BY <1>5 DEF Loop!Owned
<1>8. Needed = 2 => Loop!Owned({e}, "genui") = {} /\ Loop!Owned({e}, "fatal") = {}
  BY <1>6 DEF Loop!Owned
<1> QED
  BY <1>1, <1>2, <1>3, <1>7, <1>8 DEF Loop!RouteFor

\* The rounds, one node at a time.
LEMMA RoundGenui ==
  ASSUME TypeOK, TemplateInv, RoundInv, writer = "templates", OwnNames, Buildable, Genui
  PROVE  UiHolds(prd, ui', text', IF repairs = Needed THEN "none" ELSE fault)
<1>1. /\ repairs \in {0, Needed} /\ (stalled <=> repairs = 2)
      /\ diags = (IF repairs = 0 THEN {} ELSE FirstErrors)
  BY DEF Genui, RoundInv
<1>2. CASE repairs # Needed
  <2>1. diags = {}
    BY <1>1, <1>2
  <2>2. Loop!Batch("genui") = {}
    BY <2>1 DEF Loop!Batch, Loop!Owned
  <2> QED
    BY <1>2, <2>2, TemplateGenui
<1>3. CASE repairs = Needed
  <2>0. fault \in {"none", "undefined_provider", "setstate"}
    BY DEF TemplateInv
  <2>1. CASE Needed = 1
    <3>1. ~stalled /\ diags = FirstErrors
      BY <1>1, <1>3, <2>1
    <3>2. Loop!Batch("genui") = FirstErrors /\ FirstErrors # {}
      BY <2>0, <2>1, <3>1, NeededFacts DEF Loop!Batch
    <3> QED
      BY <1>3, <3>2, TemplateGenui
  <2>2. CASE Needed = 2
    <3>1. stalled /\ diags = FirstErrors
      BY <1>1, <1>3, <2>2
    <3>2. Loop!Batch("genui") = FirstErrors
      BY <3>1 DEF Loop!Batch
    <3>3. FirstErrors # {}
      BY <2>0, <2>2, NeededFacts
    <3> QED
      BY <1>3, <3>2, <3>3, TemplateGenui
  <2>3. CASE ~Faulty
    BY <1>3, <2>3, TemplateGenui
  <2> QED
    BY <2>0, <2>1, <2>2, <2>3, NeededFacts
<1> QED
  BY <1>2, <1>3

\* qa reports the error of the fault as long as it is in the files, and only that.
LEMMA RoundQa ==
  ASSUME TypeOK, TemplateInv, RoundInv, writer = "templates", OwnNames, Buildable, Qa
  PROVE  /\ pc' = "route" /\ UNCHANGED <<ui, text>>
         /\ \/ diags' = {} /\ phase' = "packaging" /\ Needed <= MaxRepairs
            \/ /\ diags' = FirstErrors /\ phase' = "qa" /\ Faulty
               /\ repairs' \in 1 .. Needed /\ (stalled' <=> repairs' = 2)
               /\ UiWritten(fault)
<1>1. /\ pc = "qa" /\ Loop!Grade(Errors(prd, text, manifest) \cup uiBad \cup logicBad)
      /\ UNCHANGED <<ui, text>>
  BY DEF Qa, Loop!QaReports, Loop!agentVars
<1>2. /\ fault \in {"none", "undefined_provider", "setstate"} /\ manifest = TemplateManifest
      /\ uiBad = {} /\ logicBad = {} /\ LogicWritten
  BY <1>1 DEF TemplateInv
<1>3. /\ repairs \in 0 .. Needed /\ repairs <= MaxRepairs
      /\ diags = (IF repairs = 0 THEN {} ELSE FirstErrors)
      /\ UiWritten(IF repairs = Needed THEN "none" ELSE fault)
  BY <1>1 DEF RoundInv
<1>4. Loop!Grade(Errors(prd, text, manifest))
  BY <1>1, <1>2
<1>5. pc' = "route"
  BY <1>4 DEF Loop!Grade, Loop!RunNode
<1>6. CASE repairs = Needed
  <2>1. Emitted("none")
    BY <1>2, <1>3, <1>6 DEF Emitted
  <2>2. Errors(prd, text, manifest) = {}
    BY <1>2, <2>1, TemplateErrors
  <2>3. diags' = {} /\ phase' = "packaging"
    BY <1>4, <2>2 DEF Loop!Grade, Loop!RunNode
  <2> QED
    BY <1>1, <1>3, <1>5, <1>6, <2>3
<1>7. CASE repairs # Needed
  <2>1. Needed \in {1, 2} /\ repairs \in {0, 1} /\ repairs < Needed
    BY <1>2, <1>3, <1>7, NeededFacts
  <2>2. Faulty /\ FirstErrors # {}
    BY <1>2, <2>1, NeededFacts
  <2>3. Emitted(fault) /\ fault # "none"
    BY <1>2, <1>3, <1>7, <2>2 DEF Emitted, Faulty
  <2>4. Errors(prd, text, manifest) = FirstErrors
    BY <1>2, <2>3, TemplateErrors
  <2>5. /\ diags' = FirstErrors /\ phase' = "qa" /\ repairs' = repairs + 1
        /\ (stalled' <=> FirstErrors = diags)
    <3>1. Loop!Grade(FirstErrors)
      BY <1>4, <2>4
    <3> HIDE DEF FirstErrors
    <3> QED
      BY <2>2, <3>1, Zenon DEF Loop!Grade, Loop!RunNode
  <2>6. FirstErrors = diags <=> repairs' = 2
    BY <1>3, <2>1, <2>2, <2>5
  <2>7. (stalled' <=> repairs' = 2)
    BY <2>5, <2>6
  <2>8. repairs' \in 1 .. Needed
    BY <2>1, <2>5
  <2>9. UiWritten(fault)
    BY <2>3 DEF Emitted
  <2> QED
    BY <1>1, <1>5, <2>2, <2>5, <2>7, <2>8, <2>9
<1> QED
  BY <1>6, <1>7

\* Where the edge that leaves qa leads, and in which round.
LEMMA RoundRoute ==
  ASSUME TypeOK, TemplateInv, RoundInv, writer = "templates", OwnNames, Buildable, Route
  PROVE  \/ pc' = "package" /\ diags = {} /\ Needed <= MaxRepairs
         \/ pc' = "finish" /\ diags # {} /\ ~(Needed <= MaxRepairs)
         \/ /\ pc' \in {"genui", "logic"}
            /\ repairs \in 0 .. Needed /\ repairs <= MaxRepairs
            /\ diags = (IF repairs = 0 THEN {} ELSE FirstErrors) /\ (stalled <=> repairs = 2)
            /\ pc' = "genui" => repairs = Needed
            /\ pc' = "logic" => repairs # Needed /\ UiWritten(fault)
<1>1. /\ pc' = Loop!Router
      /\ \/ diags = {} /\ phase = "packaging" /\ Needed <= MaxRepairs
         \/ /\ diags = FirstErrors /\ phase = "qa" /\ Faulty
            /\ repairs \in 1 .. Needed /\ (stalled <=> repairs = 2)
            /\ UiWritten(fault)
  BY DEF Route, Loop!Route, RoundInv
<1>0. fault \in {"none", "undefined_provider", "setstate"} /\ Needed \in {0, 1, 2}
  BY NeededFacts DEF TemplateInv
<1>2. CASE diags = {}
  <2>1. phase = "packaging" /\ Needed <= MaxRepairs
    BY <1>0, <1>1, <1>2, NeededFacts
  <2>2. pc' = "package"
    BY <1>1, <1>2, <2>1 DEF Loop!Router
  <2> QED
    BY <1>2, <2>1, <2>2
<1>3. CASE diags # {}
  <2>1. /\ diags = FirstErrors /\ phase = "qa" /\ Faulty
        /\ repairs \in 1 .. Needed /\ (stalled <=> repairs = 2)
        /\ UiWritten(fault)
    BY <1>1, <1>3
  <2>2. CASE repairs > MaxRepairs
    <3>1. pc' = "finish"
      BY <1>1, <1>3, <2>1, <2>2 DEF Loop!Router
    <3>2. ~(Needed <= MaxRepairs)
      BY <1>0, <2>1, <2>2, GenerationAssumption
    <3> QED
      BY <1>3, <3>1, <3>2
  <2>3. CASE ~(repairs > MaxRepairs)
    <3>0. repairs \in 0 .. Needed /\ repairs <= MaxRepairs /\ repairs # 0
      BY <1>0, <2>1, <2>3, GenerationAssumption
    <3>1. pc' = IF stalled THEN Loop!OtherAgent(Loop!RouteFor(diags)) ELSE Loop!RouteFor(diags)
      BY <1>1, <1>3, <2>1, <2>3 DEF Loop!Router
    <3>2. CASE Needed = 1
      <4>1. repairs = 1 /\ ~stalled
        BY <2>1, <3>2
      <4>2. pc' = "genui"
        BY <1>0, <2>1, <3>1, <3>2, <4>1, NeededFacts
      <4> QED
        BY <2>1, <3>0, <3>2, <4>1, <4>2
    <3>3. CASE Needed = 2
      <4>1. Loop!RouteFor(diags) = "logic"
        BY <1>0, <2>1, <3>3, NeededFacts
      <4>2. repairs \in {1, 2} /\ (stalled <=> repairs = 2)
        BY <2>1, <3>3
      <4>3. pc' = IF repairs = 2 THEN "genui" ELSE "logic"
        BY <3>1, <4>1, <4>2 DEF Loop!OtherAgent
      <4>4. pc' = "genui" => repairs = Needed
        BY <3>3, <4>3
      <4>5. pc' = "logic" => repairs # Needed
        BY <3>3, <4>3
      <4> QED
        BY <2>1, <3>0, <4>2, <4>3, <4>4, <4>5
    <3>4. Needed # 0
      BY <1>0, <2>1, NeededFacts
    <3> QED
      BY <1>0, <3>2, <3>3, <3>4
  <2> QED
    BY <2>2, <2>3
<1> QED
  BY <1>2, <1>3

LEMMA RoundStep == TypeOK /\ TemplateInv /\ RoundInv /\ [Next]_vars => RoundInv'
<1> SUFFICES ASSUME TypeOK, TemplateInv, RoundInv, [Next]_vars,
                    writer = "templates", OwnNames, Buildable
             PROVE  /\ pc' \in {"plan", "genui", "logic", "qa"} =>
                         /\ repairs' \in 0 .. Needed /\ repairs' <= MaxRepairs
                         /\ diags' = (IF repairs' = 0 THEN {} ELSE FirstErrors)
                         /\ (stalled' <=> repairs' = 2)
                    /\ pc' = "plan" => repairs' = 0
                    /\ pc' = "genui" => repairs' \in {0, Needed}
                    /\ pc' \in {"logic", "qa"} =>
                         UiHolds(prd, ui', text', IF repairs' = Needed THEN "none" ELSE fault)
                    /\ pc' = "route" =>
                         \/ diags' = {} /\ phase' = "packaging" /\ Needed <= MaxRepairs
                         \/ /\ diags' = FirstErrors /\ phase' = "qa" /\ Faulty
                            /\ repairs' \in 1 .. Needed /\ (stalled' <=> repairs' = 2)
                            /\ UiHolds(prd, ui', text', fault)
                    /\ pc' = "package" => diags' = {} /\ Needed <= MaxRepairs
                    /\ pc' = "finish" => IF Needed <= MaxRepairs
                                         THEN diags' = {} /\ phase' = "done" /\ ~apk'
                                         ELSE diags' # {}
                    /\ pc' = "end" => (status' = "succeeded" <=> Needed <= MaxRepairs)
  BY Fixed, Constants DEF RoundInv, UiWritten
<1>1. CASE Plan
  <2>1. /\ pc = "plan" /\ pc' = "genui" /\ UNCHANGED <<repairs, diags, stalled>>
    BY <1>1 DEF Plan, Loop!Plan, Loop!RunNode, Loop!qaVars
  <2> QED
    BY <2>1 DEF RoundInv
<1>2. CASE Genui
  <2>1. /\ pc = "genui" /\ pc' = "logic" /\ UNCHANGED <<repairs, diags, stalled>>
    BY <1>2 DEF Genui, Loop!GenuiWrites, Loop!RunNode, Loop!qaVars
  <2> QED
    BY <1>2, <2>1, RoundGenui DEF RoundInv
<1>3. CASE Logic
  <2>1. /\ pc = "logic" /\ pc' = "qa" /\ UNCHANGED <<repairs, diags, stalled>>
    BY <1>3 DEF Logic, Loop!LogicWrites, Loop!RunNode, Loop!qaVars
  <2>2. ui' = ui /\ \A p \in ui : text'[p] = text[p]
    BY <1>3, TemplateLogic
  <2>3. UiWritten(IF repairs = Needed THEN "none" ELSE fault)
    BY <2>1 DEF RoundInv
  <2>4. UiHolds(prd, ui', text', IF repairs' = Needed THEN "none" ELSE fault)
    BY <2>1, <2>2, <2>3 DEF UiWritten, UiHolds
  <2> QED
    BY <2>1, <2>4 DEF RoundInv
<1>4. CASE Qa
  BY <1>4, RoundQa DEF UiWritten
<1>5. CASE Route
  <2>1. UNCHANGED <<repairs, diags, stalled, ui, text, phase, apk, status>>
    BY <1>5 DEF Route, Loop!Route, Loop!qaVars, Loop!agentVars
  <2> QED
    BY <1>5, <2>1, RoundRoute DEF UiWritten
<1>6. CASE Package
  <2>1. /\ pc = "package" /\ pc' = "finish" /\ phase' = "done" /\ ~apk' /\ UNCHANGED diags
    BY <1>6 DEF Package, Loop!Package, Loop!RunNode, Loop!qaVars
  <2> QED
    BY <2>1 DEF RoundInv
<1>7. CASE Finish
  <2>1. /\ pc = "finish" /\ pc' = "end"
        /\ status' = IF phase = "failed" \/ diags # {} \/ (apk /\ ~verified)
                     THEN "failed" ELSE "succeeded"
    BY <1>7 DEF Finish, Loop!Finish
  <2> QED
    BY <2>1 DEF RoundInv
<1>8. CASE UNCHANGED vars
  <2>1. UNCHANGED <<pc, repairs, diags, stalled, ui, text, phase, apk, status>>
    BY <1>8 DEF vars, Loop!vars, Loop!qaVars, Loop!agentVars
  <2> QED
    BY <2>1 DEF RoundInv, UiWritten
<1> QED
  BY <1>1, <1>2, <1>3, <1>4, <1>5, <1>6, <1>7, <1>8 DEF Next

\* A success shows that the PRD is Buildable, and RoundInv that the budget was enough.
LEMMA DeliverStep == BuildInv /\ TemplateInv /\ RoundInv => TemplatesDeliver
<1> SUFFICES ASSUME BuildInv, TemplateInv, RoundInv,
                    pc = "end", writer = "templates", OwnNames, NoAccidents
             PROVE  status = "succeeded" <=> (Buildable /\ Needed <= MaxRepairs)
  BY DEF TemplatesDeliver
<1>1. ASSUME status = "succeeded" PROVE Buildable
  <2>1. Errors(prd, text, manifest) = {}
    BY <1>1, NoErrors
  <2>2. /\ (UiWritten(fault) \/ UiWritten("none")) /\ LogicWritten
        /\ fault \in {"none", "undefined_provider", "setstate"} /\ manifest = TemplateManifest
    BY DEF TemplateInv
  <2>3. Emitted(fault) \/ Emitted("none")
    BY <2>2 DEF Emitted, BuildInv
  <2> QED
    BY <2>1, <2>2, <2>3, CleanIsBuildable
<1>2. Buildable => (status = "succeeded" <=> Needed <= MaxRepairs)
  BY DEF RoundInv
<1> QED
  BY <1>1, <1>2

\* Of the PRDs whose names are apart and which reach no screen by accident, the
\* template generator completes those that are Buildable, in their structure and
\* in what their texts are to the checks, and whose fault is undone within the
\* repair budget: one repair for setState, two for a provider that nobody declares,
\* as Logic is given it first and only a stalled round gives it to GenUI
\* (templates.py; nodes.py, route_after_qa).
THEOREM TemplatesComplete == Spec => []TemplatesDeliver
<1>1. Init => TemplateInv /\ RoundInv
  BY TemplateInit, RoundInit
<1>2. BuildInv /\ TemplateInv /\ RoundInv /\ [Next]_vars => TemplateInv' /\ RoundInv'
  BY TemplateStep, RoundStep DEF BuildInv
<1> QED
  BY <1>1, <1>2, Built, DeliverStep, PTL DEF Spec
=============================================================================
