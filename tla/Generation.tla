----------------------------- MODULE Generation -----------------------------
(***************************************************************************)
(* A build from its PRD to what it delivers: the graph of RepairLoop with  *)
(* the template generator, or a model whose answers are given, the         *)
(* conformance checks and the stub analyzer in it, as the service runs     *)
(* them where there is no Flutter (src/service/app.py, build_work).        *)
(*                                                                         *)
(* RepairLoop leaves open what a generator writes and what the checks say; *)
(* here the one answers the other, over the contents of the files.         *)
(***************************************************************************)
EXTENDS Conformance

CONSTANTS
  Cases,       \* what a build may start from: prd, writer, fault, manifest
  Answers,     \* what a model may answer with: paths to files
  MaxRepairs

\* A PRD has been through the schema, and the templates plan their own manifest.
\* A model may write any files, also outside of its lane.
ASSUME GenerationAssumption ==
  /\ MaxRepairs \in Nat
  /\ Cases \subseteq [prd : {p \in Documents : Valid(p)}, writer : {"templates", "model"},
                      fault : {"none", "undefined_provider", "setstate"},
                      manifest : Manifest]
  /\ \A c \in Cases : c.writer = "templates" => c.manifest = TemplateManifest
  /\ \A a \in Answers : DOMAIN a \subseteq Files \cup {Pubspec}
                       /\ \A p \in DOMAIN a : a[p] \in File

VARIABLES
  pc, verified, ui, prov, uiBad, logicBad, diags, stalled, repairs, written,
  phase, apk, status, disk, attempt, before, told, steps,
  prd,
  writer,    \* "templates" or "model": the CodeGenerator
  fault,     \* of the TemplateGenerator
  manifest,  \* pubspec
  text       \* the contents of ui_files and provider_files

UiPaths       == {p \in Files : p[1] = "ui"}
LogicPaths    == Files \ UiPaths
ProviderPaths == {p \in Files : p[1] = "providers"} \cup {MainFile}
Codes == {"theme_mismatch", "missing_screen", "unreachable_screen",
          "missing_provider", "wrong_collection", "missing_form_field",
          "unwired_declaration", "duplicate_declaration", "misplaced_entrypoint",
          "consumer_state_build_signature",
          "unparseable_pubspec", "lints_not_installed", "incomplete_pubspec",
          "undefined_provider", "setstate_in_ui", "logic_in_ui", "ui_in_logic",
          "unbalanced_braces"}

Loop == INSTANCE RepairLoop WITH
  UiFiles <- UiPaths, ProviderFiles <- ProviderPaths,
  OtherFiles <- LogicPaths \ ProviderPaths,
  FrozenFiles <- {Pubspec}, Attempts <- 1,
  Reports <- [file : Files \cup {Pubspec}, code : Codes]

fixed == <<prd, writer, fault>>
vars  == <<Loop!vars, fixed, manifest, text>>

-----------------------------------------------------------------------------
(* The generators.                                                         *)

UiDrafts ==
  IF writer = "templates" THEN {BuildUi(prd, fault, Loop!Batch("genui"))} ELSE Answers

LogicDrafts == IF writer = "templates" THEN {WireLogic(prd)} ELSE Answers

\* Mutant: files that an agent drops stay in the state.
MergedAll(new, lane) ==
  [p \in DOMAIN new \cup DOMAIN text |-> IF p \in DOMAIN new THEN new[p] ELSE text[p]]

\* What the agent wrote in its lane, over the files it keeps and the other lane's.
Merged(new, lane) ==
  [p \in ui' \cup prov' |-> IF p \in DOMAIN new \cap lane THEN new[p] ELSE text[p]]

-----------------------------------------------------------------------------
(* The nodes of the graph.                                                 *)

Init ==
  /\ Loop!Init
  /\ \E c \in Cases :
       prd = c.prd /\ writer = c.writer /\ fault = c.fault /\ manifest = c.manifest
  /\ text = <<>>

Plan ==
  /\ Loop!Plan
  /\ manifest' = Planned(manifest)
  /\ UNCHANGED <<fixed, text>>

Genui ==
  /\ pc = "genui"
  /\ \E new \in UiDrafts :
       Loop!GenuiWrites(DOMAIN new) /\ text' = Merged(new, UiPaths)
  /\ UNCHANGED <<fixed, manifest>>

Logic ==
  /\ pc = "logic"
  /\ \E new \in LogicDrafts :
       Loop!LogicWrites(DOMAIN new) /\ text' = Merged(new, LogicPaths)
  /\ UNCHANGED <<fixed, manifest>>

Qa ==
  /\ pc = "qa"
  /\ Loop!QaReports(Errors(prd, text, manifest))
  /\ UNCHANGED <<fixed, manifest, text>>

Route == Loop!Route /\ UNCHANGED <<fixed, manifest, text>>

\* Without Flutter there is nothing to package with: run_build is "skipped".
Package ==
  /\ Loop!Package
  /\ phase' = "done" /\ ~apk'
  /\ UNCHANGED <<fixed, manifest, text>>

Finish == Loop!Finish /\ UNCHANGED <<fixed, manifest, text>>

Next == Plan \/ Genui \/ Logic \/ Qa \/ Route \/ Package \/ Finish

Spec == Init /\ [][Next]_vars
-----------------------------------------------------------------------------
(* What a PRD needs.                                                       *)

Screens == ToSet(prd.screens)
Models  == ToSet(prd.models)
Targets == {a.target : a \in UNION {Navigates(s) : s \in Screens}}

\* Every declaration has a name and every screen and model a file of its own,
\* and no screen's name is found in the name of another.
OwnNames ==
  LET implied == [p \in DOMAIN BuildUi(prd, "none", {}) \cup DOMAIN WireLogic(prd) |->
                    IF p \in UiPaths THEN BuildUi(prd, "none", {})[p] ELSE WireLogic(prd)[p]]
  IN
    /\ Cardinality({ScreenFile(s.id) : s \in Screens}) = Len(prd.screens)
    /\ Cardinality({ProviderFile(m) : m \in Models}) = Len(prd.models)
    /\ \A p, q \in DOMAIN implied :
         p # q => implied[p].declares \cap implied[q].declares = {}
    /\ \A s, t \in Screens : s # t => ~Inside(Snake[s.id], Snake[t.id] \o <<"screen">>)

\* Screen s goes to the one with this id: its path is its one word.
GoesTo(s, id) == \E a \in Pushed(s) : a.target = id /\ Snake[id] \in Says[id].ways

\* Nothing else that a screen shows or holds looks like a way to another.
NoAccidents ==
  \A s \in Screens, n \in Targets :
    s.id # n /\ Snake[n] \in Ways(prd, s) => GoesTo(s, n)

Balanced(t) == Says[t].braces = 0

\* The PRDs that the templates can build: each model is listed, and its collection
\* is found in the quotes it is written in; each target is one word that another
\* screen pushes, from a file that does not look like a routes table; the App
\* class holds the name of no screen that sorts after it; and no text upsets a
\* count of braces.
Buildable ==
  /\ \A m \in Models :
       /\ \E s \in Screens : Shape(s) = "list" /\ ModelOf(prd, s) = m
       /\ \E x \in Models : m.collection \in RenderProviders(x).literals
  /\ \A n \in Targets :
       \E s \in Screens : s.id # n /\ GoesTo(s, n) /\ ~RenderScreen(prd, s).table
  /\ \A s \in Screens : Inside(Snake[s.id], AppClass(prd)[2]) =>
       Rank[ScreenFile(s.id)] < Rank[AppFile]
  /\ \A s \in Screens : Depth(prd, s) = 0
  /\ Balanced(prd.app) /\ \A m \in Models : Balanced(m.collection)

-----------------------------------------------------------------------------
(* Properties.                                                             *)

\* The contents are of the two agents' files, each in its lane.
TypeOK ==
  /\ Loop!TypeOK
  /\ DOMAIN text = ui \cup prov
  /\ prd \in Documents /\ Valid(prd)
  /\ manifest \in Manifest

\* Which paid builds the template generator completes: those of a PRD it can
\* express, if its fault, where it has one, is undone within the repair budget.
\* A provider that nobody declares goes to Logic, which cannot help, and only a
\* stalled round gives it to GenUI (templates.py, "the router escalates to GenUI
\* to stop referencing it"), so that takes a repair more than setState does.
Needed == IF prd.theme # "material" \/ fault = "none" THEN 0
          ELSE IF fault = "setstate" THEN 1 ELSE 2

TemplatesDeliver ==
  pc = "end" /\ writer = "templates" /\ OwnNames /\ NoAccidents =>
    (status = "succeeded" <=> Buildable /\ Needed <= MaxRepairs)

\* A build that succeeds holds what its PRD asks for, whatever a model answered
\* and in however many rounds: a class with each screen's name, which another
\* file shows; the theme; a provider and the collection of each model; every
\* field of its forms; a way to each target that is no routes table; and no
\* provider watched that is not declared (nodes.py, "conformance grades whether
\* the app is the one the PRD asked for").
ShownElsewhere(id) ==
  \E p, q \in ui : \E c \in ToSet(text[p].classes) :
    p # q /\ Inside(Snake[id], c) /\ <<"class", c>> \in Occurring(text[q])

Stored(m) ==
  /\ \E p \in prov : \E v \in Occurring(text[p]) : Serves(v, m.name)
  /\ \E p \in prov : m.collection \in text[p].literals

Delivered ==
  pc = "end" /\ status = "succeeded" =>
    /\ \A s \in Screens : ShownElsewhere(s.id)
    /\ \E p \in ui : prd.theme \in text[p].shows
    /\ \A m \in Models : Stored(m)
    /\ \A s \in {s \in Screens : Shape(s) = "form"} : \A f \in ToSet(FieldsOf(prd, s)) :
         \E p \in ui : f.name \in text[p].captures
    /\ \A n \in Targets : \E p \in ui :
         /\ ~text[p].table /\ ScreenClass(n)[2] \notin ToSet(text[p].classes)
         /\ Snake[n] \in text[p].ways
    /\ UNION {text[p].watches : p \in ui} \subseteq UNION {text[p].provides : p \in prov}
    /\ Parses(manifest) /\ manifest.lints

\* What RepairLoop assumes of the checks: an error that is placed by its path
\* is in a file they were given.
Placed == [][pc = "qa" => Errors(prd, text, manifest) \subseteq Loop!Found]_vars

\* Each screen of the PRD is in the app the templates make of it (conformance.py,
\* "Every PRD screen must exist as a widget").
EveryScreen ==
  pc = "end" /\ status = "succeeded" /\ writer = "templates" =>
    \A s \in Screens : \E p \in ui : text[p] = RenderScreen(prd, s)

\* Every navigate target of a build by the templates that succeeds is pushed by
\* another screen (conformance.py, "A declared `navigate` action must actually be
\* able to go somewhere").
EveryTarget ==
  pc = "end" /\ status = "succeeded" /\ writer = "templates" =>
    \A n \in Targets : \E s \in Screens : s.id # n /\ GoesTo(s, n)
=============================================================================
