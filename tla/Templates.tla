----------------------------- MODULE Templates -----------------------------
(***************************************************************************)
(* What a PRD may say, and the app the template generator makes of it:     *)
(*   src/prd/schema.py       PRD and its validators                        *)
(*   src/ports/templates.py  snake, pascal, camel, dart_string,            *)
(*                           TemplateGenerator, and planning's repairs of  *)
(*                           a manifest                                    *)
(* A file is what the checks look for in it.  Its layout is left out, and  *)
(* so is what prose may hide: no title, label or collection declares a     *)
(* class, imports a package, watches a provider, calls setState, or holds  *)
(* the name of a class or provider of the app.                             *)
(***************************************************************************)
EXTENDS Integers, Sequences, FiniteSets, SequencesExt

CONSTANTS
  Texts,   \* what a document says: titles, labels, collections, names
  Names,   \* those that are identifiers: ids of screens, names of fields, actions
  Snake,   \* the words snake() finds in a text
  Camel,   \* identifiers that camel() leaves as they are
  Says,    \* what the searches find in a text that dart_string wrote in quotes
  Common,  \* names that begin a word of every screen's template, by theme
  None

Themes == {"material", "cupertino"}

\* ways: screens a search for a way to them finds: a name in quotes of its own, a
\* word after a dot, a call of a class; table: it looks like a routes table;
\* braces: opening ones over closing ones; literals: texts between its quotes.
Saying == [ways : SUBSET Seq(STRING), table : BOOLEAN, braces : Int,
           literals : SUBSET Texts]

\* Of an identifier the quotes hold its own text, and that is its slug if it is
\* one word.  No word begins with a digit, so pascal() keeps words apart.
ASSUME TextsAssumption ==
  /\ Snake \in [Texts -> Seq(STRING) \ {<<>>}]
  /\ Says \in [Texts -> Saying]
  /\ Camel \subseteq Names /\ Names \subseteq Texts
  /\ Common \in [Themes -> SUBSET Names]
  /\ \A n \in Names : /\ Says[n].ways = {w \in {Snake[n]} : Len(w) = 1}
                      /\ Says[n].braces = 0 /\ Says[n].literals = {n}

-----------------------------------------------------------------------------
\* The document.

FieldType  == [name : Names, label : Texts]
ActionType == [name : Names, target : Names \cup {None},
               kind : {"create", "update", "delete", "navigate", "signIn", "signOut"}]
ScreenType == [id : Names, title : Texts, model : Texts \cup {None},
               kind : {"list", "form", "detail", "auth", "settings"},
               fields : Seq(FieldType), actions : Seq(ActionType)]
ModelType  == [name : Texts, collection : Texts, fields : Seq(FieldType)]
Documents  == [app : Texts, theme : Themes, models : Seq(ModelType),
               screens : Seq(ScreenType)]

Navigates(s) == {a \in ToSet(s.actions) : a.kind = "navigate" /\ a.target # None}

\* The schema's validators: PRD._referential_integrity.
Valid(prd) ==
  LET ids == {s.id : s \in ToSet(prd.screens)} IN
    /\ prd.screens # <<>>
    /\ Cardinality(ids) = Len(prd.screens)
    /\ \A s \in ToSet(prd.screens) :
         /\ s.model # None => \E m \in ToSet(prd.models) : m.name = s.model
         /\ \A a \in Navigates(s) : a.target \in ids

-----------------------------------------------------------------------------
\* Names in the generated code.  pascal and camel join the words of snake, so
\* two names with the same words have the same class, file and route.

Class(n, suffix) == <<"class", Snake[n] \o suffix>>
Var(n, suffix)   == <<"var", Snake[n] \o suffix>>

ScreenClass(id)       == Class(id, <<"screen">>)
AppClass(prd)         == Class(prd.app, <<"app">>)
ModelClass(m)         == Class(m.name, <<>>)
ControllerClass(m)    == Class(m.name, <<"controller">>)
CollectionProvider(m) == Var(m.name, <<"collection", "provider">>)
ListProvider(m)       == Var(m.name, <<"list", "provider">>)
ControllerProvider(m) == Var(m.name, <<"controller", "provider">>)
Unsynced              == <<"var", <<"unsynced", "draft", "provider">>>>

ScreenFile(id)  == <<"ui", Snake[id]>>
ProviderFile(m) == <<"providers", Snake[m.name]>>
AppFile  == <<"ui", <<>>>>         \* lib/ui/app.dart
MainFile == <<"lib", <<"main">>>>  \* lib/main.dart
Pubspec  == <<"pubspec", <<>>>>

-----------------------------------------------------------------------------
\* The widget tree: build_ui, _render_screen.

LastWhere(seq, P(_)) ==
  LET i == SelectLastInSeq(seq, P) IN IF i = 0 THEN None ELSE seq[i]

\* models = {m.name: m}: of two with one name, the last.
ModelOf(prd, s) == LastWhere(prd.models, LAMBDA m : m.name = s.model)

Shape(s) == IF s.model = None THEN "plain" ELSE IF s.kind = "form" THEN "form" ELSE "list"

\* _fab_navigation, _navigation_buttons: a list goes to the target of its first
\* action, a plain screen has a button for each, a form has none.
Pushed(s) ==
  LET first == SelectInSeq(s.actions, LAMBDA a : a \in Navigates(s)) IN
    CASE Shape(s) = "plain" -> Navigates(s)
      [] Shape(s) = "list" -> IF first = 0 THEN {} ELSE {s.actions[first]}
      [] OTHER -> {}

FieldsOf(prd, s) == IF s.fields # <<>> THEN s.fields ELSE ModelOf(prd, s).fields

Inputs(prd, s)  == IF Shape(s) = "form" THEN ToSet(FieldsOf(prd, s)) ELSE {}
Entries(prd, s) == {f.name : f \in Inputs(prd, s)}

Watches(prd, s) ==
  LET m == ModelOf(prd, s) IN
    CASE Shape(s) = "plain" -> {}
      [] Shape(s) = "list" -> {ListProvider(m), ControllerProvider(m)}
      [] OTHER -> {ControllerProvider(m)}

\* The first field of the model is what a row shows.
Primary(prd, s) == IF Shape(s) # "list" \/ ModelOf(prd, s).fields = <<>> THEN {}
                   ELSE {ModelOf(prd, s).fields[1].name}

\* The texts it has in quotes.
Shown(prd, s) ==
  {s.title} \cup {a.target : a \in Pushed(s)}
    \cup Entries(prd, s) \cup {f.label : f \in Inputs(prd, s)}
    \cup (IF Shape(s) = "plain" THEN {a.name : a \in Pushed(s)} ELSE {})

\* The words that the templates have after a dot.
TemplateMembers(prd, s) ==
  LET material == prd.theme = "material" IN
    {<<"dart">>, <<"key">>}
    \cup (IF Pushed(s) = {} THEN {} ELSE {<<"push", "named">>})
    \cup CASE Shape(s) = "list" ->
                {<<"watch">>, <<"read">>, <<"notifier">>, <<"create", "draft">>, <<"when">>,
                 <<"length">>, <<"to", "string">>, <<"id">>, <<"add">>}
                \cup (IF material THEN {<<"separated">>} ELSE {<<"builder">>, <<"zero">>})
           [] Shape(s) = "form" ->
                {<<"read">>, <<"notifier">>, <<"all">>, <<"submit">>}
                \cup (IF Inputs(prd, s) = {} THEN {} ELSE {<<"update">>})
                \cup (IF material THEN {} ELSE {<<"filled">>})
           [] OTHER -> {<<"all">>} \cup (IF Pushed(s) = {} THEN {} ELSE {<<"min">>})

\* The screens that a search finds a way to in its file.
Ways(prd, s) ==
  TemplateMembers(prd, s) \cup {Snake[f] : f \in Primary(prd, s) \cap Camel}
    \cup UNION {Says[t].ways : t \in Shown(prd, s)}

\* A plain screen has its title in its bar and in its body.
Depth(prd, s) ==
  (IF Shape(s) = "plain" THEN 2 ELSE 1) * Says[s.title].braces
    + (IF Shape(s) = "form"
       THEN FoldSeq(LAMBDA f, n : Says[f.label].braces + n, 0, FieldsOf(prd, s)) ELSE 0)

\* What the checks look for.  declares: names at its top level, provides: the
\* providers among them; classes: what it has after the word class, in order;
\* mentions: names it has elsewhere; captures: form fields; shows: root widgets;
\* bad: what is wrong with it on its own.
File == [shows : SUBSET Themes, classes : Seq(Seq(STRING)),
         declares : SUBSET ({"class", "var"} \X Seq(STRING)),
         provides : SUBSET ({"var"} \X Seq(STRING)),
         mentions : SUBSET ({"class", "var"} \X Seq(STRING)),
         watches : SUBSET ({"var"} \X Seq(STRING)),
         ways : SUBSET Seq(STRING), table : BOOLEAN, literals : SUBSET Texts,
         captures : SUBSET Names, braces : Int, bad : SUBSET STRING]

NoFile == [shows |-> {}, classes |-> <<>>, declares |-> {}, provides |-> {},
           mentions |-> {}, watches |-> {}, ways |-> {}, table |-> FALSE,
           literals |-> {}, captures |-> {}, braces |-> 0, bad |-> {}]

RenderScreen(prd, s) ==
  [NoFile EXCEPT
     !.classes  = <<ScreenClass(s.id)[2]>>,
     !.declares = {ScreenClass(s.id)},
     !.mentions = {ScreenClass(s.id)} \cup Watches(prd, s),
     !.watches  = Watches(prd, s),
     !.ways     = Ways(prd, s),
     !.table    = \E t \in Shown(prd, s) \cup Primary(prd, s) : Says[t].table,
     !.captures = Entries(prd, s) \cup Common[prd.theme],
     !.braces   = Depth(prd, s)]

\* APP_DART: the shell, with a route for every screen.
RenderApp(prd) ==
  [NoFile EXCEPT
     !.shows    = {prd.theme},
     !.classes  = <<AppClass(prd)[2]>>,
     !.declares = {AppClass(prd)},
     !.mentions = {AppClass(prd)} \cup {ScreenClass(s.id) : s \in ToSet(prd.screens)},
     !.table    = TRUE,
     !.braces   = Says[prd.app].braces]

\* TemplateGenerator(fault): broken on a first pass, in the first screen, if its
\* template is a Material one.
Broken(file, fault) ==
  CASE fault = "undefined_provider" ->
         [file EXCEPT !.watches = @ \cup {Unsynced}, !.mentions = @ \cup {Unsynced},
                      !.ways = @ \cup {<<"watch">>}]
    [] fault = "setstate" -> [file EXCEPT !.bad = {"setstate_in_ui"}]
    [] OTHER -> file

\* Of two screens with one file, the last is what it holds.
BuildUi(prd, fault, batch) ==
  LET paths == {ScreenFile(s.id) : s \in ToSet(prd.screens)}
      Final(p) == LastWhere(prd.screens, LAMBDA s : ScreenFile(s.id) = p)
      hit == batch = {} /\ prd.theme = "material"
      Out(p) == IF p = AppFile THEN RenderApp(prd)
                ELSE IF hit /\ p = ScreenFile(prd.screens[1].id)
                     THEN Broken(RenderScreen(prd, Final(p)), fault)
                     ELSE RenderScreen(prd, Final(p))
  IN [p \in paths \cup {AppFile} |-> Out(p)]

-----------------------------------------------------------------------------
\* State: wire_logic, _render_providers.

RenderProviders(m) ==
  LET providers == {CollectionProvider(m), ListProvider(m), ControllerProvider(m)} IN
    [NoFile EXCEPT
       !.declares = providers \cup {ModelClass(m), ControllerClass(m)},
       !.provides = providers,
       !.mentions = {ModelClass(m), ControllerClass(m), CollectionProvider(m)},
       !.literals = UNION {Says[t].literals :
                             t \in {m.collection} \cup {f.name : f \in ToSet(m.fields)}},
       !.braces   = Says[m.collection].braces]

\* Whatever the errors are, they are answered with what the PRD implies.
WireLogic(prd) ==
  LET paths == {ProviderFile(m) : m \in ToSet(prd.models)}
      Final(p) == LastWhere(prd.models, LAMBDA m : ProviderFile(m) = p)
  IN [p \in paths \cup {MainFile} |->
        IF p = MainFile THEN [NoFile EXCEPT !.mentions = {AppClass(prd)}]
        ELSE RenderProviders(Final(p))]

-----------------------------------------------------------------------------
\* The manifest.  prose: a description with a colon, not quoted; stray: a line
\* that should be a comment; broken: any other error of YAML; whole: it has the
\* keys that Flutter needs; lints: it declares the lint package.

Manifest == [prose : BOOLEAN, stray : BOOLEAN, broken : BOOLEAN, whole : BOOLEAN,
             lints : BOOLEAN]

Parses(m) == ~m.prose /\ ~m.stray /\ ~m.broken

\* A repair is kept only if the manifest then parses.
KeptIfParses(m, repaired) == IF Parses(repaired) THEN repaired ELSE m

RepairDescription(m) == KeptIfParses(m, [m EXCEPT !.prose = FALSE])
RepairStrayLine(m)   == KeptIfParses(m, [m EXCEPT !.stray = FALSE])
EnsureLint(m)        == [m EXCEPT !.lints = TRUE]

\* TemplateGenerator.plan: its own manifest.
TemplateManifest ==
  [prose |-> FALSE, stray |-> FALSE, broken |-> FALSE, whole |-> TRUE, lints |-> TRUE]

\* The planning node.
Planned(m) == EnsureLint(RepairStrayLine(RepairDescription(m)))
=============================================================================
