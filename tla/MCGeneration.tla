---------------------------- MODULE MCGeneration ----------------------------
(* Small PRDs for Generation, and what a model may answer to one of them. *)
EXTENDS Generation

CONSTANTS
  home, note, noteList, noteLIST, add, open, body,  \* identifiers
  Note, HomeScreen,                                 \* models
  Diary, Notes,                                     \* apps
  notes, quoted,                                    \* collections: notes, o'clock
  Plain, Opening, Closing, Routes, ToAdd            \* prose: { } "routes:" '"add"'

MCNames == {home, note, noteList, noteLIST, add, open, body}
MCTexts == MCNames \cup {Note, HomeScreen, Diary, Notes, notes, quoted, Plain, Opening,
                         Closing, Routes, ToAdd}

MCSnake ==
  [t \in MCTexts |->
     CASE t = home -> <<"home">> [] t \in {note, Note} -> <<"note">>
       [] t \in {noteList, noteLIST} -> <<"note", "list">> [] t = add -> <<"add">>
       [] t = open -> <<"open">> [] t = body -> <<"body">>
       [] t \in {notes, Notes} -> <<"notes">> [] t = HomeScreen -> <<"home", "screen">>
       [] t = Diary -> <<"diary">> [] t = ToAdd -> <<"add">> [] OTHER -> <<"app">>]

MCCamel  == MCNames \ {noteLIST}
MCCommon == [th \in Themes |-> IF th = "material" THEN {body} ELSE {}]
MCBegins == {<<"note", "notes">>}

MCSays ==
  [t \in MCTexts |->
     [ways     |-> IF t \in MCNames THEN {w \in {MCSnake[t]} : Len(w) = 1}
                   ELSE IF t = ToAdd THEN {<<"add">>} ELSE {},
      table    |-> t = Routes,
      braces   |-> CASE t = Opening -> 1 [] t = Closing -> -1 [] OTHER -> 0,
      literals |-> IF t = quoted THEN {} ELSE {t}]]

-----------------------------------------------------------------------------
\* Paths.

Ui(words)   == <<"ui", words>>
ModelFile   == <<"models", <<"note">>>>
OptionsFile == <<"lib", <<"firebase", "options">>>>

MCFiles == {Ui(MCSnake[n]) : n \in MCNames} \cup {<<"providers", MCSnake[t]>> : t \in MCTexts}
             \cup {Ui(<<>>), <<"lib", <<"main">>>>, ModelFile, OptionsFile}

\* add_screen.dart, app.dart, and the others.
MCOrder == FoldSet(LAMBDA p, seq : Append(seq, p), <<Ui(<<"add">>), Ui(<<>>)>>,
                   MCFiles \ {Ui(<<"add">>), Ui(<<>>)})
MCRank  == [p \in MCFiles |-> SelectInSeq(MCOrder, LAMBDA q : q = p)]

-----------------------------------------------------------------------------
\* Documents.

Field(n, label) == [name |-> n, label |-> label]
Model(n) == [name |-> n, collection |-> notes, fields |-> <<Field(body, Plain)>>]
To(id)   == [name |-> open, kind |-> "navigate", target |-> id]
Create   == [name |-> open, kind |-> "create", target |-> None]

Screen(id, kind, model, actions) ==
  [id |-> id, title |-> Plain, kind |-> kind, model |-> model, fields |-> <<>>,
   actions |-> actions]

\* What two screens may be: with a model or without, leading to each other, to
\* themselves, to both or nowhere.
ScreensOf(id, models, ids) ==
  {Screen(id, k.kind, k.model, as) :
     k \in {[kind |-> "settings", model |-> None]}
             \cup {[kind |-> x, model |-> m.name] : x \in {"list", "form"}, m \in ToSet(models)},
     as \in {<<>>, <<Create, To(ids[2])>>, <<To(ids[1])>>, <<To(ids[2]), To(ids[1])>>}}

PRDs(pairs, lists, apps) ==
  UNION {{[app |-> a, theme |-> "material", models |-> ms, screens |-> <<s, t>>] :
            a \in apps, s \in ScreensOf(ids[1], ms, ids), t \in ScreensOf(ids[2], ms, ids)} :
         ids \in pairs, ms \in lists}

Case(p, w, f, m) == [prd |-> p, writer |-> w, fault |-> f, manifest |-> m]
ByTemplates(ps)  == {Case(p, "templates", "none", TemplateManifest) : p \in ps}

Typical == [app |-> Diary, theme |-> "material", models |-> <<Model(Note)>>,
            screens |-> <<Screen(home, "list", Note, <<To(add)>>),
                          Screen(add, "form", Note, <<>>)>>]

\* The same with every text it has free.
Prose ==
  {[Typical EXCEPT !.app = a, !.theme = th, !.screens[1].title = t,
                   !.screens[2].title = u, !.models[1].collection = c,
                   !.models[1].fields = <<Field(body, l)>>] :
     a \in {Diary, Opening}, th \in Themes, t \in {Plain, Routes, ToAdd},
     u \in {Plain, Opening}, c \in {notes, quoted, body, Closing}, l \in {Plain, Closing}}

\* A form with a field of its own, and a way that the list does not show.
OwnField(f) ==
  [Typical EXCEPT !.screens =
     <<Screen(home, "list", Note, <<To(home), To(note)>>),
       [Screen(add, "form", Note, <<>>) EXCEPT !.fields = <<Field(f, Plain)>>],
       Screen(note, "detail", None, <<To(home)>>)>>]

\* A second way out of a list, to a screen with the name of an icon.
NamedAdd == [Typical EXCEPT !.screens =
               <<Screen(home, "list", Note, <<To(note), To(add)>>),
                 Screen(note, "detail", None, <<>>), Screen(add, "form", Note, <<>>)>>]

\* Two screens with one class and one file.
OneClass == [Typical EXCEPT !.screens =
               <<Screen(noteList, "list", Note, <<>>),
                 [Screen(noteLIST, "list", Note, <<>>) EXCEPT !.title = Routes]>>]

-----------------------------------------------------------------------------
\* What a model may answer with, for Typical.

Widget(words, ways, fields) ==
  [NoFile EXCEPT !.classes = <<words>>, !.declares = {<<"class", words>>},
                 !.mentions = {<<"class", words>>}, !.ways = ways, !.captures = fields]

\* A shell with its routes, with `home:` alone, or with a factory.
Shell(shown, table) ==
  [RenderApp(Typical) EXCEPT !.mentions = @ \cup {<<"class", c>> : c \in shown},
                             !.table = table]

HomeView == [Widget(<<"home", "view">>, {<<"add">>}, {}) EXCEPT
               !.mentions = @ \cup {ListProvider(Model(Note)), ControllerProvider(Model(Note))},
               !.watches  = {ListProvider(Model(Note))}]
AddPage  == Widget(<<"add", "page">>, {}, {body})

\* Classes of its own names; the second page in the first one's file.
OtherNames == (Ui(<<>>) :> Shell({<<"home", "view">>, <<"add", "page">>}, FALSE))
                @@ (Ui(<<"home">>) :> HomeView) @@ (Ui(<<"add">>) :> AddPage)
OneFile    == (Ui(<<>>) :> Shell({<<"home", "view">>}, FALSE)) @@ (Ui(<<"home">>) :>
                [HomeView EXCEPT !.classes = <<<<"home", "view">>, <<"add", "page">>>>,
                                 !.captures = {body}])

\* Faults that repair passes go through, one file at a time.
Faulty == Ui(<<"home">>) :> [HomeView EXCEPT !.bad = {"setstate_in_ui", "misplaced_entrypoint"},
                                             !.watches = {Unsynced}]

\* Data classes in a directory of their own, and files out of a lane.
WithModels == WireLogic(Typical) @@
  (ModelFile :> [NoFile EXCEPT !.declares = {<<"class", <<"draft">>>>},
                               !.mentions = {<<"class", <<"draft">>>>}])
OutOfLane  == (Ui(<<"add">>) :> AddPage) @@
  (OptionsFile :> [NoFile EXCEPT !.braces = 1]) @@ (Pubspec :> NoFile)

Unstored == (<<"lib", <<"main">>>> :> [NoFile EXCEPT !.mentions = {AppClass(Typical)}]) @@
  (<<"providers", <<"note">>>> :> [RenderProviders(Model(Note)) EXCEPT !.literals = {},
                                                                    !.bad = {"ui_in_logic"}])

MCAnswers == {BuildUi(Typical, "none", {}), OtherNames, OneFile, Faulty,
              WireLogic(Typical), WithModels, OutOfLane, Unstored}

-----------------------------------------------------------------------------

Manifests ==
  {[prose |-> p, stray |-> s, broken |-> b, whole |-> w, lints |-> l] :
     p, s, b, w, l \in BOOLEAN}

\* The template generator on every small PRD, its faults on some; and a model
\* on two, with every manifest.
MCCases ==
  ByTemplates(PRDs({<<home, note>>, <<home, noteList>>, <<note, noteList>>, <<add, note>>},
                   {<<>>, <<Model(Note)>>, <<Model(Note), Model(HomeScreen)>>},
                   {Diary, Notes}))
  \cup ByTemplates(Prose \cup {OwnField(body), OwnField(note), NamedAdd, OneClass})
  \cup {Case([p EXCEPT !.theme = th], "templates", f, TemplateManifest) :
          p \in PRDs({<<home, note>>}, {<<Model(Note)>>}, {Diary}),
          f \in {"none", "undefined_provider", "setstate"}, th \in Themes}
  \cup {Case(Typical, "model", "none", m) : m \in Manifests}

MCNamedAdd   == ByTemplates({NamedAdd})
MCLostScreen == ByTemplates({OneClass})
=============================================================================
