---------------------------- MODULE Conformance ----------------------------
(***************************************************************************)
(* The checks that need no toolchain:                                      *)
(*   src/ports/conformance.py  check_conformance                           *)
(*   src/ports/analyzer.py     StubAnalyzer                                *)
(* over an app as Templates describes one: paths to files, and a manifest. *)
(* A search in the text of a file is a question about the names in it; two *)
(* names meet in a search when one's words are found in the other's.       *)
(***************************************************************************)
EXTENDS Templates

CONSTANTS
  Begins,  \* pairs of words, the first the beginning of the second
  Files,   \* the paths under lib/ that an app may have
  Rank     \* their alphabetical order

\* The directories are lib/ui/, lib/providers/, lib/ itself, and any others.
ASSUME FilesAssumption ==
  /\ Files \subseteq STRING \X Seq(STRING)
  /\ {ScreenFile(n) : n \in Names} \cup {<<"providers", Snake[t]>> : t \in Texts}
       \cup {AppFile, MainFile} \subseteq Files
  /\ \A p \in Files : p[1] # Pubspec[1]
  /\ Rank \in [Files -> Nat] /\ \A p, q \in Files : Rank[p] = Rank[q] => p = q

\* Where a diagnostic is anchored, and its code.  One about a directory is put
\* in the file that stands for it: lib/ui/ in app.dart, lib/providers/ in
\* main.dart; its code decides whose it is.
Error(p, code) == [file |-> p, code |-> code]

In(app, dir) == {p \in DOMAIN app : p[1] = dir}
InUi(app)    == In(app, "ui")
NotUi(app)   == DOMAIN app \ InUi(app)
Tables(app)  == {p \in InUi(app) : app[p].table}    \* _DECLARES_ROUTES

Occurring(file) == file.declares \cup file.mentions

Word(w, v) == w = v \/ <<w, v>> \in Begins

\* The text of one name occurs in the text of another: all but the last of its
\* words are words of the other, the last begins one.
OccursAt(pat, words, k) ==
  /\ k + Len(pat) <= Len(words)
  /\ \A i \in 1 .. Len(pat) - 1 : words[k + i] = pat[i]
  /\ Word(pat[Len(pat)], words[k + Len(pat)])

Starts(pat, words) == OccursAt(pat, words, 0)
Inside(pat, words) == \E k \in 0 .. Len(words) : OccursAt(pat, words, k)

-----------------------------------------------------------------------------
\* _check_theme
CheckTheme(prd, app) ==
  {Error(AppFile, "theme_mismatch") :
     w \in {prd.theme} \ UNION {app[p].shows : p \in InUi(app)}}

\* _check_screens: the first class with the screen's name in its own, in the first
\* file that has one, and a reference to it from another file of lib/ui/.
Named(file, id) == {c \in ToSet(file.classes) : Inside(Snake[id], c)}

FirstClass(file, id) ==
  file.classes[SelectInSeq(file.classes, LAMBDA c : Inside(Snake[id], c))]

FirstOf(paths) == CHOOSE p \in paths : \A q \in paths : Rank[p] <= Rank[q]

\* Mutant: the file with the class is a reference too.
ScreenErrorsAnywhere(app, id) ==
  {Error(AppFile, "missing_screen") :
     x \in {id} \ {i \in {id} : \E p \in InUi(app) : Named(app[p], i) # {}}}

ScreenErrors(app, id) ==
  LET hits == {p \in InUi(app) : Named(app[p], id) # {}} IN
    IF hits = {} THEN {Error(AppFile, "missing_screen")}
    ELSE LET class == <<"class", FirstClass(app[FirstOf(hits)], id)>> IN
      {Error(AppFile, "unreachable_screen") :
         c \in {class} \ UNION {Occurring(app[p]) : p \in InUi(app) \ {FirstOf(hits)}}}

CheckScreens(prd, app) ==
  UNION {ScreenErrors(app, s.id) : s \in ToSet(prd.screens)}

\* _check_models: a provider that starts with the model's name, and its
\* collection, anywhere in the logic files.
Serves(v, name) ==
  /\ v[1] = "var" /\ Last(v[2]) = "provider"
  /\ Starts(Snake[name], v[2]) /\ Len(Snake[name]) < Len(v[2])

ModelErrors(app, m) ==
  IF \A p \in NotUi(app) : \A v \in Occurring(app[p]) : ~Serves(v, m.name)
  THEN {Error(MainFile, "missing_provider")}
  ELSE {Error(MainFile, "wrong_collection") :
          c \in {m.collection} \ UNION {app[p].literals : p \in NotUi(app)}}

CheckModels(prd, app) == UNION {ModelErrors(app, m) : m \in ToSet(prd.models)}

\* _check_form_fields, over the whole of lib/ui/.
FormErrors(prd, app, s) ==
  {Error(AppFile, "missing_form_field") :
     f \in {f.name : f \in ToSet(FieldsOf(prd, s))} \ UNION {app[p].captures : p \in InUi(app)}}

CheckForms(prd, app) ==
  UNION {FormErrors(prd, app, s) :
           s \in {s \in ToSet(prd.screens) : Shape(s) = "form"}}

\* _check_navigation_reachable: a way to the target in a file of lib/ui/ that is
\* no routes table and does not declare its class.
Reachable(app, id) ==
  \E p \in InUi(app) \ Tables(app) :
    ScreenClass(id)[2] \notin ToSet(app[p].classes) /\ Snake[id] \in app[p].ways

CheckNavigation(prd, app) ==
  UNION {{Error(ScreenFile(s.id), "unreachable_screen") :
            a \in {a \in Navigates(s) : ~Reachable(app, a.target)}} :
          s \in ToSet(prd.screens)}

\* _check_unwired_declarations: the name occurs once in lib/.
Declaring(app, n) == {p \in DOMAIN app : n \in app[p].declares}

CheckUnwired(app) ==
  {Error(p, "unwired_declaration") :
     p \in {p \in DOMAIN app : \E n \in app[p].declares :
              /\ Declaring(app, n) = {p}
              /\ \A q \in DOMAIN app : n \notin app[q].mentions}}

\* _check_duplicate_declarations: anchored in all of them but the first.
CheckDuplicates(app) ==
  {Error(p, "duplicate_declaration") :
     p \in {p \in DOMAIN app : \E n \in app[p].declares :
              \E q \in Declaring(app, n) : Rank[q] < Rank[p]}}

\* What is wrong with some files on their own.
Bad(app, paths, code) == {Error(p, code) : p \in {p \in paths : code \in app[p].bad}}

\* _check_single_entrypoint, _check_consumer_state_build_signature
CheckFiles(app) ==
  Bad(app, DOMAIN app \ {MainFile}, "misplaced_entrypoint")
    \cup Bad(app, DOMAIN app, "consumer_state_build_signature")

\* _check_pubspec_parses, _check_lint_package_installed
CheckManifest(m) ==
  {Error(Pubspec, c) : c \in (IF Parses(m) THEN {} ELSE {"unparseable_pubspec"})
                        \cup (IF m.lints THEN {} ELSE {"lints_not_installed"})}

Conform(prd, app, m) ==
  CheckTheme(prd, app) \cup CheckScreens(prd, app) \cup CheckModels(prd, app)
    \cup CheckForms(prd, app) \cup CheckNavigation(prd, app)
    \cup CheckUnwired(app) \cup CheckDuplicates(app) \cup CheckFiles(app)
    \cup CheckManifest(m)

-----------------------------------------------------------------------------
\* StubAnalyzer: setState and Firebase in the UI, widgets in the providers,
\* providers that no provider file declares, braces in three directories, a
\* manifest without a key that Flutter needs.
Declared(app) == UNION {app[p].provides : p \in In(app, "providers")}

Counted(app) == InUi(app) \cup In(app, "providers") \cup In(app, "lib")

Analyze(app, m) ==
  {Error(p, "undefined_provider") :
     p \in {p \in InUi(app) : ~(app[p].watches \subseteq Declared(app))}}
  \cup Bad(app, InUi(app), "setstate_in_ui") \cup Bad(app, InUi(app), "logic_in_ui")
  \cup Bad(app, In(app, "providers"), "ui_in_logic")
  \cup {Error(p, "unbalanced_braces") : p \in {p \in Counted(app) : app[p].braces # 0}}
  \cup {Error(Pubspec, "incomplete_pubspec") : x \in {m.whole} \ {TRUE}}

\* qa: the analyzer is not run on a manifest that does not parse.
Errors(prd, app, m) ==
  Conform(prd, app, m) \cup (IF Parses(m) THEN Analyze(app, m) ELSE {})
=============================================================================
