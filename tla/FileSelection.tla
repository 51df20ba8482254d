---------------------------- MODULE FileSelection ----------------------------
(***************************************************************************)
(* determine_relevant_files, the program that every build of the stack     *)
(* starts with: it reads the kconfig result and the family model and       *)
(* writes the list of source and aspect files to weave and compile, and    *)
(* the #defines that the same files are configured by.  A family model is  *)
(* a tree of nodes, given here as a function from node names to records;   *)
(* a path is the sequence of its components.                               *)
(***************************************************************************)
EXTENDS Naturals, Sequences, SequencesExt

CONSTANTS
  Trees,     \* family models: functions from node names, "root" among them
  Configs,   \* kconfig results: sequences of lines [kind, key, value]
  Commands,  \* command lines, with which of the files can be opened
  Base       \* base_directory, as a path

VARIABLES
  pc,        \* the phase of main(), or "exit"
  opts, tree, config,   \* the input: command line, family model, kconfig lines
  kparser,   \* [enabled, keyvalue]: the maps of the kconfigparser
  stack,     \* active node() calls: [node, i], i the next entry of comp
  mdir,      \* FeatureToFiles::mdir
  result,    \* what the last finished node() returned
  files,     \* output_files_stream
  defines,   \* output_definitions_stream
  status     \* exit status

input == <<opts, tree, config>>
walk == <<stack, mdir, result, files>>
vars == <<pc, input, kparser, walk, defines, status>>

Init ==
  /\ pc = "options" /\ opts \in Commands /\ tree \in Trees /\ config \in Configs
  /\ kparser = [enabled |-> {}, keyvalue |-> <<>>]
  /\ stack = <<>> /\ mdir = Base /\ result = TRUE /\ files = <<>>
  /\ defines = {} /\ status = 0

Fail == pc' = "exit" /\ status' = 1 /\ UNCHANGED <<input, kparser, walk, defines>>

-----------------------------------------------------------------------------
(* main(): options, kconfig result, definitions.                           *)

definitions == opts.d # "none"
featureFiles == opts.o # "none"

\* The option loop and the error handling behind it.
Refused ==
  \/ opts.unknown
  \/ ~opts.writable /\ "file" \in {opts.o, opts.d}
  \/ ~opts.k /\ (definitions \/ ~opts.a)
  \/ ~opts.f /\ (~definitions \/ featureFiles)
  \/ "file" \notin {opts.o, opts.d}

ParseOptions ==
  /\ pc = "options"
  /\ \/ Refused /\ Fail
     \/ ~Refused /\ pc' = "kconfig" /\ UNCHANGED <<input, kparser, walk, defines, status>>

\* load_kconfig_file.  std::map::insert keeps the first value of a key.
load_kconfig_file(lines) ==
  LET Is(kind) == {i \in DOMAIN lines : lines[i].kind = kind}
      Of(k) == {i \in Is("value") : lines[i].key = k}
  IN  [enabled  |-> {lines[i].key : i \in Is("yes")},
       keyvalue |-> [k \in {lines[i].key : i \in Is("value")} |->
                       lines[CHOOSE i \in Of(k) : \A j \in Of(k) : i <= j].value]]

LoadKconfig ==
  /\ pc = "kconfig"
  /\ \/ (definitions \/ ~opts.a) /\ ~opts.kreadable /\ Fail
     \/ /\ definitions \/ ~opts.a => opts.kreadable
        /\ kparser' = IF definitions \/ ~opts.a THEN load_kconfig_file(config) ELSE kparser
        /\ pc' = "definitions"
        /\ UNCHANGED <<input, walk, defines, status>>

Values == {<<k, kparser.keyvalue[k]>> : k \in DOMAIN kparser.keyvalue}

\* Mutant: the enabled features are not written.
DefinitionsOfValues == Values

Definitions == Values \cup {<<k>> : k \in kparser.enabled}

OutputDefinitions ==
  /\ pc = "definitions"
  /\ defines' = IF definitions THEN Definitions ELSE {}
  /\ pc' = IF featureFiles THEN "relation" ELSE "exit"
  /\ UNCHANGED <<input, kparser, walk, status>>

\* The family model is opened, parsed and handed to FeatureToFiles.
ReadRelation ==
  /\ pc = "relation"
  /\ \/ ~opts.freadable /\ Fail
     \/ /\ opts.freadable
        /\ pc' = "walk" /\ stack' = <<[node |-> "root", i |-> 0]>>
        /\ UNCHANGED <<input, kparser, mdir, result, files, defines, status>>

-----------------------------------------------------------------------------
(* FeatureToFiles                                                          *)

cd(dir, sub) == dir \o sub

up(dir) == IF Len(dir) > 1 THEN Front(dir) ELSE dir

\* One word of a depends string: "not", "and", "or", "?" for what is not
\* understood, and any other string for "&" and that feature.
DependsWord(s, sub) ==
  LET enabled == (sub \in kparser.enabled) # s.negate
  IN  CASE s.returned \/ (s.all_depend /\ ~s.ok) -> s
        [] sub = "not" -> [s EXCEPT !.negate = TRUE]
        [] sub = "and" -> [s EXCEPT !.all_depend = TRUE, !.min_one = FALSE, !.negate = FALSE]
        [] sub = "or"  -> [s EXCEPT !.min_one = TRUE, !.all_depend = FALSE, !.negate = FALSE]
        [] sub = "?"   -> [s EXCEPT !.returned = TRUE, !.ok = FALSE]
        [] OTHER -> [s EXCEPT !.ok = IF s.min_one THEN s.ok \/ enabled ELSE s.ok /\ enabled]

checkDepends(depends) ==
  FoldLeft(DependsWord,
           [ok |-> TRUE, negate |-> FALSE, all_depend |-> FALSE, min_one |-> FALSE, returned |-> FALSE],
           depends).ok

Top == tree[Last(stack).node]

\* node() returns r with the directory dir: to component() of its caller,
\* which goes on with the next entry or gives up, or to the constructor.
Return(r, dir) ==
  LET caller == Front(stack) IN
  /\ stack' = IF r \/ caller = <<>> THEN caller
              ELSE [caller EXCEPT ![Len(caller)].i = Len(tree[Last(caller).node].comp) + 1]
  /\ result' = r /\ mdir' = dir
  /\ IF caller = <<>> THEN pc' = "exit" /\ status' = (IF r THEN 0 ELSE 1)
                      ELSE UNCHANGED <<pc, status>>
  /\ UNCHANGED <<input, kparser, defines>>

\* node() up to the loop over comp: a node whose dependencies are not met is
\* left out, the others write their files and descend.
NodeEnter ==
  /\ pc = "walk" /\ Last(stack).i = 0
  /\ LET dir == cd(mdir, Top.subdir)
         met == opts.a \/ Top.depends = <<>> \/ checkDepends(Top.depends)
     IN  \/ ~met /\ Return(TRUE, mdir) /\ UNCHANGED files
         \/ /\ met /\ files' = files \o [k \in DOMAIN Top.files |-> Append(dir, Top.files[k])]
            /\ IF Top.array
                 THEN /\ stack' = [stack EXCEPT ![Len(stack)].i = 1]
                      /\ mdir' = dir /\ result' = TRUE
                      /\ UNCHANGED <<pc, input, kparser, defines, status>>
                 ELSE Return(FALSE, dir)

\* component(): the next entry of comp, which is to be an object.
Component ==
  /\ pc = "walk" /\ Last(stack).i \in DOMAIN Top.comp
  /\ LET entry == Top.comp[Last(stack).i] IN
     IF entry \in DOMAIN tree
       THEN /\ stack' = Append([stack EXCEPT ![Len(stack)].i = @ + 1], [node |-> entry, i |-> 0])
            /\ UNCHANGED result
       ELSE stack' = [stack EXCEPT ![Len(stack)].i = Len(Top.comp) + 1] /\ result' = FALSE
  /\ UNCHANGED <<pc, input, kparser, mdir, files, defines, status>>

\* Mutant: up() is called for every node, not only for one with a subdir.
NodeLeaveAlwaysUp ==
  /\ pc = "walk" /\ Last(stack).i > Len(Top.comp)
  /\ Return(result, up(mdir))
  /\ UNCHANGED files

\* Mutant: the result of component() is dropped.
NodeLeaveTrue ==
  /\ pc = "walk" /\ Last(stack).i > Len(Top.comp)
  /\ Return(TRUE, IF Top.subdir = <<>> THEN mdir ELSE up(mdir))
  /\ UNCHANGED files

NodeLeave ==
  /\ pc = "walk" /\ Last(stack).i > Len(Top.comp)
  /\ Return(result, IF Top.subdir = <<>> THEN mdir ELSE up(mdir))
  /\ UNCHANGED files

Next ==
  \/ ParseOptions \/ LoadKconfig \/ OutputDefinitions \/ ReadRelation
  \/ NodeEnter \/ Component \/ NodeLeave

Spec == Init /\ [][Next]_vars

-----------------------------------------------------------------------------
(* What the outputs have to be, read off the family model directly.        *)

Features(d) == {i \in DOMAIN d : d[i] \notin {"not", "and", "or", "?"}}
Literal(d, i) == (d[i] \in kparser.enabled) # (i > 1 /\ d[i - 1] = "not")

\* The family models of the stack chain literals by "and" or by "or" only; a
\* string that is not understood selects nothing and is no failure.
Met(d) ==
  /\ "?" \notin Range(d)
  /\ IF "or" \in Range(d) THEN \E i \in Features(d) : Literal(d, i)
                          ELSE \A i \in Features(d) : Literal(d, i)

\* The nodes selected at and below n, in order, each with its directory.
RECURSIVE SelectedNodes(_, _)
SelectedNodes(n, dir) ==
  IF n \notin DOMAIN tree \/ ~(opts.a \/ Met(tree[n].depends)) THEN <<>>
  ELSE LET here == dir \o tree[n].subdir
       IN  <<[node |-> n, dir |-> here]>>
             \o FlattenSeq([k \in DOMAIN tree[n].comp |-> SelectedNodes(tree[n].comp[k], here)])

Nodes == SelectedNodes("root", Base)
Succeeded == pc = "exit" /\ status = 0
Walks == /\ ~Refused /\ featureFiles /\ opts.freadable
         /\ definitions \/ ~opts.a => opts.kreadable

(***************************************************************************)
(* A run that succeeds has written the files of exactly the nodes that     *)
(* the configuration selects together with all their ancestors, each under *)
(* the directories of its ancestors: the cd() and up() calls of node() are *)
(* balanced through every early return, although up() takes one component  *)
(* off and the subdirectory "../api" of the family model has two.          *)
(***************************************************************************)
FilesExact ==
  Succeeded /\ featureFiles =>
    files = FlattenSeq([k \in DOMAIN Nodes |->
              [j \in DOMAIN tree[Nodes[k].node].files |->
                 Append(Nodes[k].dir, tree[Nodes[k].node].files[j])]])

(***************************************************************************)
(* When the command line is accepted and the files can be read, the        *)
(* program fails if and only if a selected node is malformed, however      *)
(* deep: the failure of an inner node() reaches main() through component() *)
(* at every level.                                                         *)
(***************************************************************************)
MalformedReported ==
  pc = "exit" /\ Walks =>
    (status = 1 <=> \E k \in DOMAIN Nodes :
                      LET n == tree[Nodes[k].node]
                      IN  ~n.array \/ \E j \in DOMAIN n.comp : n.comp[j] \notin DOMAIN tree)

(***************************************************************************)
(* The two outputs of one run agree: a feature that a written file depends *)
(* on is #defined, so the woven code is configured by what selected it.    *)
(***************************************************************************)
FilesAreDefined ==
  Succeeded /\ definitions /\ featureFiles /\ ~opts.a =>
    \A k \in DOMAIN Nodes :
      LET d == tree[Nodes[k].node].depends
      IN  "or" \notin Range(d) =>
            \A i \in Features(d) :
              (i > 1 /\ d[i - 1] = "not") # (<<d[i]>> \in defines)
=============================================================================
