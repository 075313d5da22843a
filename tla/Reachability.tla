---------------------------- MODULE Reachability -----------------------------
(***************************************************************************)
(* The npm reachability analyser (tools/reachability/analyze.mjs): it      *)
(* reads a project's files in the order of the directory, gathers what     *)
(* each imports and accesses, and gives a verdict on one target: a         *)
(* package and a symbol of it that has the weakness.                       *)
(***************************************************************************)
EXTENDS Naturals, FiniteSets, SequencesExt

CONSTANTS
    SourceFiles,       \* the files listSourceFiles may find
    MaxStatements      \* bound: statements in all of them

VARIABLES
    project,    \* per file, whether it is there and parses, and its statements
    named,      \* the symbols the target names
    left,       \* the files still to be read
    bindings,   \* local names under which the target's package is imported
    members,    \* members used, by the path they are filed under
    verdict     \* of the target, or "none" while files are left

reachVars == <<project, named, left, bindings, members, verdict>>

------------------------------------------------------------------------------
\* "pkg" is the target's package, "pkg/sub" a path below it, "other" another package.
Paths == {"pkg", "pkg/sub", "other"}
Base(path) == IF path = "other" THEN "other" ELSE "pkg"

\* bind: import of a path under the local name x, whole or by name, or const x = require(path).
\* pick: a require taken apart, const { bad } = require("pkg").   use: x.bad or x.fine.
Statement == [do : {"bind"}, of : Paths] \cup [do : {"pick"}, of : {"pkg"}]
                \cup [do : {"use"}, of : {"bad", "fine"}]
Local == "x"

\* A file that does not parse is swept for the names it imports; one that cannot be read is skipped.
File == [is : {"parsed", "choked"}, code : SeqOf(Statement, MaxStatements)]
            \cup [is : {"unreadable", "absent"}, code : {<<>>}]

Imports(file) == {file.code[i].of : i \in {i \in DOMAIN file.code : file.code[i].do # "use"}}
BindsLocal(file) == {i \in DOMAIN file.code : file.code[i].do = "bind"}

\* Mutant: what a file that does not parse imports is not recorded.
FileBindingsParsed(file) ==
    IF file.is # "parsed" THEN {}
    ELSE {IF file.code[i].do = "bind" THEN Local ELSE "*" :
            i \in {i \in DOMAIN file.code : file.code[i].do # "use" /\ Base(file.code[i].of) = "pkg"}}

\* The names under which a file imports the package, "*" where its members cannot be told.
FileBindings(file) ==
    {IF file.is = "parsed" /\ file.code[i].do = "bind" THEN Local ELSE "*" :
        i \in {i \in DOMAIN file.code : file.code[i].do # "use" /\ Base(file.code[i].of) = "pkg"}}

\* The members a file uses through the local name once it is bound, all of them filed under
\* the path that the name is bound to last.
FileMembers(file) ==
    {<<file.code[b].of, file.code[u].of>> :
        b \in {b \in BindsLocal(file) : \A c \in BindsLocal(file) : c <= b},
        u \in {u \in DOMAIN file.code : /\ file.is = "parsed" /\ file.code[u].do = "use"
                                        /\ \E b \in BindsLocal(file) : b < u}}

Present == {f \in SourceFiles : project[f].is # "absent"}

\* The verdict in the order main decides it; used holds what is filed under the package itself.
Judge(binds, used) ==
    IF Present = {} THEN "Unknown"
    ELSE IF binds = {} THEN "NotReachable"
    ELSE IF named = {} \/ named \cap used # {} THEN "Reachable"
    ELSE IF "*" \in binds \/ used = {} THEN "Unknown"
    ELSE "NotReachable"

------------------------------------------------------------------------------
TypeOK ==
    /\ left \subseteq SourceFiles /\ named \subseteq {"bad"}
    /\ bindings \subseteq {Local, "*"} /\ members \subseteq Paths \X {"bad", "fine"}
    /\ verdict \in {"none", "Unknown", "NotReachable", "Reachable"}

Init ==
    /\ project \in {p \in [SourceFiles -> File] :
                      FoldFunction(LAMBDA f, n : Len(f.code) + n, 0, p) <= MaxStatements}
    /\ named \in SUBSET {"bad"}
    /\ left = Present /\ bindings = {} /\ members = {} /\ verdict = "none"

Read(f) ==
    /\ f \in left /\ left' = left \ {f}
    /\ IF project[f].is = "unreadable" THEN UNCHANGED <<bindings, members>>
       ELSE /\ bindings' = bindings \cup FileBindings(project[f])
            /\ members' = members \cup FileMembers(project[f])
    /\ UNCHANGED <<project, named, verdict>>

Report ==
    /\ left = {} /\ verdict = "none"
    /\ verdict' = Judge(bindings, {m \in {"bad", "fine"} : <<"pkg", m>> \in members})
    /\ UNCHANGED <<project, named, left, bindings, members>>

Next == Report \/ \E f \in SourceFiles : Read(f)

------------------------------------------------------------------------------
\* analyze.mjs:17: a project in which some file that parses binds a name once, to the package
\* itself, and then uses the target's symbol through it is Reachable, whatever the other
\* files hold and in whatever order they are read.
UsesAreFound ==
    \A f \in SourceFiles :
        (/\ verdict # "none" /\ project[f].is = "parsed" /\ named # {}
         /\ \E b, u \in DOMAIN project[f].code :
              /\ b < u /\ BindsLocal(project[f]) = {b}
              /\ project[f].code[b].of = "pkg" /\ project[f].code[u] = [do |-> "use", of |-> "bad"])
        => verdict = "Reachable"

\* analyze.mjs:19-20: a package is not called NotReachable when some file that could be read
\* imports it without telling the members it uses: the file did not parse, or takes it apart.
UnsureIsNotExonerated ==
    verdict = "NotReachable" =>
        \A f \in SourceFiles :
            /\ project[f].is = "choked" => ~\E p \in Imports(project[f]) : Base(p) = "pkg"
            /\ project[f].is = "parsed" => \A i \in DOMAIN project[f].code : project[f].code[i].do # "pick"
==============================================================================
