------------------------------ MODULE ImageSpec ------------------------------
(***************************************************************************)
(* From image.toml to a Containerfile (images/dsl.rs, images/builder.rs).    *)
(*                                                                         *)
(* The tables of a spec are hash maps, so that the generator meets the      *)
(* toolchains, and the variables, in any order.  Kept of an instruction is  *)
(* what the ones after it depend on: the PATH, and the programs it calls.   *)
(***************************************************************************)
EXTENDS Integers, FiniteSets, SequencesExt

CONSTANTS
    Specs   \* image.toml files: records with name, extends, toolchains (a
            \* function from keys to the fields given), env (a function from
            \* variables to sequences of directories), dnf, pre, post, snippets

ASSUME SpecsAssumption == \A spec \in Specs : IsFiniteSet(DOMAIN spec.env)

VARIABLES
    containerfile   \* what the last call has generated: the spec and the lines

-----------------------------------------------------------------------------
(* Broken variants of the definitions below.                                *)

\* Every toolchain starts from the PATH of rocky-base.
AddToPathAnew(dir) == <<"path", <<dir, "{path}">>>>

-----------------------------------------------------------------------------
(* images/dsl.rs.                                                           *)

Required == [rust |-> "channel", node |-> "version", python |-> "version",
             go |-> "version", elan |-> "channel"]

\* deserialize_toolchains: known keys, each with its required field.
Deserializes(spec) ==
    \A kind \in DOMAIN spec.toolchains :
        kind \in DOMAIN Required /\ Required[kind] \in spec.toolchains[kind]

\* parse: the root, a child of rocky-base, or a child of a stronghold image.
Parses(spec) ==
    /\ Deserializes(spec)
    /\ \/ spec.name = "rocky-base" /\ spec.extends = ""
       \/ spec.extends \in {"rocky-base", "stronghold/X"}

-----------------------------------------------------------------------------
(* images/builder.rs.                                                       *)

DefaultPath == <<"/usr/bin">>

\* ENV PATH="<dir>:${PATH}".
AddToPath(dir) == <<"path", <<dir, "${PATH}">>>>
Calls(program) == <<"run", program>>

Each(program, n) == [i \in 1 .. n |-> Calls(program)]

\* The lines of one toolchain.
ToolchainLines(kind, fields) ==
    CASE kind = "rust" ->
           <<Calls("curl"), AddToPath("cargo")>>
           \o Each("cargo", IF "date" \in fields THEN 2 ELSE 1)    \* rustup
           \o Each("cargo", IF "targets" \in fields THEN 1 ELSE 0)
           \o Each("cargo", IF "components" \in fields THEN 1 ELSE 0)
      [] kind = "node"   -> <<Calls("curl"), Calls("dnf"), Calls("npm")>>
      [] kind = "python" -> <<Calls("dnf")>>
      [] kind = "go"     -> <<Calls("curl"), AddToPath("go")>>
      [] kind = "elan"   -> <<Calls("curl"), AddToPath("elan")>>

\* substitute_placeholders: {path} is the PATH of rocky-base, not the one that
\* the toolchains have extended.
EnvLines(spec, vars) ==
    [i \in DOMAIN vars |-> IF vars[i] = "PATH" THEN <<"path", spec.env["PATH"]>>
                                               ELSE <<"env", vars[i]>>]

If(present, lines) == IF present THEN lines ELSE <<>>

\* The lines, for one order of each map.
Containerfile(spec, kinds, vars) ==
    <<<<"from", "stronghold/", spec.extends>>>>
    \o If(spec.pre, <<Calls("pre")>>)
    \o If(spec.dnf, <<Calls("dnf")>>)
    \o FlattenSeq([i \in DOMAIN kinds |-> ToolchainLines(kinds[i], spec.toolchains[kinds[i]])])
    \o EnvLines(spec, vars)
    \o If(spec.post, <<Calls("post")>>)
    \o If(spec.snippets, <<Calls("snippet")>>)

NoFile == [spec |-> <<>>, lines |-> <<>>]

\* generate_containerfile, for the orders in which the maps give their keys.
Generate ==
    \E spec \in {t \in Specs : Parses(t)} :
    \E kinds \in SetToSeqs(DOMAIN spec.toolchains), vars \in SetToSeqs(DOMAIN spec.env) :
        containerfile' = [spec |-> spec, lines |-> Containerfile(spec, kinds, vars)]

-----------------------------------------------------------------------------
(* What a Containerfile builds.                                             *)

\* What one instruction leaves of the PATH before it.
After(path, line) ==
    IF line[1] # "path" THEN path
    ELSE FlattenSeq([i \in DOMAIN line[2] |->
            CASE line[2][i] = "${PATH}" -> path
              [] line[2][i] = "{path}"  -> DefaultPath
              [] OTHER                  -> <<line[2][i]>>])

\* The directories of the PATH after the instructions.
PathAfter(lines) ==
    LET path[n \in 0 .. Len(lines)] ==
            IF n = 0 THEN DefaultPath ELSE After(path[n - 1], lines[n])
    IN  path[Len(lines)]

OnPath(dir, lines) == \E i \in DOMAIN PathAfter(lines) : PathAfter(lines)[i] = dir

Installs == [rust |-> "cargo", go |-> "go", elan |-> "elan"]

-----------------------------------------------------------------------------
(* Properties.                                                              *)

\* Whatever the order in which the hash map gives the toolchains, each finds
\* its own programs while it is installed, and all of them are on the PATH of
\* the image, unless its env section sets a PATH (generate_containerfile).
ToolchainsOnPath ==
    LET spec == containerfile.spec
        lines == containerfile.lines
    IN  containerfile # NoFile =>
          /\ \A i \in DOMAIN lines :
               lines[i] = Calls("cargo") => OnPath("cargo", SubSeq(lines, 1, i - 1))
          /\ "PATH" \notin DOMAIN spec.env =>
               \A kind \in DOMAIN spec.toolchains \cap DOMAIN Installs :
                   OnPath(Installs[kind], lines)
=============================================================================
