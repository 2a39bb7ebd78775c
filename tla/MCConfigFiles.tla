--------------------------- MODULE MCConfigFiles ----------------------------
(* Command lines that make the sources of a setting differ.                *)
EXTENDS ConfigFiles, TLC

CONSTANTS a, b, pw

Line(config, slug, bundle, pass) ==
  [config |-> config,
   set |-> [Nothing EXCEPT !["slug"] = slug, !["bundle"] = bundle,
                           !["pass"] = pass]]

\* All defaults; a file that does not have the name of the slug, with a
\* bundle and a passphrase; another slug with the bundle of the first.
MCArgs == {Line(None, None, None, None),
           Line(b, None, b, pw),
           Line(None, b, a, None)}

\* Nothing, and a passphrase that may not be the one in the file.
MCEnvs == {Nothing, [Nothing EXCEPT !["pass"] = pw]}

\* A file with one setting and a key of its own.
HandWritten == [f \in {"note", "level"} |-> IF f = "note" THEN "n" ELSE "debug"]

MCByHand == {HandWritten}

MCSlugs == {a, b}

MCPasses == {pw}

ProcSymmetry == Permutations(Procs)

=============================================================================
