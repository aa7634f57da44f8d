--------------------------- MODULE MCLocalHistory ---------------------------
EXTENDS LocalHistory, TLC

CONSTANTS e, r1, r2, r3, v1, v2, h1, h2, m1, m2, m3

\* m3 is written with a URL, of which the log keeps what m1 is called.
MCRedacted == (m1 :> m1) @@ (m2 :> m2) @@ (m3 :> m1)

Install(version, owners, artifacts, sig) ==
  [ specs |-> << [name |-> 1, version |-> version] >>, selected |-> v1,
    maintainers |-> owners, artifacts |-> artifacts, signal |-> sig ]

Wheel(p, v, h) == [name |-> p, version |-> v, hash |-> h]

\* pip or npm install of package 1, staging it or only a dependency of it.
Installs ==
  { Install(Unversioned, owners, {Wheel(1, v1, h1)}, "none") :
      owners \in {{}, {m1}, {m2}, {m3}} } \cup
  { Install(Unversioned, owners, {Wheel(1, v1, h2)}, "none") : owners \in {{}, {m2}} }
\* Project installs, which name both packages, with or without artifacts.
Projects ==
  { [ specs |-> << [name |-> 2, version |-> v1], [name |-> 1, version |-> v1] >>,
      selected |-> Unversioned, maintainers |-> {}, artifacts |-> files, signal |-> "none" ] :
      files \in {{}, {Wheel(1, v1, h1)}} }
\* Two packages after the maintainers of the first are known: pipx install is
\* blocked then, python -m pip download is not.
Batches ==
  { [ specs |-> << [name |-> 2, version |-> Unversioned], [name |-> 1, version |-> Unversioned] >>,
      selected |-> v1, maintainers |-> {m2}, artifacts |-> {}, signal |-> sig ] :
      sig \in {"none", "block"} }
\* The other version, an unidentified artifact next to one of both hashes,
\* and an install that another stage has a question about.
Others ==
  { Install(v2, {}, {Wheel(1, v2, h2)}, "none"),
    Install(v1, {}, {Wheel(1, v1, h1), Wheel(1, v1, h2), Wheel(Unnamed, Unversioned, h1)}, "none"),
    Install(v1, {m1}, {Wheel(1, v1, h2)}, "prompt") }

MCReports == Installs \cup Projects \cup Batches \cup Others
\* A history with and without hashes, maintainers and the other version.
MCEarlier == Projects \cup { rep \in Batches : rep.signal = "none" } \cup
             { Install(v2, {}, {Wheel(1, v2, h2)}, "none") }

\* Runs that start together are interchangeable.
RunSymmetry == Permutations(Runs \ Earlier)
=============================================================================
