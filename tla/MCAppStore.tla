----------------------------- MODULE MCAppStore -----------------------------
\* A launcher without a manifest, a settings app whose manifest states no
\* build, and other apps with one of build 1.
EXTENDS AppStore
MCManifest == [a \in Apps |-> IF a = Launcher THEN 0 ELSE IF a = Settings THEN -1 ELSE 1]
=============================================================================
