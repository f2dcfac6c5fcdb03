--------------------------- MODULE MCScrapeCall -----------------------------
(* A small instance of ScrapeCall for TLC.                                  *)
EXTENDS ScrapeCall, TLC

\* Subdomains of registered names, a name that only ends in the same letters,
\* and one that is registered when the settings say so.
FourSites == {<<"old", "reddit", "com">>, <<"pub", "substack", "com">>,
              <<"notreddit", "com">>, <<"www", "blog">>}

Machine(os, hklm, hkcu, chrome, google, plist, missing, custom) ==
    [os |-> os, missing |-> missing, custom |-> custom,
     found |-> [b \in Probes |->
        CASE b = "hklm" -> hklm [] b = "hkcu" -> hkcu [] b = "chrome" -> chrome
          [] b = "google" -> google [] OTHER -> plist]]

\* Chrome between two aliases and a custom domain; a version hidden by HKLM and
\* a missing dependency; Chrome older than every alias; a domain bound twice.
FourMachines == {Machine("linux", 0, 0, 0, 130, 0, {}, {<<"www", "blog">>}),
                 Machine("win32", 1, 131, 0, 0, 0, {"reddit"}, {<<"reddit", "com">>}),
                 Machine("darwin", 0, 0, 0, 0, 99, {}, {}),
                 Machine("win32", 131, 0, 0, 0, 0, {}, {<<"reddit", "com">>})}

SixAliases == <<116, 119, 120, 123, 124, 131>>

\* The calls differ in nothing but their name.
SymmetricCalls == Permutations(Tasks)
=============================================================================
