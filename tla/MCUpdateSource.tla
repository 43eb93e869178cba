--------------------------- MODULE MCUpdateSource ---------------------------
(* Feeds, clients and release directories to check UpdateSource with.       *)
EXTENDS UpdateSource

Versions == 1..3

ChainsToAsk ==
  { << "signed manifest", "github" >>, << "manifest", "appcast" >>,
    << "appcast", "signed manifest" >> }
AppcastAlone == { << "appcast" >> }

------------------------------------------------------------------------------
(* Repositories of up to MinPage releases.                                  *)

asset(of, part, from) == [of |-> of, part |-> part, from |-> from]
package   == asset("mine", "package", None)
minisig   == asset("mine", "minisig", None)
delta(v)  == asset("mine", "delta", v)
deltasig(v) == asset("mine", "delta minisig", v)
sums      == asset("mine", "sums", None)
foreign   == asset("other", "package", None)

Uploads ==
  { << package, minisig, delta(1), deltasig(1), sums >>,
    << deltasig(1), delta(1), foreign, package, asset("other", "sums", None) >>,
    << delta(None), delta(2), minisig, package >>,
    << foreign, asset("other", "delta", 1), package, minisig, delta(1) >>,
    << foreign, sums, deltasig(2), delta(2) >> }

Releases ==
  [tag : Versions \union {None}, draft : {FALSE}, prerelease : BOOLEAN, assets : Uploads]
    \union [tag : {3}, draft : {TRUE}, prerelease : {FALSE}, assets : Uploads]

Repositories == {<< >>} \union {<< r >> : r \in Releases}
                \union {<< r, q >> : r, q \in Releases}

GitHubSettings ==
  [prereleases : BOOLEAN, history : 0..1, sums : {TRUE}, minisig : BOOLEAN]

------------------------------------------------------------------------------
(* Appcasts of up to two items, as this writer renders them and as others   *)
(* that publish checksums do.                                               *)

enclosure(os, signed) == [os |-> os, signed |-> signed, sum |-> TRUE]

Enclosures ==
  { << enclosure(None, TRUE) >>,
    << enclosure("windows", FALSE), enclosure("windows-x64", TRUE) >>,
    << enclosure("macos", TRUE), enclosure("linux", FALSE) >> }

plain ==
  [bundle |-> 1, short |-> 2, channel |-> None, arm64 |-> FALSE,
   minimum_system |-> None, maximum_system |-> None, minimum_update |-> None,
   informational |-> "never", enclosures |-> << enclosure(None, TRUE) >>]

Items ==
  {[plain EXCEPT !.bundle = b, !.short = s] :
     b \in Versions \union {Bad}, s \in {None, Bad, 3}}
  \union {[plain EXCEPT !.channel = c, !.informational = i] :
            c \in {None, "beta"}, i \in {"never", "always", "below"}}
  \union {[plain EXCEPT !.short = 3, !.minimum_system = l, !.maximum_system = h, !.arm64 = a] :
            l \in {None, 2}, h \in {None, 2}, a \in BOOLEAN}
  \union {[plain EXCEPT !.short = 3, !.minimum_update = 2]}
  \union {[plain EXCEPT !.short = s, !.enclosures = e] :
            s \in {2, 3}, e \in Enclosures}

Feeds ==
  LET written == {Appcast!Rendered(i) : i \in Items}
      others  == {plain, [plain EXCEPT !.short = 3]}
      items   == written \union others
  IN  {<< i >> : i \in items} \union {<< i, j >> : i, j \in items}

Systems ==
  [os : {"macos", "windows", "linux"}, channels : {{}, {"beta"}}, arm64 : BOOLEAN,
   system : {None}, field : {"short"}]
  \union
  [os : {"macos"}, channels : {{}}, arm64 : {TRUE},
   system : {1, 2, 3}, field : {"short", "bundle"}]

------------------------------------------------------------------------------
(* Release directories and the options they are built with.                 *)

name(i, suffix, os, arch) == [order |-> i, suffix |-> suffix, os |-> os, arch |-> arch]
dmg_arm == name(1, "dmg", "macos", "arm64")
dmg_x64 == name(2, "dmg", "macos", "x64")
zip_win == name(3, "zip", "windows", "x64")
notes   == name(4, "txt", "", "")

held(n, signed) == [name |-> n, dir |-> 1, minisig |-> signed]

Directories ==
  {{held(n, TRUE) : n \in names} : names \in SUBSET {dmg_arm, dmg_x64, zip_win, notes}}
  \union { {held(dmg_arm, FALSE), held(zip_win, TRUE)},
           {held(dmg_arm, TRUE), held(zip_win, FALSE)},
           {held(dmg_arm, TRUE), [held(dmg_arm, TRUE) EXCEPT !.dir = 2]} }

change(n, from, signed) == [asset |-> n, from |-> from, to |-> None, minisig |-> signed]

DeltaSets ==
  { {}, {change(dmg_arm, 1, TRUE)}, {change(dmg_arm, 1, FALSE)},
    {change(dmg_arm, Bad, TRUE), change(dmg_arm, 2, TRUE)},
    {change(zip_win, 1, TRUE)},
    {[change(dmg_x64, 1, TRUE) EXCEPT !.to = 2], change(dmg_x64, 2, TRUE)} }

target(os, arch) == [os |-> os, arch |-> arch]
defaults ==
  [include |-> None, exclude |-> {}, required |-> {target("macos", "arm64")},
   signatures |-> "Required", style |-> "Url", ed25519 |-> FALSE, sha256 |-> TRUE,
   unmatched |-> "Skip"]

BuildOptions ==
  {[defaults EXCEPT !.required = r, !.signatures = s] :
     r \in SUBSET {target("macos", "arm64"), target("windows", None)},
     s \in {"Required", "IfPresent", "Ignore"}}
  \union {[defaults EXCEPT !.include = i, !.exclude = x] :
            i \in {None, {"macos"}}, x \in {{}, {"windows"}}}
  \union {[defaults EXCEPT !.style = t, !.ed25519 = e, !.sha256 = h] :
            t \in {"Url", "Inline", "Both"}, e \in BOOLEAN, h \in BOOLEAN}
  \union {[defaults EXCEPT !.unmatched = "Error"]}

ReleaseTrees == [files : Directories, deltas : DeltaSets, opt : BuildOptions]

AssetSelectors ==
  { [os |-> "macos", arch |-> "arm64", format |-> None, pattern |-> "dmg"],
    [os |-> "windows", arch |-> None, format |-> "zip", pattern |-> None],
    [os |-> None, arch |-> None, format |-> None, pattern |-> "dmg"] }

==============================================================================
