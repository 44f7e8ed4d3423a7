---------------------------- MODULE ReleaseAssets ----------------------------
(***************************************************************************)
(* Which asset of a release `ds4go install` takes, and which ones          *)
(* `ds4go install --list` shows and marks (internal/install).  The two     *)
(* commands go opposite ways: the first writes the names it would accept   *)
(* (candidateAssetNames) and looks for them, the second takes the names of *)
(* the release apart (catalogAssetFromReleaseAsset).                       *)
(*                                                                         *)
(* A name is the sequence of its dash-separated parts with the archive     *)
(* suffix at the end.                                                      *)
(***************************************************************************)
EXTENDS Naturals, SequencesExt

Systems == {"darwin", "linux", "windows"}
Archs == {"amd64", "arm64"}
Backends == {"metal", "cuda", "rocm", "cpu"}
Variants == {"", "sbsa", "gb10"}      \* "" and "sbsa" ask for the generic build

\* What a user asks for; defaultBackend and isGB10Func have filled the gaps.
Requests == [os : Systems, arch : Archs, backend : Backends, variant : Variants]

osAssetNames(os) == IF os = "darwin" THEN <<"darwin", "macos">> ELSE <<os>>
archAssetNames(arch) == IF arch = "amd64" THEN <<"amd64", "x86_64">> ELSE <<arch>>
archiveExt(os) == IF os = "windows" THEN ".zip" ELSE ".tar.gz"

\* A variant of namesFor: the generic build comes first.
namesForGenericFirst(version, r, os, arch) ==
    LET Named(prefix, rest) == <<prefix>> \o rest \o <<r.backend, archiveExt(r.os)>>
    IN  << Named("libds4", <<version, os, arch>>), Named("ds4", <<version, os, arch>>),
           Named("libds4", <<os, arch>>) >>
        \o (IF r.variant \in {"", "sbsa"} THEN <<>>
            ELSE << Named("libds4", <<version, os, arch, r.variant>>),
                    Named("ds4", <<version, os, arch, r.variant>>) >>)

\* The names for one spelling of the system and the architecture: the hardware
\* variant first, the generic build as the fallback.
namesFor(version, r, os, arch) ==
    LET Named(prefix, rest) == <<prefix>> \o rest \o <<r.backend, archiveExt(r.os)>>
    IN  (IF r.variant \in {"", "sbsa"} THEN <<>>
         ELSE << Named("libds4", <<version, os, arch, r.variant>>),
                 Named("ds4", <<version, os, arch, r.variant>>) >>)
        \o << Named("libds4", <<version, os, arch>>), Named("ds4", <<version, os, arch>>),
              Named("libds4", <<os, arch>>) >>

candidateAssetNames(version, r) ==
    FlattenSeq([i \in DOMAIN osAssetNames(r.os) |->
        FlattenSeq([j \in DOMAIN archAssetNames(r.arch) |->
            namesFor(version, r, osAssetNames(r.os)[i], archAssetNames(r.arch)[j])])])

\* resolveAsset: the first candidate that the release has, or none.
Found(version, r, release) ==
    LET c == candidateAssetNames(version, r)
        hits == {i \in DOMAIN c : c[i] \in release}
    IN  IF hits = {} THEN <<>>
        ELSE c[CHOOSE i \in hits : \A j \in hits : i <= j]

normalizeOS(s) == CASE s = "macos" -> "darwin" [] s \in Systems -> s [] OTHER -> ""
normalizeArch(s) == CASE s = "x86_64" -> "amd64" [] s \in Archs -> s [] OTHER -> ""

\* catalogAssetFromReleaseAsset: from the end, backend, variant if there is one,
\* architecture and system; at least four parts without the variant.
Unparsed == [os |-> "", arch |-> "", backend |-> "", variant |-> ""]
Parsed(name) ==
    LET all == Front(name)
        n == Len(all)
        variant == IF n >= 4 /\ all[n - 1] = "gb10" THEN "gb10" ELSE ""
        parts == IF variant = "" THEN all ELSE Remove(all, variant)
        m == Len(parts)
        a == [os |-> normalizeOS(parts[m - 2]), arch |-> normalizeArch(parts[m - 1]),
              backend |-> parts[m], variant |-> variant]
    IN  IF /\ name[Len(name)] \in {".tar.gz", ".tgz", ".zip"} /\ m >= 4
           /\ a.backend \in Backends /\ a.os # "" /\ a.arch # ""
        THEN a ELSE Unparsed

\* Catalog: the assets whose names can be read, of what was asked for; "" and
\* "auto" do not filter.
Listed(r, release) ==
    {n \in release : LET a == Parsed(n) IN
        /\ a # Unparsed
        /\ r.os \in {"", a.os} /\ r.arch \in {"", a.arch}
        /\ r.backend \in {"", "auto", a.backend}}

\* catalogAssetSelected: the request's own build, under one of the names that
\* install would take.
Selected(version, r, name) ==
    LET a == Parsed(name) IN
    /\ "" \notin {r.os, r.arch, r.backend} /\ r.backend # "auto"
    /\ a.variant = (IF r.variant = "sbsa" THEN "" ELSE r.variant)
    /\ \E i \in DOMAIN candidateAssetNames(version, r) :
           candidateAssetNames(version, r)[i] = name

\* A release spells the system and the architecture in one way; its assets, of
\* the generic build, the gb10 build or both, in any of the forms of a name.
Releases(version, r) ==
    UNION {SUBSET ToSet(namesFor(version, [r EXCEPT !.variant = "gb10"], os, arch)) :
              os \in ToSet(osAssetNames(r.os)), arch \in ToSet(archAssetNames(r.arch))}

\* What install takes is what the list marks: of the system, architecture and
\* backend asked for, never a gb10 build for who did not ask for it, and never a
\* fallback while the list marks an asset of the variant that was asked for.
TakesTheMarked(version, r, release) ==
    LET f == Found(version, r, release)
        marked == {n \in Listed(r, release) : Selected(version, r, n)}
    IN  /\ marked # {} => f \in marked
        /\ f # <<>> =>
              LET a == Parsed(f) IN
              /\ <<a.os, a.arch, a.backend>> = <<r.os, r.arch, r.backend>>
              /\ a.variant # "" => r.variant = a.variant
=============================================================================
