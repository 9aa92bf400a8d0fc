------------------------------ MODULE Onboarding ------------------------------
(***************************************************************************)
(* scripts/onboard_brand.py: staff import a brand's folder of raw photos   *)
(* and of finished posts, as often as the folder grows, several of them    *)
(* perhaps at once; and the look that a brand has from it                  *)
(* (creative/brandkit.py).  A run reads what is stored, then the folder    *)
(* and the model's answers for minutes, then writes files and kit in one   *)
(* transaction and the style anchors in another.                           *)
(***************************************************************************)
EXTENDS Integers, Sequences, FiniteSets

CONSTANTS Staff,
          RAW, POOR,     \* raw photos, and those too small or too soft
          POSTS,         \* finished posts of our designers
          STYLE,         \* file -> the layout the model reads in it
          LOOKS,         \* look -> its family of layouts, the first its default
          LAYOUTS,       \* every layout, in order
          MAX_RUNS, MAX_LAPSES  \* bounds: runs, answers that do not come

Files == RAW \union POSTS

ASSUME OnboardingConstants ==
  /\ POOR \subseteq RAW /\ RAW \intersect POSTS = {} /\ DOMAIN STYLE = Files
  /\ \A f \in Files : \E i \in DOMAIN LAYOUTS : LAYOUTS[i] = STYLE[f]
  /\ IsFiniteSet(Files) /\ {MAX_RUNS, MAX_LAPSES} \subseteq Nat

VARIABLES folder,     \* lane -> the files in it
          assets,     \* <<lane, file>>: one row per onboarding key (migration 0016)
          anchors,    \* references whose style anchor is in brand_memory
          prefs,      \* brand.template_prefs
          kit,        \* the references the brand's kit was decided from
          run, runs, lapses, overlapped, asked

onboardingVars ==
  <<folder, assets, anchors, prefs, kit, run, runs, lapses, overlapped, asked>>

NoFiles == [lane \in {"photo", "reference"} |-> {}]

NoRun == [at |-> "idle", keys |-> {}, anchored |-> {}, taken |-> NoFiles, photos |-> {},
          new |-> {}, read |-> {}, well |-> TRUE]

OnboardingInit ==
  /\ folder = NoFiles
  /\ assets = {} /\ anchors = {} /\ kit = {}
  /\ prefs = [look |-> "none", family |-> <<>>, seeded |-> FALSE]
  /\ run = [s \in Staff |-> NoRun]
  /\ runs = 0 /\ lapses = 0 /\ overlapped = FALSE /\ asked = {}

-----------------------------------------------------------------------------
\* The most common value of a set of references, ties in the order of LAYOUTS.
Dominant(refs) ==
  LET votes(i) == Cardinality({f \in refs : STYLE[f] = LAYOUTS[i]})
  IN LAYOUTS[CHOOSE i \in DOMAIN LAYOUTS :
       \A j \in DOMAIN LAYOUTS \ {i} : votes(j) < votes(i) \/ (votes(j) = votes(i) /\ i < j)]

\* The look whose family reaches for the layout first; of equals, the first by name.
LookRank(look, layout) ==
  IF \E i \in DOMAIN LOOKS[look].family : LOOKS[look].family[i] = layout
  THEN CHOOSE i \in DOMAIN LOOKS[look].family : LOOKS[look].family[i] = layout
  ELSE Len(LAYOUTS) + 1

LookForTemplate(layout) ==
  CHOOSE l \in DOMAIN LOOKS : \A k \in DOMAIN LOOKS \ {l} :
    LookRank(l, layout) < LookRank(k, layout)
      \/ (LookRank(l, layout) = LookRank(k, layout) /\ LOOKS[l].order < LOOKS[k].order)

\* apply: the family goes with the look; where the look came from is not touched.
Apply(look) == [prefs EXCEPT !.look = look, !.family = <<>>]

SeedFromReferences(refs) ==
  LET layout == Dominant(refs)
      others == SelectSeq(LOOKS[LookForTemplate(layout)].family, LAMBDA t : t # layout)
  IN [Apply(LookForTemplate(layout)) EXCEPT !.family = <<layout>> \o others, !.seeded = TRUE]

-----------------------------------------------------------------------------
\* The team's Drive folder: files are added, now and then to the wrong side.
AddFile ==
  /\ \E lane \in DOMAIN folder, f \in Files \ (folder["photo"] \union folder["reference"]) :
       folder' = [folder EXCEPT ![lane] = @ \union {f}]
  /\ UNCHANGED <<assets, anchors, prefs, kit, run, runs, lapses, overlapped, asked>>

\* known_keys, known_refs and earlier_references.
BeginRun(s) ==
  /\ run[s].at = "idle" /\ runs < MAX_RUNS
  /\ runs' = runs + 1
  /\ overlapped' = (overlapped \/ \E t \in Staff : run[t].at # "idle")
  /\ run' = [run EXCEPT ![s] = [NoRun EXCEPT !.at = "begun", !.keys = assets, !.anchored = anchors]]
  /\ UNCHANGED <<folder, assets, anchors, prefs, kit, lapses, asked>>

PhotosToStore(keys) ==
  {f \in folder["photo"] : <<"photo", f>> \notin keys /\ f \notin POOR}

ReferencesToRead_FilesOnly(keys, anchored) ==
  {f \in folder["reference"] : <<"reference", f>> \notin keys}

\* A file and its anchor are two questions: a file that is stored may not have been read.
ReferencesToRead(keys, anchored) ==
  {f \in folder["reference"] : <<"reference", f>> \notin keys \/ f \notin anchored}

\* plan_*, screen_folders and read_references: without a model nothing is judged or
\* read; otherwise a judgement may fail, which keeps the file, and so may a reading, which
\* refuses it.  A reference already on file is not judged again.
Decide(s) ==
  LET photos == PhotosToStore(run[s].keys)
      refs == ReferencesToRead(run[s].keys, run[s].anchored)
      unjudged == {f \in refs : <<"reference", f>> \notin run[s].keys}
  IN /\ run[s].at = "begun"
     /\ \/ /\ run' = [run EXCEPT ![s].at = "decided", ![s].taken = folder,
                        ![s].photos = photos, ![s].new = unjudged, ![s].well = FALSE]
           /\ lapses' = lapses + 1 /\ UNCHANGED asked
        \/ \E mute \in SUBSET (photos \union unjudged), unread \in SUBSET refs :
             LET misplaced == ((photos \intersect POSTS) \union (unjudged \intersect RAW)) \ mute
                 kept == refs \ (misplaced \union unread)
                 failures == Cardinality(mute) + Cardinality(unread)
             IN /\ unread \intersect misplaced = {}
                /\ run' = [run EXCEPT ![s].at = "decided", ![s].taken = folder,
                             ![s].photos = photos \ misplaced,
                             ![s].new = kept \intersect unjudged,
                             ![s].read = kept, ![s].well = (failures = 0)]
                /\ lapses' = lapses + failures
                /\ asked' = asked \union photos \union unjudged
     /\ lapses' <= MAX_LAPSES
     /\ UNCHANGED <<folder, assets, anchors, prefs, kit, runs, overlapped>>

KitOf_ReadNow(s) == run[s].read

\* The whole set: what was read before and what this run has read.
KitOf(s) == run[s].anchored \union run[s].read

\* The files and the kit, in one transaction; a file that another run has stored
\* meanwhile is left to it.
Import(s) ==
  LET lanes == ({"photo"} \X run[s].photos) \union ({"reference"} \X run[s].new) IN
  /\ run[s].at = "decided"
  /\ assets' = assets \union lanes
  /\ IF run[s].read = {} THEN UNCHANGED <<kit, prefs>>
     ELSE kit' = KitOf(s) /\ prefs' = SeedFromReferences(KitOf(s))
  /\ run' = [run EXCEPT ![s].at = "imported"]
  /\ UNCHANGED <<folder, anchors, runs, lapses, overlapped, asked>>

\* The anchors, all in one transaction: Voyage is asked for each.
Anchor(s) ==
  /\ run[s].at = "imported"
  /\ anchors' = anchors \union run[s].read
  /\ run' = [run EXCEPT ![s].at = "done"]
  /\ UNCHANGED <<folder, assets, prefs, kit, runs, lapses, overlapped, asked>>

\* Voyage is down (exit 1), or its key is unset (exit 0): the import stands.
NotAnchored(s) ==
  /\ run[s].at = "imported" /\ lapses < MAX_LAPSES
  /\ lapses' = lapses + 1
  /\ run' = [run EXCEPT ![s].at = "done", ![s].well = FALSE]
  /\ UNCHANGED <<folder, assets, anchors, prefs, kit, runs, overlapped, asked>>

\* The run is over, was a dry run, failed on the way or was interrupted.
EndRun(s) ==
  /\ run[s].at # "idle"
  /\ run' = [run EXCEPT ![s] = NoRun]
  /\ UNCHANGED <<folder, assets, anchors, prefs, kit, runs, lapses, overlapped, asked>>

-----------------------------------------------------------------------------
\* update_brand, while the brand is in use: the owner asks for a look outright; or the
\* category is told, which decides the look the first time it is known.
OwnerAsksForLook ==
  /\ \E l \in DOMAIN LOOKS : prefs' = Apply(l)
  /\ UNCHANGED <<folder, assets, anchors, kit, run, runs, lapses, overlapped, asked>>

CategoryTold ==
  /\ prefs.look = "none"
  /\ \E l \in DOMAIN LOOKS : prefs' = Apply(l)
  /\ UNCHANGED <<folder, assets, anchors, kit, run, runs, lapses, overlapped, asked>>

OnboardingNext ==
  \/ AddFile \/ OwnerAsksForLook \/ CategoryTold
  \/ \E s \in Staff : BeginRun(s) \/ Decide(s) \/ Import(s) \/ Anchor(s) \/ NotAnchored(s) \/ EndRun(s)

OnboardingSpec == OnboardingInit /\ [][OnboardingNext]_onboardingVars

-----------------------------------------------------------------------------
\* "The house style is the style of the WHOLE set" (earlier_references): as long as no
\* two runs overlapped, every reference with an anchor was counted in the brand's kit,
\* whichever runs failed half way.  Two that overlap each decide from their own files,
\* and what the earlier one counted is lost for good: nothing is left to be read again.
HouseStyleWhole == ~overlapped => anchors \subseteq kit

\* "Safe to re-run" (main): after a run to which everything answered, whatever earlier or
\* simultaneous runs left half done, each good file of its folders is stored and each
\* post of ours has been read and anchored.
ReRunCompletes ==
  \A s \in Staff : run[s].at = "done" /\ run[s].well =>
    /\ \A f \in (run[s].taken["photo"] \intersect RAW) \ POOR : <<"photo", f>> \in assets
    /\ \A f \in run[s].taken["reference"] \intersect POSTS :
         <<"reference", f>> \in assets /\ f \in anchors

\* "One already on file was screened on the run that stored it" (screen_folders).
\* Refuted: the run that stored it may have had no model to ask.
ScreenedFirst == anchors \subseteq asked
=============================================================================
