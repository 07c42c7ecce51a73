-------------------------- MODULE MC_OctantisPass --------------------------
(* Instances of OctantisPass for TLC: the file of the repository, the one  *)
(* PrintConfig::Print writes, and what a few edits make of the first.      *)
EXTENDS OctantisPass

(* Octantis.cfg                                                            *)
Distributed ==
  << Section("MemoryType"),
     Field("WordLength", Plain("8")), Field("MaxDimensions", Plain("23")),
     Section("SynthesisProcess"),
     Field("AdoptedOptimizations", Plain("Accumulation")),
     Field("SchedulingAlgorithm", Plain("ASAP")),
     Section("AdvancedLiMSettings") >>

(* PrintConfig.cpp:27-39                                                   *)
Default ==
  << Comment, Comment, Comment, Comment,
     Section("MemoryType"), Comment, Field("WordLength", Plain("32")),
     Section("SynthesisProcess"), Comment,
     Field("AdoptedOptimizations", Plain("...")),
     Field("SchedulingAlgorithm", Plain("ASAP")),
     Section("AdvancedLiMSettings"), Comment >>

Lines ==
  {Section("SynthesisProcess"), Section("MemoryType"), Section("Debug"),
   Field("SchedulingAlgorithm", Plain("ALAP")),
   Field("WordLength", Plain("WordLength")), Field("WordLength", Plain("16")),
   Field("AdoptedOptimizations", Bracketed(<<"Accumulation">>)),
   Field("SchedulingAlgorithm", Bracketed(<<"", "ASAP">>)),
   Field("WordLength", Bracketed(<<"8", "16">>))}

Cut(file, n) == SubSeq(file, 1, n - 1) \o SubSeq(file, n + 1, Len(file))
Put(file, n, l) == SubSeq(file, 1, n) \o <<l>> \o SubSeq(file, n + 1, Len(file))

Shortened(file) == {Cut(file, n) : n \in 1..Len(file)}
Extended(file) == {Put(file, n, l) : n \in 0..Len(file), l \in Lines}

Moved(file) ==
  {Put(Cut(file, n), m, file[n]) : n \in 1..Len(file), m \in 0..(Len(file) - 1)}

SomeFiles ==
  {NoFile, Default}
    \cup Shortened(Distributed) \cup Extended(Distributed) \cup Moved(Distributed)
=============================================================================
