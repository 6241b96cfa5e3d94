SPECIFICATION DerivedSpec
CHECK_DEADLOCK FALSE
CONSTANTS
  o1 = o1
  o2 = o2
  o3 = o3
  s1 = s1
  s2 = s2
  Originals = 1
  Completions = {o1, o2, o3}
  Subtitles = {s1, s2}
  MaxAttempts = 2
SYMMETRY Symmetric
INVARIANTS DerivedTypeOK OutputLostToMany SubtitleLostToRival
