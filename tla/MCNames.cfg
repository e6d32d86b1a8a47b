CONSTANTS
  RRs <- MCRRs
  MaxLen = 2
  ClassStr <- MCClassStr
  RrStr <- MCRrStr
SPECIFICATION NamesSpec
INVARIANT OkIffUniformTtl
INVARIANT DomainNameMatchesReference
INVARIANT ZoneMatchIsMutualSuffix
INVARIANT PrintedRRsetReadsBack
