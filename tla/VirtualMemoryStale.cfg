\* Longer lists and a thread less than in VirtualMemory.cfg; is the TLB right?
CONSTANTS
  PAGECOUNT = 3
  TLBSIZE = 2
  MAX_ADDRESSES = 7
  Thread = {t1, t2}
  Page = {1, 2, 3, 4}
SPECIFICATION Spec
INVARIANT TranslationRight
