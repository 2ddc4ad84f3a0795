CONSTANTS
    u1 = u1  u2 = u2
    fmain = fmain  fa = fa  fb = fb  fdead = fdead  fpanic = fpanic
    fext = fext  fgone = fgone
    a1 = a1  a2 = a2  a3 = a3  a4 = a4  a5 = a5  a6 = a6  c1 = c1  b1 = b1  b2 = b2
    None = None
    Units = {u1, u2}
    Fns = {fmain, fa, fb, fdead, fpanic, fext, fgone}
    LibcFns = {fext}
    Allocs = {a1, a2, a3, a4, a5, a6}
    Consts = {c1}
    Bytes = {b1, b2}
    PanicFns = {fpanic}
    IsLib = FALSE
    Items <- MCItems
    FnCalls <- MCFnCalls
    FnRefs <- MCFnRefs
    AllocTable <- MCCollisionAllocTable
    ItemAllocs <- MCItemAllocs
    Statics <- MCStatics
SPECIFICATION Spec
PROPERTY
    PlacementRefinesStore
CHECK_DEADLOCK FALSE
