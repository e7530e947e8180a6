SPECIFICATION CVMLiveSpec
CONSTANTS
    ExtraMounts <- MCExtraMounts
    HomeDirs <- MCHomeDirs
    GPUBinds <- MCGPUBinds
CHECK_DEADLOCK FALSE
INVARIANT CVMTypeOK
INVARIANT HandedOverShifted
INVARIANT ContainersKeepImage
INVARIANT GPUBindsAreNew
PROPERTY RunEnds
