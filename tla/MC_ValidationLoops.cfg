\* Two excesses, up to six kernels and four outputs.  Kernel batches of three:
\* four kernels (size 7) flush their last batch at parent position 7, six
\* kernels (size 10) flush a full batch at 9 and an empty one at 10.
\* Rangeproof batches of two.
CONSTANTS
    e1 = e1
    e2 = e2
    Excesses <- MCExcesses
    NoKernel = NoKernel
    KernelBatchSize = 3
    RproofBatchSize = 2
    MaxKernels = 6
    MaxOutputLeaves = 4
SPECIFICATION Spec
SYMMETRY MCSymmetry
INVARIANT TypeOK
INVARIANT FindKernelIsLatest
INVARIANT KernelsVerifiedOnce
INVARIANT RangeproofsVerifiedOnce
