SPECIFICATION Spec
CONSTANTS
    Blocks = {b1, b2, b3}
    Seqs = {s1, s2, s3}
    Hashes = {h1, h2}
    None = None
SYMMETRY MCSymmetry
INVARIANTS TypeOK RefCountsHolders IndexSound SharedIsPublished
PROPERTIES LabelsStable
